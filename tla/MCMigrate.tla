------------------------------ MODULE MCMigrate ------------------------------
(* Instances of Migrate for TLC. *)
EXTENDS Migrate, TLC

\* The second file of the directory is blank.
MCBlank == {2}
NoBlank == {}

ReplicaSymmetry == Permutations(Replica)
=============================================================================
