---------------------------- MODULE ArchiveConfig ----------------------------
(***************************************************************************)
(* The archive as the environment of audit-search describes it:            *)
(* internal/store/config.go, read once when cmd/search starts.  Values are *)
(* there or not; what they hold makes no difference here.                  *)
(***************************************************************************)
EXTENDS Integers

Kinds == {"headers", "args", "body"}
Credential == {"access", "secret"}

\* file: the credentials file, none, unreadable, or read; inFile: what it names;
\* inVars: the credentials given as variables; number: the size or the timeout.
Environment == [endpoint : BOOLEAN, file : {"none", "unreadable", "read"},
                inFile : SUBSET Credential, inVars : SUBSET Credential,
                buckets : SUBSET Kinds, number : {"unset", "good", "bad"}]

\* readCredentials and the variables that fill its gaps.
Credentials(env) == (IF env.file = "read" THEN env.inFile ELSE {}) \cup env.inVars

\* size and span: a value that is no positive number or duration.
BadNumber(env) == env.number = "bad"

\* FromEnv: the start fails on a broken configuration.
StartFailsMutant(env) == env.file = "unreadable" \/ BadNumber(env)
StartFails(env) ==
  \/ env.file = "unreadable"
  \/ BadNumber(env)
  \/ env.endpoint /\ Credentials(env) # Credential

\* There is an archive to read from.
ArchiveEnabled(env) == env.endpoint /\ Credentials(env) = Credential /\ env.buckets # {}

\* A kind of content is not in the archive, or there is none.
Disabled(env, kind) == ~ArchiveEnabled(env) \/ kind \notin env.buckets
=============================================================================
