------------------------------ MODULE MCIncident ------------------------------
(* Values for model checking Incident.                                       *)
EXTENDS Incident

\* A request, a frame and the end of a session; two inspectors, one of which the
\* request does not name.
CardRow == {[phase |-> "request", frame |-> 0, at |-> 1, insp |-> {1}, acts |-> {1}],
            [phase |-> "frame", frame |-> 1, at |-> 2, insp |-> {1, 2}, acts |-> {1, 2}],
            [phase |-> "session", frame |-> 0, at |-> 3, insp |-> {}, acts |-> {}]}

\* An event with more findings than are kept, one with a finding that has no
\* code, one without findings, and one about another frame; some tell what became of
\* an action.
CardEvent == {[phase |-> "request", frame |-> 0, by |-> 1, coded |-> <<TRUE, FALSE, TRUE>>, says |-> {}],
              [phase |-> "request", frame |-> 0, by |-> 2, coded |-> <<TRUE>>, says |-> {1}],
              [phase |-> "frame", frame |-> 1, by |-> 1, coded |-> <<>>, says |-> {1, 3}],
              [phase |-> "frame", frame |-> 2, by |-> 2, coded |-> <<TRUE>>, says |-> {1}]}

CardWant == {[phase |-> "", frame |-> 0], [phase |-> "request", frame |-> 0],
             [phase |-> "frame", frame |-> 1], [phase |-> "", frame |-> 1],
             [phase |-> "tunnel", frame |-> 0]}

\* A request and eight frames.
SocketRow ==
  {[phase |-> "request", frame |-> 0, at |-> 0, insp |-> {}, acts |-> {}]}
    \cup {[phase |-> "frame", frame |-> n, at |-> n, insp |-> {}, acts |-> {}] : n \in 1..8}

AnyPhase == {[phase |-> "", frame |-> 0]}
=============================================================================
