--------------------------- MODULE MCRuntimeRuns ---------------------------
(* A small instance of RuntimeRuns for TLC. *)
EXTENDS RuntimeRuns, TLC

\* The operator has every right, agents write for themselves.
MCRights == [a \in Actors |-> IF a \in Operators THEN RIGHTS ELSE {"read", "write", "forget"}]
MCAsks == [t \in Texts |-> IF t = Observation THEN "private" ELSE "project"]
=============================================================================
