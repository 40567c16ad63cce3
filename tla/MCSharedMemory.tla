--------------------------- MODULE MCSharedMemory ---------------------------
(* Small instances of SharedMemory for TLC. *)
EXTENDS SharedMemory, TLC

\* The operator has every right, as init provisions it, the user's own client may
\* speak for the user, and a worker may neither do that nor review.
MCRights == [a \in Actors |->
  CASE ToString(a) = "operator" -> RIGHTS
    [] ToString(a) = "user" -> {"read", "write", "forget", "user_ingress"}
    [] OTHER -> {"read", "write", "forget"}]

MCAsks == [t \in Texts |-> IF ToString(t) = "fixed" THEN None ELSE "project"]

MCSymmetry == Permutations(Keys) \cup Permutations(Ids)
=============================================================================
