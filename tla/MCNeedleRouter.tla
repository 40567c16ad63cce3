--------------------------- MODULE MCNeedleRouter ---------------------------
(* A small instance of NeedleRouter for TLC. *)
EXTENDS NeedleRouter

MCCatalogs == {{}, {"a"}, {"a", "b"}}
=============================================================================
