---------------------------- MODULE MCOdinQueue ----------------------------
(* Small instances of OdinQueue for TLC. *)
EXTENDS OdinQueue

MCThreeDirs == {<<"repo">>, <<"repo", "docs">>, <<"site">>}
=============================================================================
