---------------------------- MODULE MCOdinCodex ----------------------------
(* Small instances of OdinCodex for TLC. *)
EXTENDS OdinCodex, TLC

MCOneDir == {<<"repo">>}
MCSeparateDirs == {<<"repo">>, <<"site">>}
\* A question of a supported method with one of the decisions, one of another method.
MCQuestions ==
  {[supported |-> TRUE, available |-> {"accept"}], [supported |-> FALSE, available |-> Decisions]}
MCAnswerable == {[supported |-> TRUE, available |-> {"accept"}]}
MCKeySymmetry == Permutations(Keys)
=============================================================================
