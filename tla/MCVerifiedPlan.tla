-------------------------- MODULE MCVerifiedPlan --------------------------
(* Small instances of VerifiedPlan for TLC. *)
EXTENDS VerifiedPlan, TLC

MCFork == <<{}, {1}, {1, 2}, {}>>
MCForkClass == <<"SAFE", "GATED", "SAFE", "NEEDS_ARGS">>
MCForkUnstable == {<<"ensures", 1>>, <<"requires", 1>>, <<"sources", 2>>}

=============================================================================
