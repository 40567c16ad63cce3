--------------------------- MODULE MCMetaHarness ---------------------------
(* A small instance of MetaHarness for TLC. *)
EXTENDS MetaHarness

\* The part of the catalogue the plans below are made of.
MCCatalog ==
  [key \in {"porthos", "dartagnan", "test", "migration_audit"} |->
     [name |-> IF key = "dartagnan" THEN "d'artagnan" ELSE key,
      requires |-> CASE key = "dartagnan" -> {"porthos"} [] key = "test" -> {"dartagnan"} [] OTHER -> {}]]

QuickFix == <<"porthos", "dartagnan", "test">>
MCQuickFix == {QuickFix}
MCRequests == {QuickFix, <<"test">>, <<"builder", "validator">>, <<"delete", "probe">>,
               <<"probe", "probe", "probe", "probe">>}

MCLimits == {[iterations |-> 3, calls |-> 4, failures |-> 2, stale |-> 3],
             [iterations |-> 4, calls |-> 0, failures |-> 2, stale |-> 2],
             [iterations |-> 4, calls |-> 2, failures |-> 2, stale |-> 1],
             [iterations |-> 9, calls |-> 9, failures |-> 2, stale |-> 3]}
MCEasy == {[iterations |-> 9, calls |-> 9, failures |-> 3, stale |-> 9]}
=============================================================================
