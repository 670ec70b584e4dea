------------------------------ MODULE MCEngine ------------------------------
(***************************************************************************)
(* Scenarios and symmetry for model checking.                              *)
(***************************************************************************)
EXTENDS Engine, TLC

Scenario(sync, kinds, maxOpens, maxFaults) ==
  [sync |-> sync, kinds |-> kinds, opens |-> maxOpens, faults |-> maxFaults]

\* Crashes with synchronous and with asynchronous writes, and one I/O error with
\* either.
AllScenarios ==
  {Scenario(TRUE, {"large", "tombstone"}, 2, 0),
   Scenario(FALSE, {"large"}, 3, 0),
   Scenario(TRUE, {"large"}, 2, 1),
   Scenario(FALSE, {"inline"}, 2, 1)}

LiveScenarios  == {Scenario(TRUE, {"inline"}, 2, 0)}
FaultScenarios == {Scenario(TRUE, {"inline"}, 1, 1)}
EmptyScenarios == {Scenario(TRUE, {"inline", "empty"}, 1, 0)}
PowerScenarios == {Scenario(TRUE, {"inline"}, 1, 0)}

\* The keys are interchangeable, the tables and histories are functions of them.
KeySymmetry == Permutations(Keys)

=============================================================================
