---------------------------- MODULE MCOranRicCycle ----------------------------
(***************************************************************************)
(* Scenarios of the query cycle for TLC.                                   *)
(***************************************************************************)
EXTENDS OranRicCycle

CONSTANTS dflt, lm1, lm2

MCLMs == {dflt, lm1, lm2}
MCAdditional == {lm1}

Scenario(wait, policy, int, dly, calls) ==
    [maxWait |-> wait, latePolicy |-> policy, interval |-> int,
     delays |-> dly, ops |-> calls]

\* One scenario per regime: LMs faster than the query interval; a wait limit
\* shorter than the interval; report-triggered queries with overlapping
\* waits; restarts without and with a limit, late commands saved; LMs added,
\* removed and replaced.
MCConfigs ==
    { Scenario(0, "DROP", 2, {0, 1}, {"Start"}),
      Scenario(1, "DROP", 2, {0, 1, 2}, {"Start", "Activate"}),
      Scenario(2, "DROP", 2, {0, 1, 3}, {"Start", "Report"}),
      Scenario(0, "DROP", 2, {1, 2}, {"Start", "Report", "Stop"}),
      Scenario(1, "SAVE", 2, {0, 2}, {"Start", "Stop", "Deactivate"}),
      Scenario(1, "SAVE", 2, {2}, {"Start", "Stop", "Report"}),
      Scenario(1, "DROP", 2, {1, 3},
               {"Start", "AddLogicModule", "RemoveLogicModule",
                "SetDefaultLogicModule"}) }

\* Report-triggered queries while the RIC waits for slow LMs.
OverlapConfigs == { Scenario(2, "DROP", 3, {0, 1, 2}, {"Start", "Report"}) }

\* Late commands are saved, and their LM is on time in the next cycle.
SaveConfigs == { Scenario(1, "SAVE", 3, {0, 2}, {"Start"}) }

\* LMs come and go in a running RIC.
ChangeConfigs == { Scenario(0, "DROP", 2, {0, 1, 3},
                            {"Start", "AddLogicModule", "RemoveLogicModule"}) }
=============================================================================
