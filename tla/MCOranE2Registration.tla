------------------------- MODULE MCOranE2Registration -------------------------
(***************************************************************************)
(* Scenarios of registration for TLC.                                      *)
(***************************************************************************)
EXTENDS OranE2Registration

CONSTANTS ue1, wired1, null

Scenario(used, regInts, dlys, thr, checks, disk, calls) ==
    [nodes |-> used, regIntervals |-> regInts, delays |-> dlys, threshold |-> thr,
     checkIntervals |-> checks, persistent |-> disk, ops |-> calls]

MCNodes == {ue1, wired1}
MCUeNodes == {ue1}
MCEnbNodes == {}

\* Prompt refreshes, at the threshold exactly; refreshes that messages
\* overtake and that are too late; nodes that come and go; a RIC that is
\* restarted, with a database on disk and without.
MCConfigs ==
    { Scenario(MCNodes, {3}, {0, 1}, 4, {2}, TRUE, {}),
      Scenario({ue1}, {3}, {0, 1}, 4, {1}, TRUE, {"QueryLms", "Command"}),
      Scenario({ue1}, {2}, {0, 2}, 1, {2}, TRUE, {}),
      Scenario({ue1}, {3}, {0, 2}, 2, {3}, FALSE, {"DeactivateNode"}),
      Scenario(MCNodes, {3}, {1}, 2, {3}, TRUE, {"StopRic"}),
      Scenario({ue1}, {2}, {1}, 1, {2}, FALSE, {"StopRic", "DeactivateNode"}) }

\* A registration takes longer than the registration interval.
SlowConfigs == { Scenario({ue1}, {1}, {1}, 4, {2}, TRUE, {}) }
=============================================================================
