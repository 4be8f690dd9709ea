--------------------------- MODULE MCOranReporting ---------------------------
(***************************************************************************)
(* Scenarios of the reporting chain for TLC.                               *)
(***************************************************************************)
EXTENDS OranReporting

TwoReporters == {1, 2}

Scenario(ticking, first, apploss, script, rep, chk, nmsgs, nsends, npackets) ==
    [periodic |-> ticking, initial |-> first, loss |-> apploss, maxOps |-> script,
     maxReports |-> rep, maxChecks |-> chk, maxMsgs |-> nmsgs, maxSends |-> nsends,
     maxPackets |-> npackets]

\* Initial reports with both kinds of triggers while the RIC deregisters the
\* node; a node that is activated twice; reporters without initial reports;
\* packet loss; registrations that overtake each other.
MCConfigs ==
    { Scenario({1}, {1}, {}, 3, 2, 1, 1, 2, 0),
      Scenario({1}, {1}, {}, 4, 1, 0, 1, 2, 0),
      Scenario({1}, {2}, {}, 4, 1, 0, 1, 2, 0),
      Scenario({1, 2}, {}, {}, 4, 1, 1, 1, 2, 0),
      Scenario({1}, {}, {1}, 1, 3, 0, 1, 1, 4),
      Scenario({1}, {}, {}, 2, 1, 1, 2, 3, 0) }
=============================================================================
