-------------------------- MODULE MCOranHandoverLoop --------------------------
(***************************************************************************)
(* Scenarios of the handover loop for TLC: three cells, two places.        *)
(***************************************************************************)
EXTENDS OranHandoverLoop

CONSTANTS null, unknown

MCCells == {1, 2, 3}
TwoCells == {1, 2}
TwoUes == {1, 2}
TwoPlaces == {1, 2}

\* Place p is at cell p; nothing is close to cell 3.
MCDistance == << <<0, 5, 9>>, <<5, 0, 9>> >>

Scenario(filter, deployed, dflt, enbs, users, mv, rf, copies, rntis) ==
    [cmm |-> filter, lms |-> deployed, defaultLm |-> dflt, listed |-> enbs,
     ues |-> users, initCell |-> <<1, 2>>, maxMoves |-> mv, maxRefusals |-> rf,
     maxCopies |-> copies, maxRnti |-> rntis]

\* UE 2 starts in cell 3, so that two LMs can want it in different cells.
FromThird(s) == [s EXCEPT !.initCell = <<1, 3>>, !.listed = MCCells]

\* Each conflict mitigation module with the distance LM and a UE that moves;
\* two UEs that change places; two LMs with either one as the default; the
\* Torch LM; an eNB the repository does not list.
MCConfigs ==
    { Scenario("Noop", {"distance"}, "distance", TwoCells, {1}, 1, 1, 2, 3),
      Scenario("SingleCommandPerNode", {"distance"}, "distance", TwoCells, {1}, 1, 1, 1, 3),
      Scenario("Handover", {"distance"}, "distance", TwoCells, {1}, 2, 1, 1, 3),
      Scenario("Handover", {"distance", "onnx"}, "distance", TwoCells, {2}, 0, 1, 1, 3),
      Scenario("Noop", {"distance"}, "distance", TwoCells, TwoUes, 0, 0, 1, 2),
      Scenario("Noop", {"distance", "onnx"}, "distance", TwoCells, {2}, 0, 0, 2, 2),
      FromThird(Scenario("SingleCommandPerNode", {"distance", "onnx"}, "onnx", {}, {2}, 0, 0, 1, 1)),
      FromThird(Scenario("SingleCommandPerNode", {"distance", "onnx"}, "distance", {}, {2}, 0, 0, 1, 2)),
      Scenario("Handover", {"torch"}, "torch", MCCells, {2}, 0, 0, 1, 2),
      Scenario("Handover", {"distance"}, "distance", {2}, {1}, 0, 0, 1, 2) }

\* A handover is refused.
RefusedConfigs ==
    { Scenario("Handover", {"distance"}, "distance", TwoCells, {1}, 0, 1, 1, 3) }

\* The LM knows of one of the two UEs before it knows of the other.
TorchConfigs ==
    { Scenario("Handover", {"torch"}, "torch", MCCells, TwoUes, 0, 0, 1, 2) }
=============================================================================
