--------------------------- MODULE OranHandoverLoop ---------------------------
(***************************************************************************)
(* The control loop of O-RAN handover: UEs report their cell and position, *)
(* Logic Modules decide on handovers from what the repository has          *)
(* (oran-lm-lte-2-lte-distance-handover.cc, -onnx-handover.cc,             *)
(* -torch-handover.cc), a conflict mitigation module filters the commands  *)
(* (oran-cmm-noop.cc, oran-cmm-handover.cc,                                *)
(* oran-cmm-single-command-per-node.cc), and the eNB of the UE executes    *)
(* them (oran-e2-node-terminator-lte-enb.cc, lte-enb-rrc.cc).              *)
(*                                                                         *)
(* Reports and commands take their time and overtake each other, so an LM  *)
(* decides on old information and a command may find the UE elsewhere or   *)
(* in the middle of a handover.  Queries do not overlap and all nodes stay *)
(* registered: modules OranRicCycle and OranE2Registration have the rest.  *)
(* An X2 handover is in as many steps as the loop can tell apart.          *)
(***************************************************************************)
EXTENDS Integers, Sequences, FiniteSets, Bags

CONSTANTS
    Ues,         \* the UEs, numbered as they attached; their E2 node ids are 1..n
    Cells,       \* the cells, one eNB each; the eNB of cell c has the node id n + c
    Places,      \* positions of a UE
    Distance,    \* Distance[p][c]: from place p to the eNB of cell c
    Unknown,     \* what a query without a result returns
    NoNode,      \* an E2 node id without a terminator
    Configs,     \* the scenarios
    MaxReports   \* bound: reports of one kind of one UE that are under way

LMs == {"distance", "onnx", "torch"}

Config == [ cmm       : {"Noop", "Handover", "SingleCommandPerNode"},
            lms       : SUBSET LMs,      \* the LMs deployed
            defaultLm : LMs,
            listed    : SUBSET Cells,    \* cells whose eNB the repository lists
            ues       : SUBSET Ues,      \* the UEs that report
            initCell  : [Ues -> Cells],  \* where they attached
            maxMoves  : Nat,             \* bound: position changes
            maxRefusals : Nat,           \* bound: handovers the targets refuse
            maxCopies : Nat \ {0},       \* bound: copies of a command under way
            maxRnti   : Nat ]            \* bound: RNTIs of a cell (2^16 - 1 in the code)

ASSUME LoopAssumption ==
    /\ Ues = 1..Cardinality(Ues) /\ IsFiniteSet(Ues)
    /\ Cells = 1..Cardinality(Cells) /\ IsFiniteSet(Cells)  \* LteHelper counts them
    /\ NoNode \notin Cells \cup {0}
    /\ Unknown \notin Places
    /\ \A c \in Cells, r \in {1} : Unknown # [cell |-> c, rnti |-> r]
    /\ Distance \in [Places -> [Cells -> Nat]]
    /\ Configs \subseteq Config
    /\ \A c \in Configs : /\ c.defaultLm \in c.lms
                          /\ "onnx" \in c.lms => {1, 2} \subseteq Cells
                          /\ "torch" \in c.lms => Cardinality(c.listed) >= 3
    /\ MaxReports \in Nat \ {0}

VARIABLES
    conf,         \* the configuration of this scenario
    place,        \* where the UEs are
    serving,      \* m_cellId and m_rnti of the UEs' RRC
    contexts,     \* m_ueMap of all eNBs: their UeManagers
    lastRnti,     \* LteEnbRrc::m_lastAllocatedRnti
    cellReports,  \* cell info reports under way, oldest first
    placeReports, \* location reports under way, oldest first
    cellInfo,     \* the repository's latest cell info of each UE
    position,     \* the repository's latest position of each UE
    rows,         \* table lteuecell: which UE had which RNTI in which cell
    collected,    \* m_lmQueryCommands
    pendingCmds,  \* OranCmmHandover::m_pendingCmds
    commands,     \* the bag of commands under way to eNBs
    fatal,        \* why the program was ended by a fatal error
    moves,        \* history: number of position changes
    refusals      \* history: number of refused handovers

ueVars == <<place, serving, moves>>
enbVars == <<contexts, lastRnti, refusals>>
dataVars == <<cellReports, placeReports, cellInfo, position, rows>>
ricVars == <<collected, pendingCmds, commands>>
vars == <<conf, place, serving, contexts, lastRnti, cellReports, placeReports,
          cellInfo, position, rows, collected, pendingCmds, commands, fatal, moves,
          refusals>>

-----------------------------------------------------------------------------
Rnti == Nat \ {0}
CellInfo == [cell : Cells, rnti : Rnti]

\* A UeManager; `target` and `newRnti` matter once a handover has begun.
States == {"CONNECTED_NORMALLY", "HANDOVER_PREPARATION", "HANDOVER_LEAVING",
           "HANDOVER_JOINING", "HANDOVER_PATH_SWITCH"}
Context == [ue : Ues, cell : Cells, rnti : Rnti, state : States,
            target : Cells, newRnti : Nat]

\* What a command may be sent to: the eNB of a cell, a UE (0), no node at all.
Targets == Cells \cup {0, NoNode}

\* A handover command; `ue` is the UE the LM meant and is not part of it.
Command == [target : Targets, rnti : Rnti, cell : Cells, ue : Ues]

\* What OranCmmHandover compares.
Key(cmd) == <<cmd.target, cmd.cell, cmd.rnti>>

TypeOK ==
    /\ conf \in Configs
    /\ place \in [Ues -> Places]
    /\ serving \in [Ues -> CellInfo]
    /\ contexts \in SUBSET Context
    /\ lastRnti \in [Cells -> Nat]
    /\ cellReports \in [Ues -> Seq(CellInfo)]
    /\ placeReports \in [Ues -> Seq(Places)]
    /\ cellInfo \in [Ues -> CellInfo \cup {Unknown}]
    /\ position \in [Ues -> Places \cup {Unknown}]
    /\ rows \in SUBSET (Cells \X Rnti \X Ues)
    /\ collected \in [LMs -> SUBSET Command]
    /\ pendingCmds \in SUBSET (Targets \X Cells \X Rnti)
    /\ IsABag(commands) /\ BagToSet(commands) \subseteq Command
    /\ fatal \in States \cup {"no", "null terminator", "own cell"}
    /\ moves \in Nat
    /\ refusals \in Nat

NewContext(u, c, r, s) ==
    [ue |-> u, cell |-> c, rnti |-> r, state |-> s, target |-> c, newRnti |-> 0]

\* Fault: the first RNTI is 0.
InitRnti_FromZero(u) ==
    Cardinality({v \in Ues : conf.initCell[v] = conf.initCell[u] /\ v < u})

\* The RNTI a UE got when it attached: one after the other in each cell.
InitRnti(u) == Cardinality({v \in Ues : conf.initCell[v] = conf.initCell[u] /\ v <= u})

Init ==
    /\ conf \in Configs
    /\ place \in [Ues -> Places]
    /\ serving = [u \in Ues |-> [cell |-> conf.initCell[u], rnti |-> InitRnti(u)]]
    /\ contexts = {NewContext(u, conf.initCell[u], InitRnti(u), "CONNECTED_NORMALLY") :
                      u \in Ues}
    /\ lastRnti = [c \in Cells |-> Cardinality({u \in Ues : conf.initCell[u] = c})]
    /\ cellReports = [u \in Ues |-> <<>>]
    /\ placeReports = [u \in Ues |-> <<>>]
    /\ cellInfo = [u \in Ues |-> Unknown]
    /\ position = [u \in Ues |-> Unknown]
    /\ rows = {}
    /\ collected = [l \in LMs |-> {}]
    /\ pendingCmds = {}
    /\ commands = EmptyBag
    /\ fatal = "no"
    /\ moves = 0
    /\ refusals = 0

Running == fatal = "no"

-----------------------------------------------------------------------------
(***************************************************************************)
(* UEs and their reports.                                                  *)
(***************************************************************************)
Move(u, p) ==
    /\ Running
    /\ moves < conf.maxMoves
    /\ u \in conf.ues
    /\ p # place[u]
    /\ place' = [place EXCEPT ![u] = p]
    /\ moves' = moves + 1
    /\ UNCHANGED <<conf, serving, enbVars, dataVars, ricVars, fatal>>

\* OranReporterLteUeCellInfo: what the UE's RRC has.
ReportCell(u) ==
    /\ Running
    /\ u \in conf.ues
    /\ Len(cellReports[u]) < MaxReports
    /\ cellReports' = [cellReports EXCEPT ![u] = Append(@, serving[u])]
    /\ UNCHANGED <<conf, ueVars, enbVars, placeReports, cellInfo, position, rows,
                   ricVars, fatal>>

\* OranReporterLocation
ReportPlace(u) ==
    /\ Running
    /\ u \in conf.ues
    /\ Len(placeReports[u]) < MaxReports
    /\ placeReports' = [placeReports EXCEPT ![u] = Append(@, place[u])]
    /\ UNCHANGED <<conf, ueVars, enbVars, cellReports, cellInfo, position, rows,
                   ricVars, fatal>>

\* A report arrives.  GetLteUeCellInfo and the LMs take the row that was
\* generated last, so the older reports it has overtaken no longer matter.
ReceiveCellReport(u, i) ==
    /\ Running
    /\ i \in DOMAIN cellReports[u]
    /\ cellInfo' = [cellInfo EXCEPT ![u] = cellReports[u][i]]
    /\ rows' = rows \cup {<<cellReports[u][i].cell, cellReports[u][i].rnti, u>>}
    /\ cellReports' = [cellReports EXCEPT ![u] = SubSeq(@, i + 1, Len(@))]
    /\ UNCHANGED <<conf, ueVars, enbVars, placeReports, position, ricVars, fatal>>

ReceivePlaceReport(u, i) ==
    /\ Running
    /\ i \in DOMAIN placeReports[u]
    /\ position' = [position EXCEPT ![u] = placeReports[u][i]]
    /\ placeReports' = [placeReports EXCEPT ![u] = SubSeq(@, i + 1, Len(@))]
    /\ UNCHANGED <<conf, ueVars, enbVars, cellReports, cellInfo, rows, ricVars, fatal>>

-----------------------------------------------------------------------------
(***************************************************************************)
(* The Logic Modules.                                                      *)
(***************************************************************************)

\* GetUeInfos
Known == {u \in Ues : cellInfo[u] # Unknown /\ position[u] # Unknown}

\* Fault: the minimum is not updated, so that the last eNB in the list wins.
Closest_Last(p) == CHOOSE c \in conf.listed : \A d \in conf.listed : d <= c

\* The closest of the eNBs that GetEnbInfos returns: the first one in the
\* list when several are at the same distance.
Closest(p) ==
    CHOOSE c \in conf.listed : \A d \in conf.listed :
        \/ Distance[p][c] < Distance[p][d]
        \/ Distance[p][c] = Distance[p][d] /\ c <= d

\* newCellId starts as the cell of the UE.
NewCell(u) ==
    IF conf.listed = {} THEN cellInfo[u].cell ELSE Closest(position[u])

\* oldCellNodeId: uninitialised when the serving eNB is not in the list.
OldCellNodeIds(u) ==
    IF cellInfo[u].cell \in conf.listed THEN {cellInfo[u].cell} ELSE Targets

Handover(u, old, new) ==
    [target |-> old, rnti |-> cellInfo[u].rnti, cell |-> new, ue |-> u]

\* OranLmLte2LteDistanceHandover::Run, with the old cells' node ids it reads.
DistanceCommands(old) ==
    {Handover(u, old[u], NewCell(u)) :
        u \in {v \in Known : NewCell(v) # cellInfo[v].cell}}

\* OranLmLte2LteOnnxHandover: the class the network picks names cell 1 or 2 for
\* UEs 2 and 3.  The ids of the two eNBs are fixed in the code; that they are
\* right is taken for granted.
OnnxCommands(want) ==
    {Handover(u, cellInfo[u].cell, want[u]) :
        u \in {v \in Known \cap {2, 3} : want[v] \in {1, 2} /\ want[v] # cellInfo[v].cell}}

\* The node with the id numUEs + cellId, where numUEs is the number of UEs the
\* LM has found.
TorchTarget(u) ==
    LET c == cellInfo[u].cell - (Cardinality(Ues) - Cardinality(Known))
    IN  IF c <= 0 THEN 0 ELSE c

\* OranLmLte2LteTorchHandover: some of the UEs in turn, those with a loss above
\* the average, to one of the three closest cells.
TorchCommands(want) ==
    {Handover(u, TorchTarget(u), want[u]) :
        u \in {v \in Known : want[v] \in conf.listed /\ want[v] # cellInfo[v].cell}}

\* The LMs have run on what the repository had.
QueryLms ==
    /\ Running
    /\ \A l \in LMs : collected[l] = {}
    /\ \E old \in [Known -> Targets], want \in [Known -> Cells] :
          /\ \A u \in Known : old[u] \in OldCellNodeIds(u)
          /\ collected' = [l \in LMs |->
                IF l \notin conf.lms THEN {}
                ELSE CASE l = "distance" -> DistanceCommands(old)
                       [] l = "onnx"     -> OnnxCommands(want)
                       [] l = "torch"    -> TorchCommands(want)]
    /\ UNCHANGED <<conf, ueVars, enbVars, dataVars, pendingCmds, commands, fatal>>

-----------------------------------------------------------------------------
(***************************************************************************)
(* Conflict mitigation.                                                    *)
(***************************************************************************)
AllCollected == UNION {collected[l] : l \in LMs}

\* The UE a command affects, looked up by the cell of its target, if that is a
\* registered eNB, and the RNTI: 0 when there is no row.
AffectedNode(cmd) ==
    LET found == {u \in Ues : cmd.target \in conf.listed /\ <<cmd.target, cmd.rnti, u>> \in rows}
    IN  IF found = {} THEN 0 ELSE CHOOSE u \in found : TRUE

None == [cmd |-> Unknown, isDefault |-> FALSE]

\* The LMs' commands are in the order of the UEs' node ids.
First(cmds) == CHOOSE c \in cmds : \A d \in cmds : c.ue <= d.ue

\* Fault: the last command wins, whichever LM has issued it.
Replaces_Always(l, old) == TRUE

\* Does a command of LM l replace an old one?
Replaces(l, old) == old = None \/ (l = conf.defaultLm /\ ~old.isDefault)

\* OranCmmSingleCommandPerNode: the selection after LM l's commands.
Select(sel, l) ==
    [a \in Ues \cup {0} |->
        LET cmds == {c \in collected[l] : AffectedNode(c) = a}
        IN  IF cmds # {} /\ Replaces(l, sel[a])
              THEN [cmd |-> First(cmds), isDefault |-> l = conf.defaultLm]
              ELSE sel[a]]

\* The map of commands is ordered by the LMs' names.
SingleCommandPerNode ==
    LET sel == Select(Select(Select([a \in Ues \cup {0} |-> None],
                                    "distance"), "onnx"), "torch")
    IN  {sel[a].cmd : a \in {b \in DOMAIN sel : sel[b] # None}}

\* OranCmmHandover: the commands that were not let through before.
NotPending ==
    LET new == {c \in AllCollected : Key(c) \notin pendingCmds}
    IN  {First({c \in new : Key(c) = k}) : k \in {Key(c) : c \in new}}

Filter ==
    CASE conf.cmm = "Noop"     -> SetToBag(collected["distance"]) (+) SetToBag(collected["onnx"])
                                    (+) SetToBag(collected["torch"])
      [] conf.cmm = "Handover" -> SetToBag(NotPending)
      [] OTHER                 -> SetToBag(SingleCommandPerNode)

\* Fault: the commands let through are not remembered.
Remembered_Not(cmds) == pendingCmds

\* m_pendingCmds after Filter; nothing is ever removed from it.
Remembered(cmds) ==
    IF conf.cmm = "Handover" THEN pendingCmds \cup {Key(c) : c \in cmds} ELSE pendingCmds

\* ProcessLmQueryCommands: the RIC sends what the CMM lets through.
ProcessLmQueryCommands ==
    /\ Running
    /\ AllCollected # {}
    /\ commands' = commands (+) Filter
    /\ \A cmd \in BagToSet(commands') : commands'[cmd] <= conf.maxCopies
    /\ pendingCmds' = Remembered(BagToSet(Filter))
    /\ collected' = [l \in LMs |-> {}]
    /\ UNCHANGED <<conf, ueVars, enbVars, dataVars, fatal>>

-----------------------------------------------------------------------------
(***************************************************************************)
(* Handover.                                                               *)
(***************************************************************************)
Addressed(cmd) == {x \in contexts : x.cell = cmd.target /\ x.rnti = cmd.rnti}

Replace(x, y) == (contexts \ {x}) \cup {y}

\* Fault: the state is not checked.
PrepareHandover_AnyState(x, c) ==
    \/ /\ c # x.cell
       /\ contexts' = Replace(x, [x EXCEPT !.state = "HANDOVER_PREPARATION", !.target = c])
       /\ UNCHANGED fatal
    \/ c = x.cell /\ fatal' = "own cell" /\ UNCHANGED contexts

\* UeManager::PrepareHandover is for connected UEs and other cells only.
PrepareHandover(x, c) ==
    \/ /\ x.state = "CONNECTED_NORMALLY"
       /\ c # x.cell
       /\ contexts' = Replace(x, [x EXCEPT !.state = "HANDOVER_PREPARATION", !.target = c])
       /\ UNCHANGED fatal
    \/ /\ x.state = "CONNECTED_NORMALLY"
       /\ c = x.cell
       /\ fatal' = "own cell"
       /\ UNCHANGED contexts
    \/ /\ x.state # "CONNECTED_NORMALLY"
       /\ fatal' = x.state
       /\ UNCHANGED contexts

\* OranE2NodeTerminatorLteEnb::ReceiveCommand: a command for an RNTI the eNB
\* does not have is ignored.
ReceiveCommand(cmd) ==
    /\ Running
    /\ BagIn(cmd, commands)
    /\ commands' = commands (-) SetToBag({cmd})
    /\ \/ /\ cmd.target = NoNode
          /\ fatal' = "null terminator"
          /\ UNCHANGED contexts
       \/ \E x \in Addressed(cmd) : PrepareHandover(x, cmd.cell)
       \/ /\ cmd.target # NoNode
          /\ Addressed(cmd) = {}
          /\ UNCHANGED <<contexts, fatal>>
    /\ UNCHANGED <<conf, ueVars, lastRnti, refusals, dataVars, collected, pendingCmds>>

\* Fault: the lowest free RNTI is taken.
NextRnti_LowestFree(c) ==
    CHOOSE r \in 1..(lastRnti[c] + 1) :
        /\ \A x \in contexts : x.cell = c => x.rnti # r
        /\ \A s \in 1..(r - 1) : \E x \in contexts : x.cell = c /\ x.rnti = s

\* AddUe goes on from the last RNTI (it would wrap around after 2^16 - 1).
NextRnti(c) == lastRnti[c] + 1

\* DoRecvHandoverRequest at the target and RecvHandoverRequestAck at the source.
AdmitHandover(x) ==
    /\ Running
    /\ x.state = "HANDOVER_PREPARATION"
    /\ NextRnti(x.target) <= conf.maxRnti
    /\ LET r == NextRnti(x.target) IN
          /\ lastRnti' = [lastRnti EXCEPT ![x.target] = r]
          /\ contexts' = Replace(x, [x EXCEPT !.state = "HANDOVER_LEAVING", !.newRnti = r])
                            \cup {NewContext(x.ue, x.target, r, "HANDOVER_JOINING")}
    /\ UNCHANGED <<conf, ueVars, refusals, dataVars, ricVars, fatal>>

\* DoRecvHandoverRequest refuses, at once or, for want of a preamble, after
\* AddUe; RecvHandoverPreparationFailure at the source.
RefuseHandover(x) ==
    /\ Running
    /\ x.state = "HANDOVER_PREPARATION"
    /\ refusals < conf.maxRefusals
    /\ refusals' = refusals + 1
    /\ \/ UNCHANGED lastRnti
       \/ /\ NextRnti(x.target) <= conf.maxRnti
          /\ lastRnti' = [lastRnti EXCEPT ![x.target] = NextRnti(x.target)]
    /\ contexts' = Replace(x, [x EXCEPT !.state = "CONNECTED_NORMALLY"])
    /\ UNCHANGED <<conf, ueVars, dataVars, ricVars, fatal>>

\* LteUeRrc::DoRecvRrcConnectionReconfiguration: from now on the UE reports
\* its new cell.
RecvReconfiguration(x) ==
    /\ Running
    /\ x.state = "HANDOVER_LEAVING"
    /\ serving[x.ue] = [cell |-> x.cell, rnti |-> x.rnti]
    /\ serving' = [serving EXCEPT ![x.ue] = [cell |-> x.target, rnti |-> x.newRnti]]
    /\ UNCHANGED <<conf, place, moves, enbVars, dataVars, ricVars, fatal>>

\* UeManager::RecvRrcConnectionReconfigurationCompleted at the target.
ReconfigurationCompleted(x) ==
    /\ Running
    /\ x.state = "HANDOVER_JOINING"
    /\ serving[x.ue] = [cell |-> x.cell, rnti |-> x.rnti]
    /\ contexts' = Replace(x, [x EXCEPT !.state = "HANDOVER_PATH_SWITCH"])
    /\ UNCHANGED <<conf, ueVars, lastRnti, refusals, dataVars, ricVars, fatal>>

\* DoPathSwitchRequestAcknowledge: the target is done.
PathSwitchAcknowledge(x) ==
    /\ Running
    /\ x.state = "HANDOVER_PATH_SWITCH"
    /\ contexts' = Replace(x, [x EXCEPT !.state = "CONNECTED_NORMALLY"])
    /\ UNCHANGED <<conf, ueVars, lastRnti, refusals, dataVars, ricVars, fatal>>

\* DoRecvUeContextRelease at the source, some time after the path switch.
UeContextRelease(x) ==
    /\ Running
    /\ x.state = "HANDOVER_LEAVING"
    /\ \A y \in contexts :
          y.cell = x.target /\ y.rnti = x.newRnti
          => y.state \notin {"HANDOVER_JOINING", "HANDOVER_PATH_SWITCH"}
    /\ contexts' = contexts \ {x}
    /\ UNCHANGED <<conf, ueVars, lastRnti, refusals, dataVars, ricVars, fatal>>

-----------------------------------------------------------------------------
\* The program has ended by a fatal error.
Ended == ~Running /\ UNCHANGED vars

Next ==
    \/ \E u \in Ues, p \in Places : Move(u, p)
    \/ \E u \in Ues : ReportCell(u)
    \/ \E u \in Ues : ReportPlace(u)
    \/ \E u \in Ues, i \in 1..MaxReports : ReceiveCellReport(u, i)
    \/ \E u \in Ues, i \in 1..MaxReports : ReceivePlaceReport(u, i)
    \/ QueryLms
    \/ ProcessLmQueryCommands
    \/ \E cmd \in BagToSet(commands) : ReceiveCommand(cmd)
    \/ \E x \in contexts : AdmitHandover(x)
    \/ \E x \in contexts : RefuseHandover(x)
    \/ \E x \in contexts : RecvReconfiguration(x)
    \/ \E x \in contexts : ReconfigurationCompleted(x)
    \/ \E x \in contexts : PathSwitchAcknowledge(x)
    \/ \E x \in contexts : UeContextRelease(x)
    \/ Ended

Spec == Init /\ [][Next]_vars

(***************************************************************************)
(* Reports and queries are periodic, and every message arrives after some  *)
(* delay.                                                                  *)
(***************************************************************************)
Fairness ==
    /\ \A u \in Ues :
          /\ WF_vars(ReportCell(u))
          /\ WF_vars(ReportPlace(u))
          /\ WF_vars(\E i \in 1..MaxReports : ReceiveCellReport(u, i))
          /\ WF_vars(\E i \in 1..MaxReports : ReceivePlaceReport(u, i))
          /\ WF_vars(\E cmd \in BagToSet(commands) : cmd.ue = u /\ ReceiveCommand(cmd))
          /\ WF_vars(\E x \in contexts : x.ue = u /\ (AdmitHandover(x) \/ RefuseHandover(x)))
          /\ WF_vars(\E x \in contexts : x.ue = u /\ RecvReconfiguration(x))
          /\ WF_vars(\E x \in contexts : x.ue = u /\ ReconfigurationCompleted(x))
          /\ WF_vars(\E x \in contexts : x.ue = u /\ PathSwitchAcknowledge(x))
          /\ WF_vars(\E x \in contexts : x.ue = u /\ UeContextRelease(x))
    /\ WF_vars(QueryLms)
    /\ WF_vars(ProcessLmQueryCommands)

FairSpec == Spec /\ Fairness

-----------------------------------------------------------------------------
(***************************************************************************)
(* Properties.                                                             *)
(***************************************************************************)

\* The repository lists all eNBs that serve UEs, and the LMs go by its list.
ServingListed ==
    /\ \A u \in Ues : conf.initCell[u] \in conf.listed
    /\ "onnx" \in conf.lms => {1, 2} \subseteq conf.listed
    /\ "torch" \notin conf.lms

(* A command hands over the UE the LM meant, or nobody: however old the    *)
(* information it rests on, and whatever happened to the UE since, its     *)
(* RNTI is the RNTI of no other UE in the cell it goes to - unless the     *)
(* repository does not list the serving eNB.  (Not with the Torch LM, see  *)
(* below.)                                                                 *)
RightUe ==
    ServingListed
    => \A cmd \in AllCollected \cup BagToSet(commands) : \A x \in Addressed(cmd) : x.ue = cmd.ue

(* With two cells, OranCmmHandover keeps the RIC from commanding a UE      *)
(* that is leaving its cell already: each attachment of a UE gets at most  *)
(* one command, and no eNB is asked to hand over a UE whose handover it    *)
(* has begun.  (It may still be asked too early, at the target.)           *)
NoSecondHandover ==
    conf.cmm = "Handover" /\ ServingListed /\ Cardinality(conf.listed) = 2
    => fatal \notin {"HANDOVER_PREPARATION", "HANDOVER_LEAVING"}

\* The commands that were sent in this step.
NewlySent == commands' (-) commands

(* OranCmmSingleCommandPerNode lets at most one command of a query through *)
(* for each UE, and it is the default LM's if that has issued one.         *)
DefaultLmPrecedes ==
    [][conf.cmm = "SingleCommandPerNode" /\ ServingListed /\ ProcessLmQueryCommands
       => /\ \A c, d \in BagToSet(NewlySent) : c.ue = d.ue => c = d
          /\ \A c \in BagToSet(NewlySent) : NewlySent[c] = 1
          /\ \A c \in BagToSet(NewlySent), d \in collected[conf.defaultLm] :
                c.ue = d.ue => c = d]_vars

\* No UE has a cell that is closer than its own, unless the program has ended.
Settled ==
    ~Running \/ \A u \in conf.ues, c \in conf.listed :
                   Distance[place[u]][serving[u].cell] <= Distance[place[u]][c]

\* Handovers are decided by distance alone, by an RIC that knows the cells.
ByDistance == conf.lms = {"distance"} /\ ServingListed

(* The loop does its job: once the UEs no longer move and handovers are no *)
(* longer refused, old reports and old commands notwithstanding, each UE   *)
(* ends up in the closest cell and stays there.  Not with OranCmmHandover, *)
(* see below.                                                              *)
EventuallyClosest == ByDistance /\ conf.cmm # "Handover" => <>[]Settled

(* oran-lm-lte-2-lte-distance-handover.cc:185, "see if that UE is          *)
(* currently being served by the closet cell. If there is a closer eNB     *)
(* [...] issue a handover command", and oran-cmm-handover.h:85, "Keep      *)
(* track of pending handover commands": a handover that was refused is     *)
(* not pending, so that the command is issued again.                       *)
RefusedIsRetried == ByDistance => <>[]Settled

(* oran-command-lte-2-lte-handover.h:43, "the Target E2 Node ID is the     *)
(* serving LTE eNB, and the command contains [...] the RNTI of the UE to   *)
(* be handoverd": no UE is handed over that the LM did not mean.           *)
TargetIsServing ==
    \A cmd \in AllCollected : \A x \in Addressed(cmd) : x.ue = cmd.ue

-----------------------------------------------------------------------------
(***************************************************************************)
(* The handover of each UE as the service that LteX2Handover implements.   *)
(***************************************************************************)

\* The phase of the context at the UE's place, or of the one it was sent from.
ServicePhase(u) ==
    LET At(x) == [cell |-> x.cell, rnti |-> x.rnti]
        here == CHOOSE x \in contexts : At(x) = serving[u]
        from == CHOOSE x \in contexts : x.state = "HANDOVER_LEAVING" /\ x.ue = u
                                        /\ [cell |-> x.target, rnti |-> x.newRnti] = serving[u]
    IN IF ~Running THEN [phase |-> "disconnected", cell |-> 0, target |-> 0] ELSE
       CASE here.state = "HANDOVER_PREPARATION" ->
              [phase |-> "preparing", cell |-> here.cell, target |-> here.target]
         [] here.state = "HANDOVER_LEAVING" ->
              [phase |-> "executing", cell |-> here.cell, target |-> here.target]
         [] here.state = "HANDOVER_JOINING" ->
              [phase |-> "executing", cell |-> from.cell, target |-> here.cell]
         [] OTHER -> [phase |-> "connected", cell |-> here.cell, target |-> 0]

Service(u) == INSTANCE LteHandoverService
    WITH phase <- ServicePhase(u).phase, cell <- ServicePhase(u).cell,
         target <- ServicePhase(u).target

(* What the loop assumes of a handover is what LteX2Handover delivers: the *)
(* RRC steps of the loop, commands that meet a handover under way          *)
(* included, do to each UE what a step of the handover service does, or    *)
(* nothing, and the UE is in the one cell whose context it is served by.   *)
(* (Only the service may lose a connection; the loop leaves that out.)     *)
LoopUsesService ==
    [][\A u \in Ues : [Service(u)!Next]_(Service(u)!vars)]_vars
=============================================================================
