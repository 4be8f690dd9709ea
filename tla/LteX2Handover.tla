--------------------------- MODULE LteX2Handover ---------------------------
(***************************************************************************)
(* The X2 handover of one UE with one EPS bearer, and what it leans on:    *)
(* the eNB RRC contexts (lte-enb-rrc.cc), the UE RRC (lte-ue-rrc.cc), the  *)
(* X2 links (epc-x2.cc), the S1 application of each eNB                    *)
(* (epc-enb-application.cc) and the MME, SGW and PGW (epc-mme-, epc-sgw-,  *)
(* epc-pgw-application.cc).                                                *)
(*                                                                         *)
(* An X2 link is a point-to-point link that carries X2-C and X2-U: reliable*)
(* and in order in each direction.  So are S11 and S5.  RRC messages go    *)
(* either by the ideal protocol (events of zero delay, which happen before *)
(* anything else does) or by the real one (over the air, lost when the UE  *)
(* is no longer there).  RrcConnectionRelease and the UE's request to      *)
(* remove its context are events of zero delay with both.  An assertion or *)
(* a fatal error ends the program: fatal holds its reason.                 *)
(***************************************************************************)
EXTENDS Integers, Sequences

CONSTANTS
    Cells,      \* the cell ids, one cell for each eNB
    MaxRnti,    \* bound: RNTIs that a cell hands out
    MaxAttach,  \* bound: times that the UE selects a cell
    Confs       \* the configurations to consider

ASSUME CellsAssumption == Cells \subseteq Nat \ {0}
ASSUME BoundsAssumption == MaxRnti \in Nat \ {0} /\ MaxAttach \in Nat \ {0}
\* ideal: LteHelper::UseIdealRrc.  fastLinks: the S11 and S5 links deliver
\* faster than a UE selects a cell (their delay is 0 by default).  packets: a
\* bound on the downlink packets.  first: the cell the UE finds first (nothing
\* tells one cell from another, so one choice stands for all).
ASSUME ConfsAssumption ==
    Confs \subseteq [ideal : BOOLEAN, fastLinks : BOOLEAN, packets : Nat, first : Cells]

VARIABLES
    conf,       \* the configuration
    ue,         \* LteUeRrc: m_state, and m_cellId, m_rnti
    ctx,        \* LteEnbRrc::m_ueMap of each cell: the UeManager of each RNTI
    lastRnti,   \* LteEnbRrc::m_lastAllocatedRnti of each cell
    x2uTeidInfo,\* LteEnbRrc::m_x2uTeidInfoMap of each cell
    app,        \* EpcEnbApplication of each cell
    mmeCell,    \* EpcMmeApplication: UeInfo::cellId
    sgw,        \* EpcSgwApplication: m_teidCount, m_enbByTeidMap
    pgw,        \* EpcPgwApplication: m_teidByBearerIdMap, m_tftClassifier
    x2,         \* messages on each X2 link
    s11, s5,    \* messages from the MME to the SGW, from the SGW to the PGW
    reply,      \* messages from the PGW, relayed by the SGW to the MME
    rrc,        \* RRC messages: of zero delay, and in the air down and up
    packet,     \* the downlink packet on its way to an eNB
    packets,    \* downlink packets so far
    attaches,   \* times the UE selected a cell
    mishaps,    \* history: the kinds of failure that have happened
    fatal       \* "none", or why the program ended

coreVars == <<mmeCell, sgw, pgw, s11, s5, reply>>
dataVars == <<packet, packets>>
ueVars == <<ue, attaches>>
vars == <<conf, ueVars, ctx, lastRnti, x2uTeidInfo, app, coreVars, x2, rrc, dataVars, mishaps, fatal>>

-----------------------------------------------------------------------------
(* Places, contexts and messages. *)

Rntis == 1 .. MaxRnti
Teids == 1 .. MaxAttach
Places == [cell : Cells, rnti : Rntis]
Links == {l \in Cells \X Cells : l[1] # l[2]}

Nowhere == [cell |-> 0, rnti |-> 0]
Idle == [state |-> "IDLE", at |-> Nowhere]

NoContext == [state |-> "NONE", source |-> Nowhere, target |-> Nowhere,
              pending |-> FALSE, teid |-> 0, buffer |-> 0, timers |-> {}]

NoPacket == [hop |-> 0, teid |-> 0]

HasUeManager(p) == p \in Places /\ ctx[p].state # "NONE"

\* A UeManager schedules its own removal as it is created.
InitialTimer == [INITIAL_RANDOM_ACCESS |-> "request", HANDOVER_JOINING |-> "joining"]

NewContext(state, source) ==
    [NoContext EXCEPT !.state = state, !.source = source, !.timers = {InitialTimer[state]}]

\* Fault: RNTIs are handed out beyond their range.
NoRntiLeft_Never(c) == FALSE

\* AddUe takes the next RNTI, of which a cell has MaxRnti here.  (A cell that
\* has no SRS index to give answers no preamble, which delays a random access,
\* and refuses handovers, which is possible at any time.)
NoRntiLeft(c) == lastRnti[c] = MaxRnti
NextPlace(c) == [cell |-> c, rnti |-> lastRnti[c] + 1]

Rrc(msg, p) == [msg |-> msg, at |-> p, target |-> Nowhere]
HandoverCommand(p, target) == [msg |-> "HandoverCommand", at |-> p, target |-> target]
X2(msg, old, new, teid) == [msg |-> msg, old |-> old, new |-> new, teid |-> teid]
Gtpc(msg, cell, teid) == [msg |-> msg, cell |-> cell, teid |-> teid]

\* The channel of an RRC message that goes down (or up).
Via(direction) == IF conf.ideal THEN "now" ELSE direction
Put(r, channel, m) == [r EXCEPT ![channel] = Append(@, m)]
Taken(channel) == [rrc EXCEPT ![channel] = Tail(@)]

SendX2(from, to, m) == [x2 EXCEPT ![<<from, to>>] = Append(@, m)]

Running == fatal = "none"
\* Every event of zero delay has happened.
Settled == Running /\ rrc["now"] = <<>>
CoreIdle == s11 = <<>> /\ s5 = <<>> /\ reply = <<>>
BackhaulIdle == CoreIdle /\ \A l \in Links : x2[l] = <<>>

-----------------------------------------------------------------------------
(* What the handlers share. *)

\* NS_FATAL_ERROR, NS_ASSERT: nothing happens any more.
Abort(reason) ==
    /\ fatal' = reason
    /\ UNCHANGED <<conf, ueVars, ctx, lastRnti, x2uTeidInfo, app, coreVars, x2, rrc, dataVars, mishaps>>

\* SwitchToState(CONNECTED_NORMALLY): a pending reconfiguration starts at once.
ConnectedNormally(x) ==
    [x EXCEPT !.state = IF x.pending THEN "CONNECTION_RECONFIGURATION" ELSE "CONNECTED_NORMALLY",
              !.pending = FALSE]
Reconfigured(r, p) ==
    IF ctx[p].pending THEN Put(r, Via("down"), Rrc("Reconfiguration", p)) ELSE r

\* Fault: the map from TEIDs is not cleaned up.
UeContextReleased_KeepsTeid(a, rnti) == [a EXCEPT !.rntiTeid[rnti] = 0]

\* EpcEnbApplication::DoUeContextRelease.
UeContextReleased(a, rnti) ==
    [a EXCEPT !.teidRnti = [t \in Teids |-> IF t = a.rntiTeid[rnti] THEN 0 ELSE @[t]],
              !.rntiTeid[rnti] = 0]

\* LteEnbRrc::RemoveUe and UeManager::DoDispose.
RemoveUe(p) ==
    /\ ctx' = [ctx EXCEPT ![p] = NoContext]
    /\ x2uTeidInfo' = [x2uTeidInfo EXCEPT ![p.cell] =
           [t \in Teids |-> IF t = ctx[p].teid THEN 0 ELSE @[t]]]
    /\ app' = [app EXCEPT ![p.cell] = UeContextReleased(@, p.rnti)]

\* Fault: the context goes and the MME is not told of its bearers.
ReleaseBearers_Never(p) == UNCHANGED s11

\* UeManager::RecvIdealUeContextRemoveRequest: each bearer is released
\* towards the MME, which sends a Delete Bearer Command.
ReleaseBearers(p) ==
    s11' = IF ctx[p].teid # 0 THEN Append(s11, Gtpc("DeleteBearerCommand", 0, 0)) ELSE s11

\* LteEnbRrc::DoRecvIdealUeContextRemoveRequest.
ContextRemoved(p) ==
    /\ x2' = IF ctx[p].state = "HANDOVER_JOINING"
             THEN SendX2(p.cell, ctx[p].source.cell, X2("PreparationFailure", ctx[p].source.rnti, 0, 0))
             ELSE x2
    /\ ReleaseBearers(p)
    /\ RemoveUe(p)

\* Fault: the context goes and the UE is not told.
RrcConnectionReleased_Silently(p) == ReleaseBearers(p) /\ RemoveUe(p) /\ UNCHANGED rrc

\* UeManager::SendRrcConnectionRelease.
RrcConnectionReleased(p) ==
    /\ rrc' = Put(rrc, "now", Rrc("Release", p))
    /\ ReleaseBearers(p)
    /\ RemoveUe(p)

\* Fault: the UE leaves and the eNB is not told.
LeaveConnectedMode_Silently(r) == ue' = Idle /\ rrc' = r

\* LteUeRrc leaves connected mode and has its context removed where it is.
LeaveConnectedMode(r) ==
    /\ ue' = Idle
    /\ rrc' = Put(r, "now", Rrc("ContextRemove", ue.at))

-----------------------------------------------------------------------------
Init ==
    /\ conf \in Confs
    /\ ue = Idle
    /\ ctx = [p \in Places |-> NoContext]
    /\ lastRnti = [c \in Cells |-> 0]
    /\ x2uTeidInfo = [c \in Cells |-> [t \in Teids |-> 0]]
    /\ app = [c \in Cells |-> [imsiRnti |-> 0, teidRnti |-> [t \in Teids |-> 0],
                               rntiTeid |-> [r \in Rntis |-> 0]]]
    /\ mmeCell = 0
    /\ sgw = [teidCount |-> 0, enb |-> [t \in Teids |-> 0]]
    /\ pgw = [bearer |-> 0, tfts |-> {}]
    /\ x2 = [l \in Links |-> <<>>]
    /\ s11 = <<>> /\ s5 = <<>> /\ reply = <<>>
    /\ rrc = [channel \in {"now", "down", "up"} |-> <<>>]
    /\ packet = NoPacket /\ packets = 0 /\ attaches = 0
    /\ mishaps = {}
    /\ fatal = "none"

-----------------------------------------------------------------------------
(* The UE on its own. *)

\* Cell selection: EvaluateCellForSelection connects to any suitable cell.
SelectCell(c) ==
    /\ Settled /\ ue.state = "IDLE"
    /\ attaches < MaxAttach /\ attaches' = attaches + 1
    /\ attaches = 0 => c = conf.first
    /\ conf.fastLinks => BackhaulIdle
    /\ ue' = [state |-> "IDLE_RANDOM_ACCESS", at |-> [cell |-> c, rnti |-> 0]]
    /\ UNCHANGED <<conf, ctx, lastRnti, x2uTeidInfo, app, coreVars, x2, rrc, dataVars, mishaps, fatal>>

\* A preamble no UE was given: the eNB creates a context and answers with its
\* RNTI; the UE sends its connection request.
RandomAccess ==
    /\ Settled /\ ue.state = "IDLE_RANDOM_ACCESS" /\ ~NoRntiLeft(ue.at.cell)
    /\ LET p == NextPlace(ue.at.cell) IN
       /\ ctx' = [ctx EXCEPT ![p] = NewContext("INITIAL_RANDOM_ACCESS", Nowhere)]
       /\ lastRnti' = [lastRnti EXCEPT ![p.cell] = p.rnti]
       /\ ue' = [state |-> "IDLE_CONNECTING", at |-> p]
       /\ rrc' = Put(rrc, Via("up"), Rrc("ConnectionRequest", p))
    /\ UNCHANGED <<conf, attaches, x2uTeidInfo, app, coreVars, x2, dataVars, mishaps, fatal>>

\* Random access at the target cell with the preamble that the handover
\* command gave.  When the context is gone the preamble is nobody's and the
\* eNB creates a new context for it, whose RNTI the UE takes.
HandoverRandomAccess ==
    /\ Settled /\ ue.state = "CONNECTED_HANDOVER"
    /\ HasUeManager(ue.at) \/ ~NoRntiLeft(ue.at.cell)
    /\ LET p == IF HasUeManager(ue.at) THEN ue.at ELSE NextPlace(ue.at.cell) IN
       /\ IF HasUeManager(ue.at)
          THEN UNCHANGED <<ctx, lastRnti>>
          ELSE /\ ctx' = [ctx EXCEPT ![p] = NewContext("INITIAL_RANDOM_ACCESS", Nowhere)]
               /\ lastRnti' = [lastRnti EXCEPT ![p.cell] = p.rnti]
       /\ ue' = [state |-> "CONNECTED_NORMALLY", at |-> p]
       /\ rrc' = Put(rrc, Via("up"), Rrc("ReconfigurationCompleted", p))
    /\ UNCHANGED <<conf, attaches, x2uTeidInfo, app, coreVars, x2, dataVars, mishaps, fatal>>

\* DoNotifyRandomAccessFailed during a handover.
HandoverRandomAccessFailed ==
    /\ Settled /\ ue.state = "CONNECTED_HANDOVER"
    /\ LeaveConnectedMode(rrc)
    /\ mishaps' = mishaps \cup {"rach"}
    /\ UNCHANGED <<conf, attaches, ctx, lastRnti, x2uTeidInfo, app, coreVars, x2, dataVars, fatal>>

\* RadioLinkFailureDetected: T310 runs only while the UE is CONNECTED_NORMALLY.
RadioLinkFailure ==
    /\ Settled /\ ue.state = "CONNECTED_NORMALLY"
    /\ LeaveConnectedMode(rrc)
    /\ mishaps' = mishaps \cup {"rlf"}
    /\ UNCHANGED <<conf, attaches, ctx, lastRnti, x2uTeidInfo, app, coreVars, x2, dataVars, fatal>>

\* T300 expires: the UE returns to cell selection and tells no one.  The
\* eNB's connection request timer (15 ms) is shorter than T300 (100 ms).
ConnectionTimeout ==
    /\ Settled /\ ue.state = "IDLE_CONNECTING"
    /\ "request" \notin ctx[ue.at].timers
    /\ ue' = Idle
    /\ mishaps' = mishaps \cup {"t300"}
    /\ UNCHANGED <<conf, attaches, ctx, lastRnti, x2uTeidInfo, app, coreVars, x2, rrc, dataVars, fatal>>

-----------------------------------------------------------------------------
(* RRC messages to the UE. *)

\* m is next on the channel; the air brings it only where the UE still is.
NextRrc(channel, msg) ==
    /\ Running /\ rrc[channel] # <<>>
    /\ channel = "now" \/ rrc["now"] = <<>>
    /\ Head(rrc[channel]).msg = msg
ReachesUe(channel) == channel = "now" \/ Head(rrc[channel]).at = ue.at

RecvRrcConnectionSetup(channel) ==
    /\ NextRrc(channel, "ConnectionSetup") /\ ReachesUe(channel)
    /\ IF ue.state = "IDLE_CONNECTING"
       THEN /\ ue' = [ue EXCEPT !.state = "CONNECTED_NORMALLY"]
            /\ rrc' = Put(Taken(channel), Via("up"), Rrc("ConnectionSetupCompleted", ue.at))
            /\ UNCHANGED <<conf, attaches, ctx, lastRnti, x2uTeidInfo, app, coreVars, x2, dataVars, mishaps, fatal>>
       ELSE Abort("UeSetupState")

\* The UE camps again on the cell, and its NAS asks it to connect again.
RecvRrcConnectionReject(channel) ==
    /\ NextRrc(channel, "ConnectionReject") /\ ReachesUe(channel)
    /\ ue' = [state |-> "IDLE_RANDOM_ACCESS", at |-> [ue.at EXCEPT !.rnti = 0]]
    /\ rrc' = Taken(channel)
    /\ UNCHANGED <<conf, attaches, ctx, lastRnti, x2uTeidInfo, app, coreVars, x2, dataVars, mishaps, fatal>>

RecvHandoverCommand(channel) ==
    /\ NextRrc(channel, "HandoverCommand") /\ ReachesUe(channel)
    /\ IF ue.state = "CONNECTED_NORMALLY"
       THEN /\ ue' = [state |-> "CONNECTED_HANDOVER", at |-> Head(rrc[channel]).target]
            /\ rrc' = Taken(channel)
            /\ UNCHANGED <<conf, attaches, ctx, lastRnti, x2uTeidInfo, app, coreVars, x2, dataVars, mishaps, fatal>>
       ELSE Abort("UeReconfigurationState")

RecvReconfiguration(channel) ==
    /\ NextRrc(channel, "Reconfiguration") /\ ReachesUe(channel)
    /\ IF ue.state = "CONNECTED_NORMALLY"
       THEN /\ rrc' = Put(Taken(channel), Via("up"), Rrc("ReconfigurationCompleted", ue.at))
            /\ UNCHANGED <<conf, ueVars, ctx, lastRnti, x2uTeidInfo, app, coreVars, x2, dataVars, mishaps, fatal>>
       ELSE Abort("UeReconfigurationState")

\* Ignored by a UE that has left connected mode.
RecvRrcConnectionRelease ==
    /\ NextRrc("now", "Release")
    /\ IF ue.state \in {"CONNECTED_NORMALLY", "CONNECTED_HANDOVER"}
       THEN LeaveConnectedMode(Taken("now"))
       ELSE rrc' = Taken("now") /\ UNCHANGED ue
    /\ UNCHANGED <<conf, attaches, ctx, lastRnti, x2uTeidInfo, app, coreVars, x2, dataVars, mishaps, fatal>>

\* The air loses what was meant for a place the UE has left: on the way down
\* always, on the way up when the UE's buffers were reset before it was sent.
\* What the eNB had not sent is lost with the context.
LoseInTheAir(channel) ==
    /\ Settled /\ channel # "now" /\ rrc[channel] # <<>>
    /\ \/ Head(rrc[channel]).at # ue.at
       \/ channel = "down" /\ ~HasUeManager(Head(rrc[channel]).at)
    /\ rrc' = Taken(channel)
    /\ UNCHANGED <<conf, ueVars, ctx, lastRnti, x2uTeidInfo, app, coreVars, x2, dataVars, mishaps, fatal>>

-----------------------------------------------------------------------------
(* RRC messages to the eNB. *)

\* GetUeManager asserts that it knows the RNTI; over the air a PDU for an
\* RNTI that was removed gets no further than the MAC.
UnknownRnti(channel) ==
    IF channel = "now"
    THEN Abort("RrcUnknownRnti")
    ELSE /\ rrc' = Taken(channel)
         /\ UNCHANGED <<conf, ueVars, ctx, lastRnti, x2uTeidInfo, app, coreVars, x2, dataVars, mishaps, fatal>>

\* m_admitRrcConnectionRequest decides.
RecvRrcConnectionRequest(channel, admit) ==
    /\ NextRrc(channel, "ConnectionRequest")
    /\ LET p == Head(rrc[channel]).at IN
       IF ~HasUeManager(p) THEN UnknownRnti(channel)
       ELSE IF ctx[p].state # "INITIAL_RANDOM_ACCESS" THEN Abort("RequestState")
       ELSE /\ ctx' = [ctx EXCEPT ![p].state = IF admit THEN "CONNECTION_SETUP" ELSE "CONNECTION_REJECTED",
                                  ![p].timers = IF admit THEN {"setup"} ELSE {"rejected"}]
            /\ rrc' = Put(Taken(channel), Via("down"),
                          Rrc(IF admit THEN "ConnectionSetup" ELSE "ConnectionReject", p))
            /\ UNCHANGED <<conf, ueVars, lastRnti, x2uTeidInfo, app, coreVars, x2, dataVars, mishaps, fatal>>

\* The eNB tells the MME, which creates a session.
RecvRrcConnectionSetupCompleted(channel) ==
    /\ NextRrc(channel, "ConnectionSetupCompleted")
    /\ LET p == Head(rrc[channel]).at IN
       IF ~HasUeManager(p) THEN UnknownRnti(channel)
       ELSE IF ctx[p].state # "CONNECTION_SETUP" THEN Abort("SetupCompletedState")
       ELSE /\ ctx' = [ctx EXCEPT ![p].state = "ATTACH_REQUEST", ![p].timers = {}]
            /\ app' = [app EXCEPT ![p.cell].imsiRnti = p.rnti]
            /\ mmeCell' = p.cell
            /\ s11' = Append(s11, Gtpc("CreateSessionRequest", p.cell, 0))
            /\ rrc' = Taken(channel)
            /\ UNCHANGED <<conf, ueVars, lastRnti, x2uTeidInfo, sgw, pgw, s5, reply, x2, dataVars, mishaps, fatal>>

\* Fault: the joining timer is not cancelled.
PathSwitchRequest_TimerRuns(p, channel) ==
    /\ ctx' = [ctx EXCEPT ![p].state = "HANDOVER_PATH_SWITCH", ![p].buffer = 0]
    /\ app' = [app EXCEPT ![p.cell].imsiRnti = p.rnti,
                          ![p.cell].rntiTeid[p.rnti] = ctx[p].teid,
                          ![p.cell].teidRnti[ctx[p].teid] = p.rnti]
    /\ mmeCell' = p.cell
    /\ s11' = Append(s11, Gtpc("ModifyBearerRequest", p.cell, ctx[p].teid))
    /\ rrc' = Taken(channel)
    /\ UNCHANGED <<conf, ueVars, lastRnti, x2uTeidInfo, sgw, pgw, s5, reply, x2, dataVars, mishaps, fatal>>

\* At the target this confirms the handover: the buffered packets are sent
\* and the path switch is requested from the MME, which modifies the bearer.
PathSwitchRequest(p, channel) ==
    /\ ctx' = [ctx EXCEPT ![p].state = "HANDOVER_PATH_SWITCH", ![p].timers = {}, ![p].buffer = 0]
    /\ app' = [app EXCEPT ![p.cell].imsiRnti = p.rnti,
                          ![p.cell].rntiTeid[p.rnti] = ctx[p].teid,
                          ![p.cell].teidRnti[ctx[p].teid] = p.rnti]
    /\ mmeCell' = p.cell
    /\ s11' = Append(s11, Gtpc("ModifyBearerRequest", p.cell, ctx[p].teid))
    /\ rrc' = Taken(channel)
    /\ UNCHANGED <<conf, ueVars, lastRnti, x2uTeidInfo, sgw, pgw, s5, reply, x2, dataVars, mishaps, fatal>>

RecvReconfigurationCompleted(channel) ==
    /\ NextRrc(channel, "ReconfigurationCompleted")
    /\ LET p == Head(rrc[channel]).at
           state == ctx[p].state
       IN IF ~HasUeManager(p) THEN UnknownRnti(channel)
          ELSE IF state = "HANDOVER_JOINING" THEN PathSwitchRequest(p, channel)
          ELSE IF state \in {"CONNECTION_RECONFIGURATION", "CONNECTED_NORMALLY", "HANDOVER_LEAVING"}
          THEN /\ ctx' = IF state = "CONNECTION_RECONFIGURATION"
                         THEN [ctx EXCEPT ![p] = ConnectedNormally(@)] ELSE ctx
               /\ rrc' = IF state = "CONNECTION_RECONFIGURATION"
                         THEN Reconfigured(Taken(channel), p) ELSE Taken(channel)
               /\ UNCHANGED <<conf, ueVars, lastRnti, x2uTeidInfo, app, coreVars, x2, dataVars, mishaps, fatal>>
          ELSE Abort("CompletedState")

\* DoRecvIdealUeContextRemoveRequest: a stale RNTI is ignored.
RecvContextRemove ==
    /\ NextRrc("now", "ContextRemove")
    /\ rrc' = Taken("now")
    /\ LET p == Head(rrc["now"]).at IN
       IF HasUeManager(p) THEN ContextRemoved(p)
                          ELSE UNCHANGED <<x2, s11, ctx, x2uTeidInfo, app>>
    /\ UNCHANGED <<conf, ueVars, lastRnti, mmeCell, sgw, pgw, s5, reply, dataVars, mishaps, fatal>>

-----------------------------------------------------------------------------
(* The handover, over X2. *)

\* PrepareHandover, of a UE that DoTriggerHandover finds CONNECTED_NORMALLY.
PrepareHandover(p, c) ==
    /\ Settled /\ c # p.cell /\ ctx[p].state = "CONNECTED_NORMALLY"
    /\ ctx' = [ctx EXCEPT ![p].state = "HANDOVER_PREPARATION",
                          ![p].target = [cell |-> c, rnti |-> 0]]
    /\ x2' = SendX2(p.cell, c, X2("HandoverRequest", p.rnti, 0, ctx[p].teid))
    /\ UNCHANGED <<conf, ueVars, lastRnti, x2uTeidInfo, app, coreVars, rrc, dataVars, mishaps, fatal>>

\* m is next on the link from one cell to another.
NextX2(s, d, msg) == Settled /\ x2[<<s, d>>] # <<>> /\ Head(x2[<<s, d>>]).msg = msg
X2Taken(s, d) == [x2 EXCEPT ![<<s, d>>] = Tail(@)]
X2Answered(s, d, m) == [X2Taken(s, d) EXCEPT ![<<d, s>>] = Append(@, m)]

\* DoRecvHandoverRequest: a context is created and its bearer set up, with an
\* entry for the data that the source will forward over X2-U.
AdmitHandoverRequest(s, d) ==
    /\ NextX2(s, d, "HandoverRequest") /\ ~NoRntiLeft(d)
    /\ LET m == Head(x2[<<s, d>>])
           p == NextPlace(d)
       IN IF m.teid # 0 /\ x2uTeidInfo[d][m.teid] # 0 THEN Abort("X2uTeidOverwritten")
          ELSE /\ ctx' = [ctx EXCEPT ![p] =
                     [NewContext("HANDOVER_JOINING", [cell |-> s, rnti |-> m.old])
                         EXCEPT !.teid = m.teid, !.pending = (m.teid # 0)]]
               /\ lastRnti' = [lastRnti EXCEPT ![d] = p.rnti]
               /\ x2uTeidInfo' = [x2uTeidInfo EXCEPT ![d] =
                     [t \in Teids |-> IF t = m.teid THEN p.rnti ELSE @[t]]]
               /\ x2' = X2Answered(s, d, X2("HandoverRequestAck", m.old, p.rnti, 0))
               /\ UNCHANGED <<conf, ueVars, app, coreVars, rrc, dataVars, mishaps, fatal>>

\* Fault: a target without a preamble does not answer.
RefuseHandoverRequest_Silently(s, d) ==
    /\ NextX2(s, d, "HandoverRequest")
    /\ x2' = X2Taken(s, d)
    /\ UNCHANGED <<conf, ueVars, ctx, lastRnti, x2uTeidInfo, app, coreVars, rrc, dataVars, mishaps, fatal>>

\* It is refused when handovers are not admitted or no SRS index is left, and
\* when no preamble is left, which uses up an RNTI.
RefuseHandoverRequest(s, d) ==
    /\ NextX2(s, d, "HandoverRequest")
    /\ \/ UNCHANGED lastRnti
       \/ ~NoRntiLeft(d) /\ lastRnti' = [lastRnti EXCEPT ![d] = @ + 1]
    /\ x2' = X2Answered(s, d, X2("PreparationFailure", Head(x2[<<s, d>>]).old, 0, 0))
    /\ UNCHANGED <<conf, ueVars, ctx, x2uTeidInfo, app, coreVars, rrc, dataVars, mishaps, fatal>>

\* RecvHandoverRequestAck: the handover command goes to the UE.
RecvHandoverRequestAck(s, d) ==
    /\ NextX2(s, d, "HandoverRequestAck")
    /\ LET m == Head(x2[<<s, d>>])
           p == [cell |-> d, rnti |-> m.old]
           target == [cell |-> s, rnti |-> m.new]
       IN IF ~HasUeManager(p) THEN Abort("AckUnknownRnti")
          ELSE /\ ctx' = [ctx EXCEPT ![p].state = "HANDOVER_LEAVING", ![p].target = target,
                                     ![p].timers = @ \cup {"leaving"}]
               /\ rrc' = Put(rrc, Via("down"), HandoverCommand(p, target))
               /\ x2' = X2Taken(s, d)
               /\ UNCHANGED <<conf, ueVars, lastRnti, x2uTeidInfo, app, coreVars, dataVars, mishaps, fatal>>

\* Fault: a handover that failed after its command is taken for a refusal.
RecvHandoverPreparationFailure_Resumes(s, d) ==
    /\ NextX2(s, d, "PreparationFailure")
    /\ LET p == [cell |-> d, rnti |-> Head(x2[<<s, d>>]).old] IN
       IF ~HasUeManager(p)
       THEN x2' = X2Taken(s, d)
            /\ UNCHANGED <<conf, ueVars, ctx, lastRnti, x2uTeidInfo, app, coreVars, rrc, dataVars, mishaps, fatal>>
       ELSE /\ x2' = X2Taken(s, d)
            /\ ctx' = [ctx EXCEPT ![p] = ConnectedNormally(@)]
            /\ rrc' = Reconfigured(rrc, p)
            /\ UNCHANGED <<conf, ueVars, lastRnti, x2uTeidInfo, app, coreVars, dataVars, mishaps, fatal>>

\* RecvHandoverPreparationFailure: a refusal, or a handover that failed at
\* the target after it was admitted; a stale RNTI is ignored.
RecvHandoverPreparationFailure(s, d) ==
    /\ NextX2(s, d, "PreparationFailure")
    /\ LET p == [cell |-> d, rnti |-> Head(x2[<<s, d>>]).old]
           state == IF HasUeManager(p) THEN ctx[p].state ELSE "NONE"
       IN IF state = "NONE"
          THEN x2' = X2Taken(s, d)
               /\ UNCHANGED <<conf, ueVars, ctx, lastRnti, x2uTeidInfo, app, coreVars, rrc, dataVars, mishaps, fatal>>
          ELSE IF state = "HANDOVER_PREPARATION" /\ ctx[p].target.cell = s
          THEN /\ x2' = X2Taken(s, d)
               /\ ctx' = [ctx EXCEPT ![p] = ConnectedNormally(@)]
               /\ rrc' = Reconfigured(rrc, p)
               /\ UNCHANGED <<conf, ueVars, lastRnti, x2uTeidInfo, app, coreVars, dataVars, mishaps, fatal>>
          ELSE IF state = "HANDOVER_LEAVING" /\ ctx[p].target.cell = s
          THEN /\ x2' = X2Taken(s, d)
               /\ RrcConnectionReleased(p)
               /\ UNCHANGED <<conf, ueVars, lastRnti, mmeCell, sgw, pgw, s5, reply, dataVars, mishaps, fatal>>
          ELSE Abort("PreparationFailureState")

RecvUeContextRelease(s, d) ==
    /\ NextX2(s, d, "UeContextRelease")
    /\ LET p == [cell |-> d, rnti |-> Head(x2[<<s, d>>]).old] IN
       IF HasUeManager(p) /\ ctx[p].state # "HANDOVER_LEAVING" THEN Abort("ContextReleaseState")
       ELSE /\ x2' = X2Taken(s, d)
            /\ IF HasUeManager(p) THEN RemoveUe(p) ELSE UNCHANGED <<ctx, x2uTeidInfo, app>>
            /\ UNCHANGED <<conf, ueVars, lastRnti, coreVars, rrc, dataVars, mishaps, fatal>>

\* DoRecvHandoverCancel stops the joining timer and releases the bearers; it
\* does not remove the context.
RecvHandoverCancel(s, d) ==
    /\ NextX2(s, d, "HandoverCancel")
    /\ LET p == [cell |-> d, rnti |-> Head(x2[<<s, d>>]).new] IN
       IF HasUeManager(p) /\ ctx[p].state # "HANDOVER_JOINING" THEN Abort("CancelState")
       ELSE /\ x2' = X2Taken(s, d)
            /\ IF HasUeManager(p)
               THEN ctx' = [ctx EXCEPT ![p].timers = @ \ {"joining"}] /\ ReleaseBearers(p)
               ELSE UNCHANGED <<ctx, s11>>
            /\ UNCHANGED <<conf, ueVars, lastRnti, x2uTeidInfo, app, mmeCell, sgw, pgw, s5, reply, rrc,
                           dataVars, mishaps, fatal>>

-----------------------------------------------------------------------------
(* The timers of the eNB. *)

TimerState == [request |-> "INITIAL_RANDOM_ACCESS", setup |-> "CONNECTION_SETUP",
               rejected |-> "CONNECTION_REJECTED", joining |-> "HANDOVER_JOINING",
               leaving |-> "HANDOVER_LEAVING"]

\* ConnectionRequestTimeout, ConnectionSetupTimeout, ConnectionRejectedTimeout.
ConnectionTimersExpire(p, timer) ==
    /\ Settled /\ timer \in {"request", "setup", "rejected"} \cap ctx[p].timers
    /\ IF ctx[p].state # TimerState[timer] THEN Abort("TimerState")
       ELSE /\ RemoveUe(p)
            /\ mishaps' = mishaps \cup {timer}
            /\ UNCHANGED <<conf, ueVars, lastRnti, coreVars, x2, rrc, dataVars, fatal>>

\* HandoverJoiningTimeout: the source is told, the context goes.
HandoverJoiningTimeout(p) ==
    /\ Settled /\ "joining" \in ctx[p].timers
    /\ IF ctx[p].state # TimerState["joining"] THEN Abort("TimerState")
       ELSE /\ x2' = SendX2(p.cell, ctx[p].source.cell,
                            X2("PreparationFailure", ctx[p].source.rnti, 0, 0))
            /\ RemoveUe(p)
            /\ mishaps' = mishaps \cup {"joining"}
            /\ UNCHANGED <<conf, ueVars, lastRnti, coreVars, rrc, dataVars, fatal>>

\* HandoverLeavingTimeout: the target is told to cancel, the UE is released.
HandoverLeavingTimeout(p) ==
    /\ Settled /\ "leaving" \in ctx[p].timers
    /\ IF ctx[p].state # TimerState["leaving"] THEN Abort("TimerState")
       ELSE /\ x2' = SendX2(p.cell, ctx[p].target.cell,
                            X2("HandoverCancel", p.rnti, ctx[p].target.rnti, 0))
            /\ RrcConnectionReleased(p)
            /\ mishaps' = mishaps \cup {"leaving"}
            /\ UNCHANGED <<conf, ueVars, lastRnti, mmeCell, sgw, pgw, s5, reply, dataVars, fatal>>

-----------------------------------------------------------------------------
(* The core network. *)

\* EpcSgwApplication: messages from the MME.  The bound on attachments bounds
\* m_teidCount too.
SgwRecvFromMme ==
    /\ Settled /\ s11 # <<>>
    /\ Head(s11).msg = "CreateSessionRequest" => sgw.teidCount < MaxAttach
    /\ LET m == Head(s11)
           teid == sgw.teidCount + 1
       IN /\ sgw' = CASE m.msg = "CreateSessionRequest" ->
                             [teidCount |-> teid, enb |-> [sgw.enb EXCEPT ![teid] = m.cell]]
                      [] m.msg = "ModifyBearerRequest" ->
                             [sgw EXCEPT !.enb[m.teid] = m.cell]
                      [] OTHER -> sgw
          /\ s5' = Append(s5, IF m.msg = "CreateSessionRequest"
                              THEN [m EXCEPT !.teid = teid] ELSE m)
    /\ s11' = Tail(s11)
    /\ UNCHANGED <<conf, ueVars, ctx, lastRnti, x2uTeidInfo, app, mmeCell, pgw, reply, x2, rrc,
                   dataVars, mishaps, fatal>>

\* EpcPgwApplication: messages from the SGW.  A Delete Bearer Response removes
\* whatever bearer has the id now, and its TFT.  When the bearer is not there
\* the code reads past the end of a map, which with libstdc++ finds TEID 0.
PgwRecvFromSgw ==
    /\ Settled /\ s5 # <<>>
    /\ LET m == Head(s5) IN
       /\ pgw' = CASE m.msg = "CreateSessionRequest" ->
                          [bearer |-> m.teid, tfts |-> pgw.tfts \cup {m.teid}]
                   [] m.msg = "DeleteBearerResponse" ->
                          [bearer |-> 0, tfts |-> pgw.tfts \ {pgw.bearer}]
                   [] OTHER -> pgw
       /\ reply' = CASE m.msg = "CreateSessionRequest" ->
                            Append(reply, Gtpc("CreateSessionResponse", 0, m.teid))
                     [] m.msg = "ModifyBearerRequest" ->
                            Append(reply, Gtpc("ModifyBearerResponse", 0, 0))
                     [] m.msg = "DeleteBearerCommand" ->
                            Append(reply, Gtpc("DeleteBearerRequest", 0, 0))
                     [] OTHER -> reply
    /\ s5' = Tail(s5)
    /\ UNCHANGED <<conf, ueVars, ctx, lastRnti, x2uTeidInfo, app, mmeCell, sgw, s11, x2, rrc,
                   dataVars, mishaps, fatal>>

\* The MME has the eNB of the UE's cell set up the bearer: SetupDataRadioBearer
\* and InitialContextSetupRequest, for the RNTI the eNB has for the IMSI.
MmeRecvCreateSessionResponse ==
    /\ Settled /\ reply # <<>> /\ Head(reply).msg = "CreateSessionResponse"
    /\ LET teid == Head(reply).teid
           p == [cell |-> mmeCell, rnti |-> app[mmeCell].imsiRnti]
       IN IF ~HasUeManager(p) THEN Abort("SetupUnknownRnti")
          ELSE IF ctx[p].teid # 0 THEN Abort("SetupBearerId")
          ELSE IF ctx[p].state # "ATTACH_REQUEST" THEN Abort("SetupState")
          ELSE /\ ctx' = [ctx EXCEPT ![p].state = "CONNECTION_RECONFIGURATION", ![p].teid = teid]
               /\ rrc' = Put(rrc, Via("down"), Rrc("Reconfiguration", p))
               /\ app' = [app EXCEPT ![p.cell].rntiTeid[p.rnti] = teid,
                                     ![p.cell].teidRnti[teid] = p.rnti]
               /\ reply' = Tail(reply)
               /\ UNCHANGED <<conf, ueVars, lastRnti, x2uTeidInfo, mmeCell, sgw, pgw, s11, s5, x2,
                              dataVars, mishaps, fatal>>

\* The path switch is acknowledged: SendUeContextRelease at the target.
MmeRecvModifyBearerResponse ==
    /\ Settled /\ reply # <<>> /\ Head(reply).msg = "ModifyBearerResponse"
    /\ LET p == [cell |-> mmeCell, rnti |-> app[mmeCell].imsiRnti] IN
       IF ~HasUeManager(p) THEN Abort("PathSwitchAckUnknownRnti")
       ELSE IF ctx[p].state # "HANDOVER_PATH_SWITCH" THEN Abort("PathSwitchAckState")
       ELSE /\ x2' = SendX2(p.cell, ctx[p].source.cell,
                            X2("UeContextRelease", ctx[p].source.rnti, p.rnti, 0))
            /\ ctx' = [ctx EXCEPT ![p] = ConnectedNormally(@)]
            /\ rrc' = Reconfigured(rrc, p)
            /\ reply' = Tail(reply)
            /\ UNCHANGED <<conf, ueVars, lastRnti, x2uTeidInfo, app, mmeCell, sgw, pgw, s11, s5,
                           dataVars, mishaps, fatal>>

\* The MME keeps the bearer (its cell is never 0) and confirms the deletion.
MmeRecvDeleteBearerRequest ==
    /\ Settled /\ reply # <<>> /\ Head(reply).msg = "DeleteBearerRequest"
    /\ s11' = Append(s11, Gtpc("DeleteBearerResponse", 0, 0))
    /\ reply' = Tail(reply)
    /\ UNCHANGED <<conf, ueVars, ctx, lastRnti, x2uTeidInfo, app, mmeCell, sgw, pgw, s5, x2, rrc,
                   dataVars, mishaps, fatal>>

-----------------------------------------------------------------------------
(* A downlink packet. *)

\* RecvFromTunDevice at the PGW (the TFT of the highest TEID that matches),
\* and the SGW's RecvFromS5uSocket, which picks the eNB.
SendDownlink ==
    /\ Settled /\ packets < conf.packets /\ packet.hop = 0 /\ pgw.tfts # {}
    /\ LET teid == CHOOSE t \in pgw.tfts : \A u \in pgw.tfts : u <= t IN
       packet' = [hop |-> sgw.enb[teid], teid |-> teid]
    /\ packets' = packets + 1
    /\ UNCHANGED <<conf, ueVars, ctx, lastRnti, x2uTeidInfo, app, coreVars, x2, rrc, mishaps, fatal>>

\* UeManager::SendData for the context p, of a packet that arrived by S1-U or
\* by X2-U; x and k are x2 and packet without it.
SendData(p, x, k) ==
    IF ~HasUeManager(p) THEN Abort("DataUnknownRnti")
    ELSE IF ctx[p].state \in {"ATTACH_REQUEST", "CONNECTION_REJECTED"} THEN Abort("DataState")
    ELSE /\ ctx' = IF ctx[p].state = "HANDOVER_JOINING"
                   THEN [ctx EXCEPT ![p].buffer = @ + 1] ELSE ctx
         /\ x2' = IF ctx[p].state = "HANDOVER_LEAVING"
                  THEN [x EXCEPT ![<<p.cell, ctx[p].target.cell>>] =
                            Append(@, X2("UeData", 0, 0, ctx[p].teid))]
                  ELSE x
         /\ packet' = k
         /\ UNCHANGED <<conf, ueVars, lastRnti, x2uTeidInfo, app, coreVars, rrc, packets, mishaps, fatal>>

\* EpcEnbApplication::RecvFromS1uSocket: an unknown TEID is dropped.
RecvFromS1u ==
    /\ Settled /\ packet.hop # 0
    /\ LET rnti == app[packet.hop].teidRnti[packet.teid] IN
       IF rnti = 0
       THEN /\ packet' = NoPacket
            /\ UNCHANGED <<conf, ueVars, ctx, lastRnti, x2uTeidInfo, app, coreVars, x2, rrc, packets, mishaps, fatal>>
       ELSE SendData([cell |-> packet.hop, rnti |-> rnti], x2, NoPacket)

\* DoRecvUeData: data forwarded by the source; an unknown TEID is fatal.
RecvUeData(s, d) ==
    /\ NextX2(s, d, "UeData")
    /\ LET rnti == x2uTeidInfo[d][Head(x2[<<s, d>>]).teid] IN
       IF rnti = 0 THEN Abort("X2uUnknownTeid")
       ELSE SendData([cell |-> d, rnti |-> rnti], X2Taken(s, d), packet)

-----------------------------------------------------------------------------
UeStep ==
    \/ \E c \in Cells : SelectCell(c)
    \/ RandomAccess
    \/ HandoverRandomAccess
    \/ HandoverRandomAccessFailed
    \/ RadioLinkFailure
    \/ ConnectionTimeout

RrcStep ==
    \/ \E channel \in {"now", "down"} :
          \/ RecvRrcConnectionSetup(channel)
          \/ RecvRrcConnectionReject(channel)
          \/ RecvHandoverCommand(channel)
          \/ RecvReconfiguration(channel)
    \/ \E channel \in {"now", "up"} :
          \/ \E admit \in BOOLEAN : RecvRrcConnectionRequest(channel, admit)
          \/ RecvRrcConnectionSetupCompleted(channel)
          \/ RecvReconfigurationCompleted(channel)
    \/ RecvRrcConnectionRelease
    \/ RecvContextRemove
    \/ \E channel \in {"down", "up"} : LoseInTheAir(channel)

X2Step(s, d) ==
    \/ AdmitHandoverRequest(s, d)
    \/ RefuseHandoverRequest(s, d)
    \/ RecvHandoverRequestAck(s, d)
    \/ RecvHandoverPreparationFailure(s, d)
    \/ RecvUeContextRelease(s, d)
    \/ RecvHandoverCancel(s, d)
    \/ RecvUeData(s, d)

TimerStep(p) ==
    \/ \E timer \in {"request", "setup", "rejected"} : ConnectionTimersExpire(p, timer)
    \/ HandoverJoiningTimeout(p)
    \/ HandoverLeavingTimeout(p)

CoreStep ==
    \/ SgwRecvFromMme
    \/ PgwRecvFromSgw
    \/ MmeRecvCreateSessionResponse
    \/ MmeRecvModifyBearerResponse
    \/ MmeRecvDeleteBearerRequest

\* An aborted program stays so.
Ended == ~Running /\ UNCHANGED vars

Next ==
    \/ UeStep
    \/ RrcStep
    \/ \E p \in Places, c \in Cells : PrepareHandover(p, c)
    \/ \E l \in Links : X2Step(l[1], l[2])
    \/ \E p \in Places : TimerStep(p)
    \/ CoreStep
    \/ SendDownlink
    \/ RecvFromS1u
    \/ Ended

\* RRC events, links and timers are simulator events: each one happens.
\* Nothing the UE does on its own has to happen, nor does a random access.
Fairness ==
    /\ WF_vars(RrcStep)
    /\ \A l \in Links : WF_vars(X2Step(l[1], l[2]))
    /\ \A p \in Places : WF_vars(TimerStep(p))
    /\ WF_vars(CoreStep)

Spec == Init /\ [][Next]_vars /\ Fairness

-----------------------------------------------------------------------------
(* Properties. *)

\* The variables have the types of the code's.
TypeOK ==
    /\ conf \in Confs
    /\ ue.state \in {"IDLE", "IDLE_RANDOM_ACCESS", "IDLE_CONNECTING",
                     "CONNECTED_NORMALLY", "CONNECTED_HANDOVER"}
    /\ ue.at \in [cell : Cells \cup {0}, rnti : Rntis \cup {0}]
    /\ \A p \in Places :
         /\ ctx[p].state \in {"NONE", "INITIAL_RANDOM_ACCESS", "CONNECTION_SETUP",
                "CONNECTION_REJECTED", "ATTACH_REQUEST", "CONNECTED_NORMALLY",
                "CONNECTION_RECONFIGURATION", "HANDOVER_PREPARATION", "HANDOVER_JOINING",
                "HANDOVER_PATH_SWITCH", "HANDOVER_LEAVING"}
         /\ ctx[p].teid \in Teids \cup {0} /\ ctx[p].buffer \in Nat /\ ctx[p].pending \in BOOLEAN
         /\ ctx[p].timers \subseteq DOMAIN TimerState
         /\ {ctx[p].source, ctx[p].target} \subseteq [cell : Cells \cup {0}, rnti : Rntis \cup {0}]
    /\ lastRnti \in [Cells -> Rntis \cup {0}]
    /\ x2uTeidInfo \in [Cells -> [Teids -> Rntis \cup {0}]]
    /\ app \in [Cells -> [imsiRnti : Rntis \cup {0}, teidRnti : [Teids -> Rntis \cup {0}],
                          rntiTeid : [Rntis -> Teids \cup {0}]]]
    /\ mmeCell \in Cells \cup {0}
    /\ sgw \in [teidCount : Teids \cup {0}, enb : [Teids -> Cells \cup {0}]]
    /\ pgw.bearer \in Teids \cup {0} /\ pgw.tfts \subseteq Teids

\* What ends the program is a message that a failure left behind, and nothing
\* else: no handler of the RRC, X2 and S1 messages of a handover is ever
\* called in a state it does not expect, whatever the order of messages,
\* timers and the UE's own steps, but for these.  A UE that loses its
\* connection, or is released by the source of its last handover, during a
\* preparation, a path switch or an attachment leaves an answer without its
\* context (GetUeManager) or, if the core network is slower than the UE that
\* attaches again, with a context that does not expect it
\* (SendUeContextRelease, SetupDataRadioBearer).  Forwarded data finds no
\* context at the target once that has been removed (DoRecvUeData).  A UE that
\* accesses the target after its joining timer expired is taken for a new one
\* (RecvRrcConnectionReconfigurationCompleted).  This is for two cells: among
\* three, with an X2 link slower than two trips of another, the leaving timer
\* of a cell can cancel a handover of which the next one is already done.
AbortsExplained ==
    Running \/
    /\ fatal \in {"AckUnknownRnti", "PathSwitchAckUnknownRnti", "PathSwitchAckState",
                  "SetupUnknownRnti", "SetupBearerId", "X2uUnknownTeid", "CompletedState"}
    /\ mishaps \cap {"rlf", "rach", "joining", "leaving"} # {}
    /\ fatal = "CompletedState" => "joining" \in mishaps
    /\ conf.fastLinks => fatal \notin {"SetupBearerId", "PathSwitchAckState"}

\* The maps that three objects keep of a TEID agree: what the S1 application
\* of an eNB resolves to an RNTI (m_teidRbidMap, m_rbidTeidMap) is a context
\* with that bearer, what X2-U resolves (m_x2uTeidInfoMap) too, and a context
\* with a bearer is found by one of them.  So no packet reaches another
\* context or a removed one, also when the UE comes back to a cell it left.
\* (Again for two cells: among three it can come back by another cell before
\* the first one hears that it was taken over.)
BearerMapsAgree ==
    /\ \A c \in Cells, t \in Teids :
         LET s1 == [cell |-> c, rnti |-> app[c].teidRnti[t]]
             x2u == [cell |-> c, rnti |-> x2uTeidInfo[c][t]]
         IN /\ s1.rnti # 0 => /\ HasUeManager(s1) /\ ctx[s1].teid = t
                              /\ ctx[s1].state # "HANDOVER_JOINING"
                              /\ app[c].rntiTeid[s1.rnti] = t
            /\ x2u.rnti # 0 => HasUeManager(x2u) /\ ctx[x2u].teid = t
    /\ \A p \in Places : HasUeManager(p) /\ ctx[p].teid # 0 =>
         p.rnti = IF ctx[p].state = "HANDOVER_JOINING" THEN x2uTeidInfo[p.cell][ctx[p].teid]
                                                       ELSE app[p.cell].teidRnti[ctx[p].teid]

\* A UE that believes it is connected is known where it is, or the context
\* it left has its leaving timer running and will release it; a context it
\* is expected in has its joining timer running.  (A connection setup that
\* timed out is the exception: see SetupTimeoutReleasesUe.)
NotStranded ==
    "setup" \notin mishaps /\ Settled /\ ue.state \in {"CONNECTED_NORMALLY", "CONNECTED_HANDOVER"} =>
        \/ /\ HasUeManager(ue.at)
           /\ ctx[ue.at].state = "HANDOVER_JOINING" => "joining" \in ctx[ue.at].timers
        \/ \E p \in Places : "leaving" \in ctx[p].timers /\ ctx[p].target.cell = ue.at.cell

\* At most one eNB serves the UE, and it is the one the UE is at: the target
\* takes over (HANDOVER_PATH_SWITCH) only when the source is
\* HANDOVER_LEAVING, and every loss of the connection reaches the context.
ServingStates == {"ATTACH_REQUEST", "CONNECTED_NORMALLY", "CONNECTION_RECONFIGURATION",
                  "HANDOVER_PREPARATION", "HANDOVER_PATH_SWITCH"}
OneServingCell ==
    Settled => \A p \in Places : ctx[p].state \in ServingStates => ue.at = p

\* Once nothing is on its way, the core network sends the UE's packets to the
\* eNB that serves it: the path switch, the deletion of an old bearer at the
\* PGW and a new session leave PGW, SGW, eNB and UE with one TEID.
PathLeadsToUe ==
    /\ conf.fastLinks /\ Settled /\ BackhaulIdle
    /\ rrc["up"] = <<>> /\ rrc["down"] = <<>>
    /\ ue.state = "CONNECTED_NORMALLY" /\ HasUeManager(ue.at)
    /\ ctx[ue.at].state = "CONNECTED_NORMALLY"
    => LET t == ctx[ue.at].teid IN
       pgw = [bearer |-> t, tfts |-> {t}] /\ sgw.enb[t] = ue.at.cell

\* "Send RRC connection release in an idle way to ensure UE goes to idle mode
\* during handover failure and connection setup timeout"
\* (lte-rrc-protocol-real.cc:685): a connected UE has a context where it is
\* once no handover is under way.
SetupTimeoutReleasesUe ==
    Settled /\ ue.state = "CONNECTED_NORMALLY"
    /\ (\A p \in Places : ctx[p].state # "HANDOVER_LEAVING") => HasUeManager(ue.at)

-----------------------------------------------------------------------------
(* The handover as a service. *)

\* The source of a handover is about to hear that the UE arrived.
ArrivalTold(p) == \E s \in Cells \ {p.cell} : \E i \in 1 .. Len(x2[<<s, p.cell>>]) :
    x2[<<s, p.cell>>][i].msg = "UeContextRelease" /\ x2[<<s, p.cell>>][i].old = p.rnti

\* What the UE and the contexts amount to: the phase of the context at the
\* UE's place, or of the one that it was sent from and where it did not arrive.
ServicePhase ==
    LET known == HasUeManager(ue.at)
        state == IF known THEN ctx[ue.at].state ELSE "NONE"
        sources == {p \in Places : /\ ctx[p].state = "HANDOVER_LEAVING" /\ ctx[p].target = ue.at
                                   /\ ~ArrivalTold(p)}
        nothing == [phase |-> "disconnected", cell |-> 0, target |-> 0]
    IN IF ~Running \/ ue.state \notin {"CONNECTED_NORMALLY", "CONNECTED_HANDOVER"} THEN nothing ELSE
       CASE state \in {"CONNECTION_SETUP", "ATTACH_REQUEST", "CONNECTED_NORMALLY",
                        "CONNECTION_RECONFIGURATION", "HANDOVER_PATH_SWITCH"} ->
              [phase |-> "connected", cell |-> ue.at.cell, target |-> 0]
         [] state = "HANDOVER_PREPARATION" ->
              [phase |-> "preparing", cell |-> ue.at.cell, target |-> ctx[ue.at].target.cell]
         [] state = "HANDOVER_LEAVING" ->
              [phase |-> "executing", cell |-> ue.at.cell, target |-> ctx[ue.at].target.cell]
         [] OTHER ->
              IF sources = {} THEN nothing
              ELSE [phase |-> "executing", cell |-> (CHOOSE p \in sources : TRUE).cell,
                    target |-> ue.at.cell]

Service == INSTANCE LteHandoverService
    WITH phase <- ServicePhase.phase, cell <- ServicePhase.cell, target <- ServicePhase.target

\* The messages, timers and failures of the X2 handover implement the service:
\* every step is a step of it or leaves it alone, so that nothing but a
\* handover that was asked for and admitted moves the UE, and it moves there.
ImplementsService == Service!Safety

\* Whatever is refused, lost or times out, a handover that was asked for ends,
\* and one that was commanded ends: with the UE in the target or disconnected.
HandoversEnd == Service!Liveness

=============================================================================
