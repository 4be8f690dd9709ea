-------------------------- MODULE LteX2PathProofs --------------------------
(***************************************************************************)
(* The path through the core network leads to the cell that serves the UE: *)
(* for any number of cells, RNTIs and attachments, the ideal and the real  *)
(* RRC protocol, when the core network is faster than a UE that attaches   *)
(* again (fastLinks).                                                      *)
(*                                                                         *)
(* The argument: the core network is busy only while the UE attaches, while*)
(* the path is switched, or after the UE has lost its connection; what is  *)
(* left of a lost connection (contexts that served it, the session at the  *)
(* PGW) is gone before a UE selects a cell again.                          *)
(***************************************************************************)
EXTENDS LteX2ServingProofs

(***************************************************************************)
(* The core network.                                                       *)
(***************************************************************************)

\* The session that was created last.
Count == sgw.teidCount
NoSession == [bearer |-> 0, tfts |-> {}]
Session == [bearer |-> Count, tfts |-> {Count}]

\* A queue has a message of these kinds; the core network has one on its way to
\* the PGW or back.
Has(q, names) == \E i \in 1 .. Len(q) : q[i].msg \in names
InCore(names, answer) == Has(s11, names) \/ Has(s5, names) \/ Has(reply, {answer})
Creating == InCore({"CreateSessionRequest"}, "CreateSessionResponse")
Modifying == InCore({"ModifyBearerRequest"}, "ModifyBearerResponse")
Deleting == InCore({"DeleteBearerCommand", "DeleteBearerResponse"}, "DeleteBearerRequest")

\* A session is created for cell c, or the path switched to it, and nothing
\* else happens in the core network.
Creation(c) ==
    \/ /\ s11 = <<Gtpc("CreateSessionRequest", c, 0)>> /\ s5 = <<>> /\ reply = <<>>
       /\ pgw = NoSession
    \/ /\ s11 = <<>> /\ s5 = <<Gtpc("CreateSessionRequest", c, Count)>> /\ reply = <<>>
       /\ pgw = NoSession /\ Count # 0 /\ sgw.enb[Count] = c
    \/ /\ s11 = <<>> /\ s5 = <<>> /\ reply = <<Gtpc("CreateSessionResponse", 0, Count)>>
       /\ pgw = Session /\ Count # 0 /\ sgw.enb[Count] = c
Switching(c) ==
    \/ s11 = <<Gtpc("ModifyBearerRequest", c, Count)>> /\ s5 = <<>> /\ reply = <<>>
    \/ /\ s11 = <<>> /\ s5 = <<Gtpc("ModifyBearerRequest", c, Count)>> /\ reply = <<>>
       /\ sgw.enb[Count] = c
    \/ /\ s11 = <<>> /\ s5 = <<>> /\ reply = <<Gtpc("ModifyBearerResponse", 0, 0)>>
       /\ sgw.enb[Count] = c

-----------------------------------------------------------------------------
(* Contexts. *)

\* Contexts with the bearer in place, those that have not got it yet, and those
\* that send the path to their own cell.
Up == {"CONNECTED_NORMALLY", "CONNECTION_RECONFIGURATION", "HANDOVER_PREPARATION",
       "HANDOVER_PATH_SWITCH"}
Early == {"INITIAL_RANDOM_ACCESS", "CONNECTION_SETUP", "CONNECTION_REJECTED", "ATTACH_REQUEST"}
InPlace == Up \ {"HANDOVER_PATH_SWITCH"}
Busy == {"ATTACH_REQUEST", "HANDOVER_PATH_SWITCH"}

\* The UE is connected or connects, and nobody is about to release it.
Live == ue.state # "IDLE" /\ ~Releasing
\* The UE has not got as far as its attach request.
Before ==
    \/ ue.state \in {"IDLE_RANDOM_ACCESS", "IDLE_CONNECTING"}
    \/ ue.state = "CONNECTED_NORMALLY" /\ ctx[ue.at].state = "CONNECTION_SETUP"

\* Nothing is left of a connection, and nothing of a handover.
NothingUp == \A p \in Places : ctx[p].state \notin Up \cup {"HANDOVER_LEAVING"}
Carried(msg) == \E s, d \in Cells : s # d /\ \E m \in Mail(x2[<<s, d>>]) : m.msg = msg
X2Quiet == ~Carried("HandoverRequest") /\ ~Carried("HandoverRequestAck") /\ ~Carried("HandoverCancel")

-----------------------------------------------------------------------------
(* The invariant. *)

\* A context that waits for the core network is waited for by nothing else.
Waits == \A p \in Places :
    /\ ctx[p].state = "ATTACH_REQUEST" => Creation(p.cell)
    /\ ctx[p].state = "HANDOVER_PATH_SWITCH" => Modifying /\ (Live => Switching(p.cell))
Rests == Live /\ (ue.at \notin Places \/ ctx[ue.at].state \notin Busy) => CoreIdle
\* A session is created when nothing is left of the one before.
CreatesAlone == Creating =>
    /\ \E c \in Cells : Creation(c)
    /\ NothingUp /\ X2Quiet /\ ~Releasing
    /\ \A p \in Places : Removing(p) => ctx[p].state = "NONE" \/ ctx[p].teid = 0
Starts == Before => pgw = NoSession /\ NothingUp /\ X2Quiet /\ ~Releasing
\* One TEID is used.
Teid(p) ==
    /\ ctx[p].state \in Up \cup {"HANDOVER_LEAVING"} => ctx[p].teid = Count /\ Count # 0
    /\ ctx[p].state \in Early => ctx[p].teid = 0
    /\ ctx[p].state = "HANDOVER_JOINING" /\ (Dest(p) \/ (ue.state \in Connected /\ ue.at = p)) =>
          ctx[p].teid = Count
TeidsAgree ==
    /\ \A p \in Places : Teid(p)
    /\ \A s, d \in Cells : s # d => \A m \in Mail(x2[<<s, d>>]) :
          m.msg = "HandoverRequest" => m.teid = Count /\ Count # 0
\* A handover that is cancelled has lost the UE.
CancelsLate == Live => ~Carried("HandoverCancel")
\* The UE is where a context is set up, or waits for it.
Connects == ue.state = "IDLE_CONNECTING" =>
    ctx[ue.at].state \in {"INITIAL_RANDOM_ACCESS", "CONNECTION_SETUP", "CONNECTION_REJECTED", "NONE"}
Joins == \A q \in Places : Dest(q) => ctx[q].state \in {"HANDOVER_JOINING", "NONE"}
\* The session at the PGW is the last one, is there while the UE is served,
\* and as long as somebody is still to delete it.
SessionKnown == pgw = NoSession \/ (pgw = Session /\ Count # 0)
SessionEnds == pgw = Session =>
    \/ Deleting \/ Has(reply, {"CreateSessionResponse"})
    \/ \E p \in Places : ctx[p].state = "HANDOVER_LEAVING" /\ ~Released(p)
    \/ \E p \in Places : ctx[p].state \in Up
SessionStays ==
    /\ Live /\ ue.state \in Connected
    /\ ue.state = "CONNECTED_HANDOVER" \/ ctx[ue.at].state \in Up \cup {"HANDOVER_JOINING", "HANDOVER_LEAVING"}
    => pgw = Session
PathLeads == Live => \A p \in Places : ctx[p].state \in InPlace => sgw.enb[Count] = p.cell
\* A context that the UE left hears of it, from the one it was sent to.
OfferedBy(p, q) == ctx[q].state = "HANDOVER_JOINING" /\ ctx[q].source = p
Hearing(p, q) ==
    \/ Told(x2[<<q.cell, p.cell>>], "PreparationFailure", p.rnti)
    \/ Told(x2[<<q.cell, p.cell>>], "UeContextRelease", p.rnti)
LeavingEnds == \A p \in Places : ctx[p].state = "HANDOVER_LEAVING" =>
    LET q == ctx[p].target IN
    /\ q \in Places /\ q.cell # p.cell
    /\ \/ /\ OfferedBy(p, q)
          /\ (ue.state \in Connected /\ ue.at \in {p, q}) \/ Removing(p) \/ Removing(q)
       \/ ctx[q].state = "HANDOVER_PATH_SWITCH" /\ ctx[q].source = p
       \/ Hearing(p, q)
       \/ Modifying /\ ue = Idle
OffersStand == \A p, q \in Places : Offering(p, q) =>
    OfferedBy(p, q) \/ Refused(x2[<<q.cell, p.cell>>], p.rnti)
CommandsStand == \A m \in Msgs(rrc) :
    m.msg = "HandoverCommand" /\ ctx[m.at].state = "HANDOVER_LEAVING" => m.target = ctx[m.at].target

PathInv ==
    /\ Waits /\ Rests /\ CreatesAlone /\ Starts /\ TeidsAgree /\ CancelsLate
    /\ Connects /\ Joins /\ SessionKnown /\ SessionEnds /\ SessionStays /\ PathLeads
    /\ LeavingEnds /\ OffersStand /\ CommandsStand

(***************************************************************************)
(* What a step does in the core network, and what it has to do with the    *)
(* contexts.                                                               *)
(***************************************************************************)

Core == <<sgw, pgw, s11, s5, reply>>

\* An eNB tells the MME, which tells the SGW; the MME hears from it.
Sends(m) == s11' = Append(s11, m) /\ UNCHANGED <<sgw, pgw, s5, reply>>
Takes(msg) ==
    /\ Calm /\ reply # <<>> /\ Head(reply).msg = msg /\ reply' = Tail(reply)
    /\ UNCHANGED <<sgw, pgw, s5>>

\* The UE completes what the eNB told it to do.
Completes == Quietly /\ \E m \in RrcMsgs : Heard(m) /\ m.msg \in Completed
Creates(p) ==
    /\ ctx[p].state = "CONNECTION_SETUP" /\ ctx'[p].state = "ATTACH_REQUEST" /\ Completes
    /\ Sends(Gtpc("CreateSessionRequest", p.cell, 0))
Modifies(p) ==
    /\ ctx[p].state = "HANDOVER_JOINING" /\ ctx'[p].state = "HANDOVER_PATH_SWITCH" /\ Completes
    /\ Sends(Gtpc("ModifyBearerRequest", p.cell, ctx[p].teid))
Deletes(p) ==
    /\ ctx[p].state # "NONE" /\ ctx[p].teid # 0 /\ Sends(Gtpc("DeleteBearerCommand", 0, 0))
    /\ \/ Removing(p)
       \/ ctx[p].state = "HANDOVER_LEAVING" /\ Releasing'
       \/ Carried("HandoverCancel")
Answers(p) ==
    /\ Takes("CreateSessionResponse") /\ UNCHANGED s11
    /\ ctx[p].state = "ATTACH_REQUEST" /\ ctx'[p].state = "CONNECTION_RECONFIGURATION"
    /\ ctx'[p].teid = Head(reply).teid
Acknowledges(p) ==
    /\ Takes("ModifyBearerResponse") /\ UNCHANGED s11
    /\ ctx[p].state = "HANDOVER_PATH_SWITCH"
    /\ ctx'[p].state \in {"CONNECTED_NORMALLY", "CONNECTION_RECONFIGURATION"}
\* A context that is created for a handover.
Joined(p) ==
    /\ ~Known(p) /\ ctx'[p].state = "HANDOVER_JOINING"
    /\ \E s, d \in Cells : Admits(s, d, p) /\ ctx'[p].teid = Head(x2[<<s, d>>]).teid

\* The SGW, the PGW and the MME.
SgwMoves ==
    /\ Calm /\ Still /\ s11 # <<>> /\ s11' = Tail(s11) /\ UNCHANGED <<pgw, reply>>
    /\ \E m \in CoreMsgs : m = Head(s11) /\
         \/ /\ m.msg = "CreateSessionRequest" /\ Count + 1 \in Teids
            /\ sgw' = [teidCount |-> Count + 1, enb |-> [sgw.enb EXCEPT ![Count + 1] = m.cell]]
            /\ s5' = Append(s5, [m EXCEPT !.teid = Count + 1])
         \/ /\ m.msg = "ModifyBearerRequest"
            /\ sgw' = [sgw EXCEPT !.enb[m.teid] = m.cell] /\ s5' = Append(s5, m)
         \/ /\ m.msg \notin {"CreateSessionRequest", "ModifyBearerRequest"}
            /\ UNCHANGED sgw /\ s5' = Append(s5, m)
PgwMoves ==
    /\ Calm /\ Still /\ s5 # <<>> /\ s5' = Tail(s5) /\ UNCHANGED <<sgw, s11>>
    /\ \E m \in CoreMsgs : m = Head(s5) /\
         \/ /\ m.msg = "CreateSessionRequest"
            /\ pgw' = [bearer |-> m.teid, tfts |-> pgw.tfts \cup {m.teid}]
            /\ reply' = Append(reply, Gtpc("CreateSessionResponse", 0, m.teid))
         \/ /\ m.msg = "ModifyBearerRequest" /\ UNCHANGED pgw
            /\ reply' = Append(reply, Gtpc("ModifyBearerResponse", 0, 0))
         \/ /\ m.msg = "DeleteBearerCommand" /\ UNCHANGED pgw
            /\ reply' = Append(reply, Gtpc("DeleteBearerRequest", 0, 0))
         \/ /\ m.msg = "DeleteBearerResponse" /\ UNCHANGED reply
            /\ pgw' = [bearer |-> 0, tfts |-> pgw.tfts \ {pgw.bearer}]
         \/ /\ m.msg \in {"CreateSessionResponse", "ModifyBearerResponse", "DeleteBearerRequest"}
            /\ UNCHANGED <<pgw, reply>>
MmeMoves ==
    /\ Still /\ Takes("DeleteBearerRequest") /\ s11' = Append(s11, Gtpc("DeleteBearerResponse", 0, 0))

CoreEffect ==
    \/ UNCHANGED Core
    \/ \E p \in Places : Creates(p) \/ Modifies(p) \/ Deletes(p) \/ Answers(p) \/ Acknowledges(p)
    \/ SgwMoves \/ PgwMoves \/ MmeMoves
\* What a context does is done in the core network too.
Involves(p) ==
    /\ ctx'[p].state = "ATTACH_REQUEST" => ctx[p].state = "ATTACH_REQUEST" \/ Creates(p)
    /\ ctx'[p].state = "HANDOVER_PATH_SWITCH" => ctx[p].state = "HANDOVER_PATH_SWITCH" \/ Modifies(p)
    /\ ctx[p].state = "ATTACH_REQUEST" => ctx'[p].state \in {"ATTACH_REQUEST", "NONE"} \/ Answers(p)
    /\ ctx[p].state = "HANDOVER_PATH_SWITCH" =>
          ctx'[p].state \in {"HANDOVER_PATH_SWITCH", "NONE"} \/ Acknowledges(p)
    /\ ctx[p].state \in Up \cup {"HANDOVER_LEAVING"} /\ ctx'[p].state = "NONE" =>
          ctx[p].teid = 0 \/ Deletes(p) \/ Released(p)
    /\ \/ ctx'[p].state = "NONE" \/ Answers(p) \/ Joined(p)
       \/ (ctx[p].state # "NONE" /\ ctx'[p].teid = ctx[p].teid)
       \/ (ctx'[p].state = "INITIAL_RANDOM_ACCESS" /\ ctx'[p].teid = 0)
\* The UE selects a cell.
Selects ==
    /\ Calm /\ (conf.fastLinks => BackhaulIdle) /\ UNCHANGED <<ctx, x2, rrc>> /\ UNCHANGED Core
    /\ ue'.state = "IDLE_RANDOM_ACCESS" /\ ue'.at \notin Places
CoreStepped ==
    /\ UNCHANGED conf /\ CoreEffect
    /\ ue.state = "IDLE" /\ ue'.state # "IDLE" => Selects
    /\ \A p \in Places : Involves(p)

(* Nothing happens to the contexts, or to one of them.                     *)
LEMMA OneInvolved ==
    /\ UNCHANGED ctx => \A p \in Places : Involves(p)
    /\ \A p \in Places : (\A q \in Places \ {p} : ctx'[q] = ctx[q]) /\ Involves(p) => \A q \in Places : Involves(q)
  <1>1. ASSUME NEW q \in Places, ctx'[q] = ctx[q] PROVE Involves(q)
    BY <1>1 DEF Involves, Up
  <1> QED
    BY <1>1

(* The steps that leave the contexts and the core network alone.           *)
LEMMA Uninvolved ==
    ASSUME UNCHANGED <<conf, ue, ctx>>, UNCHANGED coreVars
    PROVE  CoreStepped
  <1>1. UNCHANGED Core
    BY DEF Core, coreVars
  <1> QED
    BY <1>1, OneInvolved DEF CoreStepped, CoreEffect

(* The program ends as it is.                                              *)
LEMMA AbortUninvolved == \A reason : Abort(reason) => CoreStepped
  BY Uninvolved DEF Abort, ueVars

(* A new context.                                                          *)
LEMMA FreshInvolved ==
    ASSUME Base, NEW p \in Places, Fresh(p), \A q \in Places \ {p} : ctx'[q] = ctx[q],
           (ctx'[p].state = "INITIAL_RANDOM_ACCESS" /\ ctx'[p].teid = 0) \/ Joined(p)
    PROVE  \A q \in Places : Involves(q)
  <1>1. ~Known(p)
    BY FreshFacts DEF Base
  <1>2. ctx[p].state = "NONE"
    BY <1>1 DEF Base, Allocated, CtxAllocated
  <1>3. Involves(p)
    BY <1>2 DEF Involves, Up, Joined
  <1> QED
    BY <1>3, OneInvolved

(* The UE on its own.                                                      *)
LEMMA UeInvolves ==
    ASSUME Base, UeStep
    PROVE  CoreStepped
  <1>t. /\ TypeInv /\ ctx \in [Places -> Contexts] /\ lastRnti \in [Cells -> Rntis \cup {0}]
        /\ ue.state = "IDLE_RANDOM_ACCESS" => ue.at.cell \in Cells
        /\ ue.state = "CONNECTED_HANDOVER" => ue.at \in Places
    BY DEF Base, TypeInv, CellsTyped, UeTyped
  <1>1. ASSUME NEW c \in Cells, SelectCell(c) PROVE CoreStepped
    <2>1. /\ Settled /\ (conf.fastLinks => BackhaulIdle) /\ UNCHANGED <<conf, ctx, x2, rrc>> /\ UNCHANGED coreVars
          /\ ue' = [state |-> "IDLE_RANDOM_ACCESS", at |-> [cell |-> c, rnti |-> 0]]
      BY <1>1 DEF SelectCell
    <2>2. ue'.state = "IDLE_RANDOM_ACCESS" /\ ue'.at \notin Places
      BY <2>1, PlaceTypes DEF Places
    <2>3. Selects /\ UNCHANGED Core
      BY <2>1, <2>2 DEF Selects, Core, coreVars, Settled, Calm
    <2> QED
      BY <2>1, <2>3, OneInvolved DEF CoreStepped, CoreEffect
  <1>f. ASSUME NEW c \in Cells, ~NoRntiLeft(c), UNCHANGED conf, UNCHANGED coreVars, ue.state # "IDLE",
               ctx' = [ctx EXCEPT ![NextPlace(c)] = NewContext("INITIAL_RANDOM_ACCESS", Nowhere)],
               lastRnti' = [lastRnti EXCEPT ![NextPlace(c).cell] = NextPlace(c).rnti]
        PROVE  CoreStepped
    <2>0. PICK p : p = NextPlace(c)
      OBVIOUS
    <2>x. PICK x : x = NewContext("INITIAL_RANDOM_ACCESS", Nowhere)
      OBVIOUS
    <2>1. p \in Places /\ p.cell = c /\ p.rnti = lastRnti[c] + 1
      BY <1>f, <1>t, <2>0, NextPlaceTypes
    <2>2. x.state = "INITIAL_RANDOM_ACCESS" /\ x.teid = 0
      BY <2>x DEF NewContext, NoContext
    <2>3. ctx' = [ctx EXCEPT ![p] = x] /\ Fresh(p)
      BY <1>f, <2>0, <2>x, <2>1 DEF Fresh
    <2>4. (\A q \in Places \ {p} : ctx'[q] = ctx[q]) /\ ctx'[p] = x
      BY <2>1, <2>3, <1>t
    <2>5. \A q \in Places : Involves(q)
      BY <2>1, <2>2, <2>3, <2>4, FreshInvolved
    <2>6. UNCHANGED Core
      BY <1>f DEF Core, coreVars
    <2> QED
      BY <2>5, <2>6, <1>f DEF CoreStepped, CoreEffect
  <1>2. ASSUME RandomAccess PROVE CoreStepped
    BY <1>2, <1>t, <1>f DEF RandomAccess
  <1>u. ASSUME UNCHANGED <<conf, ctx>>, UNCHANGED coreVars, ue.state # "IDLE" PROVE CoreStepped
    <2>1. UNCHANGED Core
      BY <1>u DEF Core, coreVars
    <2> QED
      BY <2>1, <1>u, OneInvolved DEF CoreStepped, CoreEffect
  <1>3. ASSUME HandoverRandomAccess PROVE CoreStepped
    <2>1. /\ UNCHANGED conf /\ UNCHANGED coreVars /\ ue.state = "CONNECTED_HANDOVER"
          /\ HasUeManager(ue.at) \/ ~NoRntiLeft(ue.at.cell)
      BY <1>3 DEF HandoverRandomAccess
    <2>2. CASE HasUeManager(ue.at)
      BY <1>3, <2>1, <2>2, <1>u DEF HandoverRandomAccess
    <2>3. CASE ~HasUeManager(ue.at)
      <3>1. ue.at.cell \in Cells
        BY <2>1, <1>t, PlaceTypes
      <3> QED
        BY <1>3, <2>1, <2>3, <3>1, <1>f DEF HandoverRandomAccess
    <2> QED
      BY <2>2, <2>3
  <1>4. ASSUME HandoverRandomAccessFailed \/ RadioLinkFailure \/ ConnectionTimeout PROVE CoreStepped
    BY <1>4, <1>u DEF HandoverRandomAccessFailed, RadioLinkFailure, ConnectionTimeout
  <1> QED
    BY <1>1, <1>2, <1>3, <1>4 DEF UeStep

(* A context goes and its bearer is released towards the MME.              *)
LEMMA GoneInvolved ==
    ASSUME Base, NEW p \in Places, ctx[p].state # "NONE", RemoveUe(p), UNCHANGED <<conf, ue>>, UNCHANGED <<sgw, pgw, s5, reply>>,
           \/ ReleaseBearers(p) /\ (Removing(p) \/ (ctx[p].state = "HANDOVER_LEAVING" /\ Releasing'))
           \/ UNCHANGED s11 /\ (ctx[p].state \in Up \cup {"HANDOVER_LEAVING"} => Released(p))
    PROVE  CoreStepped
  <1>1. (\A q \in Places \ {p} : ctx'[q] = ctx[q]) /\ ctx'[p].state = "NONE"
    BY Goes DEF Base, Gone, Turned
  <1>2. CASE UNCHANGED s11 /\ (ctx[p].state \in Up \cup {"HANDOVER_LEAVING"} => Released(p))
    <2>1. UNCHANGED Core
      BY <1>2 DEF Core
    <2>2. Involves(p)
      BY <1>1, <1>2 DEF Involves
    <2> QED
      BY <2>1, <2>2, <1>1, OneInvolved DEF CoreStepped, CoreEffect
  <1>3. CASE ReleaseBearers(p) /\ (Removing(p) \/ (ctx[p].state = "HANDOVER_LEAVING" /\ Releasing'))
    <2>1. CASE ctx[p].teid = 0
      <3>1. UNCHANGED Core
        BY <1>3, <2>1 DEF Core, ReleaseBearers
      <3>2. Involves(p)
        BY <1>1, <2>1 DEF Involves
      <3> QED
        BY <3>1, <3>2, <1>1, OneInvolved DEF CoreStepped, CoreEffect
    <2>2. CASE ctx[p].teid # 0
      <3>1. Deletes(p)
        BY <1>3, <2>2 DEF Deletes, Sends, ReleaseBearers
      <3>2. Involves(p)
        BY <3>1, <1>1 DEF Involves
      <3> QED
        BY <3>1, <3>2, <1>1, OneInvolved DEF CoreStepped, CoreEffect
    <2> QED
      BY <2>1, <2>2
  <1> QED
    BY <1>2, <1>3

(* A context goes on with its bearer.                                      *)
LEMMA SteadyInvolved ==
    ASSUME Base, NEW p \in Places, NEW x, ctx' = [ctx EXCEPT ![p] = x], UNCHANGED <<conf, ue>>,
           x.teid = ctx[p].teid, ctx[p].state # "NONE",
           x.state \notin {"NONE", "ATTACH_REQUEST", "HANDOVER_PATH_SWITCH"},
           ctx[p].state # "ATTACH_REQUEST"
    PROVE  /\ ctx[p].state # "HANDOVER_PATH_SWITCH" \/ Acknowledges(p) => Involves(p)
           /\ ctx[p].state # "HANDOVER_PATH_SWITCH" /\ UNCHANGED coreVars => CoreStepped
           /\ ctx'[p].state = x.state
  <1>t. ctx \in [Places -> Contexts]
    BY DEF Base, TypeInv, CellsTyped
  <1>1. (\A q \in Places \ {p} : ctx'[q] = ctx[q]) /\ ctx'[p] = x
    BY <1>t
  <1>2. ctx[p].state # "HANDOVER_PATH_SWITCH" \/ Acknowledges(p) => Involves(p)
    BY <1>1 DEF Involves
  <1>3. UNCHANGED coreVars => UNCHANGED Core
    BY DEF coreVars, Core
  <1> QED
    BY <1>1, <1>2, <1>3, OneInvolved DEF CoreStepped, CoreEffect

(* RRC messages to the UE, and events.                                     *)
LEMMA DownInvolves ==
    ASSUME Base, NEW ch \in Channels,
           \/ RecvRrcConnectionSetup(ch) \/ RecvRrcConnectionReject(ch)
           \/ RecvHandoverCommand(ch) \/ RecvReconfiguration(ch)
           \/ RecvRrcConnectionRelease \/ LoseInTheAir(ch),
           ch \in {"now", "down"} \/ RecvRrcConnectionRelease \/ LoseInTheAir(ch)
    PROVE  CoreStepped
  <1>u. ASSUME UNCHANGED <<conf, ctx>>, UNCHANGED coreVars, ue.state # "IDLE" PROVE CoreStepped
    <2>1. UNCHANGED Core
      BY <1>u DEF Core, coreVars
    <2> QED
      BY <2>1, <1>u, OneInvolved DEF CoreStepped, CoreEffect
  <1>1. ASSUME RecvRrcConnectionSetup(ch) PROVE CoreStepped
    BY <1>1, <1>u, AbortUninvolved DEF RecvRrcConnectionSetup
  <1>2. ASSUME RecvRrcConnectionReject(ch), ch \in {"now", "down"} PROVE CoreStepped
    <2>1. /\ NextRrc(ch, "ConnectionReject") /\ ReachesUe(ch) /\ ch \in Channels
          /\ UNCHANGED <<conf, ctx>> /\ UNCHANGED coreVars
      BY <1>2 DEF RecvRrcConnectionReject, Channels
    <2>2. Head(rrc[ch]).at \in Places /\ Head(rrc[ch]).msg = "ConnectionReject" /\ rrc[ch] # <<>>
      BY <2>1, NextRrcTypes DEF Base
    <2>3. ch = "now" => ue.state = "IDLE_CONNECTING"
      BY <2>2 DEF Base, TypeInv, OneEvent, Asking
    <2>4. ch # "now" => ue.at \in Places
      BY <2>1, <2>2 DEF ReachesUe
    <2>5. ue.at \in Places => ue.state # "IDLE"
      BY PlaceTypes DEF Base, TypeInv, UeTyped, Idle
    <2> QED
      BY <2>1, <2>3, <2>4, <2>5, <1>u
  <1>3. ASSUME RecvHandoverCommand(ch) PROVE CoreStepped
    BY <1>3, <1>u, AbortUninvolved DEF RecvHandoverCommand
  <1>4. ASSUME RecvReconfiguration(ch) PROVE CoreStepped
    BY <1>4, Uninvolved, AbortUninvolved DEF RecvReconfiguration, ueVars
  <1>5. ASSUME RecvRrcConnectionRelease PROVE CoreStepped
    BY <1>5, <1>u, Uninvolved DEF RecvRrcConnectionRelease
  <1>6. ASSUME LoseInTheAir(ch) PROVE CoreStepped
    BY <1>6, Uninvolved DEF LoseInTheAir, ueVars
  <1> QED
    BY <1>1, <1>2, <1>3, <1>4, <1>5, <1>6

(* RRC messages to the eNB.                                                *)
LEMMA UpInvolves ==
    ASSUME Base, NEW ch \in Channels,
           \/ \E admit \in BOOLEAN : RecvRrcConnectionRequest(ch, admit)
           \/ RecvRrcConnectionSetupCompleted(ch)
           \/ RecvReconfigurationCompleted(ch)
    PROVE  CoreStepped
  <1>t. ctx \in [Places -> Contexts] /\ TypeInv
    BY DEF Base, TypeInv, CellsTyped
  <1>0. PICK m : m = Head(rrc[ch])
    OBVIOUS
  <1>p. PICK p : p = m.at
    OBVIOUS
  <1>a. ASSUME NEW msg, NextRrc(ch, msg)
        PROVE  /\ m \in RrcMsgs /\ m.msg = msg /\ p \in Places
               /\ rrc' = Taken(ch) /\ msg \in Completed => Completes
    <2>1. Heard(m) /\ m \in RrcMsgs /\ m.msg = msg /\ m.at \in Places /\ (rrc' = Taken(ch) => Quietly)
      BY <1>a, <1>t, <1>0, Hears
    <2> QED
      BY <2>1, <1>p DEF Completes
  <1>k. ASSUME UnknownRnti(ch) PROVE CoreStepped
    BY <1>k, AbortUninvolved, Uninvolved DEF UnknownRnti, ueVars
  <1>1. ASSUME NEW admit \in BOOLEAN, RecvRrcConnectionRequest(ch, admit) PROVE CoreStepped
    <2>1. NextRrc(ch, "ConnectionRequest")
      BY <1>1 DEF RecvRrcConnectionRequest
    <2>2. CASE ~(HasUeManager(p) /\ ctx[p].state = "INITIAL_RANDOM_ACCESS")
      BY <1>1, <1>0, <1>p, <2>2, <1>k, AbortUninvolved DEF RecvRrcConnectionRequest
    <2>3. CASE HasUeManager(p) /\ ctx[p].state = "INITIAL_RANDOM_ACCESS"
      <3>s. PICK st : st = IF admit THEN "CONNECTION_SETUP" ELSE "CONNECTION_REJECTED"
        OBVIOUS
      <3>i. PICK ti : ti = IF admit THEN {"setup"} ELSE {"rejected"}
        OBVIOUS
      <3>1. /\ ctx' = [ctx EXCEPT ![p].state = st, ![p].timers = ti]
            /\ UNCHANGED <<conf, ue>> /\ UNCHANGED coreVars
        BY <1>1, <1>0, <1>p, <2>3, <3>s, <3>i DEF RecvRrcConnectionRequest, ueVars
      <3>2. p \in Places /\ ctx[p] \in Contexts
        BY <2>1, <1>a, <1>t
      <3>x. PICK x : x = [ctx[p] EXCEPT !.state = st, !.timers = ti]
        OBVIOUS
      <3>3. ctx' = [ctx EXCEPT ![p] = x]
        BY <3>1, <3>2, <3>x, <1>t
      <3>4. x.teid = ctx[p].teid /\ x.state = st
        BY <3>2, <3>x DEF Contexts
      <3>5. st \in {"CONNECTION_SETUP", "CONNECTION_REJECTED"}
        BY <3>s
      <3>6. x.state \notin {"NONE", "ATTACH_REQUEST", "HANDOVER_PATH_SWITCH"}
        BY <3>4, <3>5
      <3>7. ctx[p].state \notin {"NONE", "ATTACH_REQUEST", "HANDOVER_PATH_SWITCH"}
        BY <2>3
      <3> QED
        BY <3>1, <3>2, <3>3, <3>4, <3>6, <3>7, SteadyInvolved
    <2> QED
      BY <2>2, <2>3
  <1>2. ASSUME RecvRrcConnectionSetupCompleted(ch) PROVE CoreStepped
    <2>1. NextRrc(ch, "ConnectionSetupCompleted")
      BY <1>2 DEF RecvRrcConnectionSetupCompleted
    <2>2. CASE ~(HasUeManager(p) /\ ctx[p].state = "CONNECTION_SETUP")
      BY <1>2, <1>0, <1>p, <2>2, <1>k, AbortUninvolved DEF RecvRrcConnectionSetupCompleted
    <2>3. CASE HasUeManager(p) /\ ctx[p].state = "CONNECTION_SETUP"
      <3>1. /\ ctx' = [ctx EXCEPT ![p].state = "ATTACH_REQUEST", ![p].timers = {}]
            /\ UNCHANGED <<conf, ue>> /\ rrc' = Taken(ch)
            /\ Sends(Gtpc("CreateSessionRequest", p.cell, 0))
        BY <1>2, <1>0, <1>p, <2>3 DEF RecvRrcConnectionSetupCompleted, ueVars, Sends
      <3>2. p \in Places /\ ctx[p] \in Contexts /\ Completes
        BY <2>1, <3>1, <1>a, <1>t DEF Completed
      <3>3. /\ \A q \in Places \ {p} : ctx'[q] = ctx[q]
            /\ ctx'[p].state = "ATTACH_REQUEST" /\ ctx'[p].teid = ctx[p].teid
        BY <3>1, <3>2, <1>t DEF Contexts
      <3>4. Creates(p)
        BY <3>1, <3>2, <3>3, <2>3 DEF Creates
      <3>5. Involves(p)
        BY <3>3, <3>4, <2>3 DEF Involves
      <3> QED
        BY <3>1, <3>2, <3>3, <3>4, <3>5, OneInvolved DEF CoreStepped, CoreEffect
    <2> QED
      BY <2>2, <2>3
  <1>3. ASSUME RecvReconfigurationCompleted(ch) PROVE CoreStepped
    <2>1. NextRrc(ch, "ReconfigurationCompleted")
      BY <1>3 DEF RecvReconfigurationCompleted
    <2>p. p \in Places /\ ctx[p] \in Contexts
      BY <2>1, <1>a, <1>t
    <2>2. CASE ~HasUeManager(p)
      BY <1>3, <1>0, <1>p, <2>2, <1>k DEF RecvReconfigurationCompleted
    <2>3. CASE HasUeManager(p) /\ ctx[p].state = "HANDOVER_JOINING"
      <3>1. PathSwitchRequest(p, ch)
        BY <1>3, <1>0, <1>p, <2>3 DEF RecvReconfigurationCompleted
      <3>2. /\ ctx' = [ctx EXCEPT ![p].state = "HANDOVER_PATH_SWITCH", ![p].timers = {}, ![p].buffer = 0]
            /\ UNCHANGED <<conf, ue>> /\ rrc' = Taken(ch)
            /\ Sends(Gtpc("ModifyBearerRequest", p.cell, ctx[p].teid))
        BY <3>1 DEF PathSwitchRequest, ueVars, Sends
      <3>3. Completes
        BY <2>1, <3>2, <1>a DEF Completed
      <3>4. /\ \A q \in Places \ {p} : ctx'[q] = ctx[q]
            /\ ctx'[p].state = "HANDOVER_PATH_SWITCH" /\ ctx'[p].teid = ctx[p].teid
        BY <3>2, <2>p, <1>t DEF Contexts
      <3>5. Modifies(p)
        BY <3>2, <3>3, <3>4, <2>3 DEF Modifies
      <3>6. Involves(p)
        BY <3>4, <3>5, <2>3 DEF Involves
      <3> QED
        BY <3>2, <2>p, <3>4, <3>5, <3>6, OneInvolved DEF CoreStepped, CoreEffect
    <2>4. CASE HasUeManager(p) /\ ctx[p].state = "CONNECTION_RECONFIGURATION"
      <3>1. ctx' = [ctx EXCEPT ![p] = ConnectedNormally(@)] /\ UNCHANGED <<conf, ue>> /\ UNCHANGED coreVars
        BY <1>3, <1>0, <1>p, <2>4 DEF RecvReconfigurationCompleted, ueVars
      <3>x. PICK x : x = ConnectedNormally(ctx[p])
        OBVIOUS
      <3>2. ctx' = [ctx EXCEPT ![p] = x]
        BY <3>1, <3>x
      <3>3. x.state \in {"CONNECTED_NORMALLY", "CONNECTION_RECONFIGURATION"}
        BY <3>x, <2>p, ConnectedTypes
      <3>4. x.teid = ctx[p].teid
        BY <3>x, <2>p DEF ConnectedNormally, Contexts
      <3>5. x.state \notin {"NONE", "ATTACH_REQUEST", "HANDOVER_PATH_SWITCH"}
        BY <3>3
      <3> QED
        BY <3>1, <3>2, <3>4, <3>5, <2>4, <2>p, SteadyInvolved
    <2>5. CASE HasUeManager(p) /\ ctx[p].state \in {"CONNECTED_NORMALLY", "HANDOVER_LEAVING"}
      BY <1>3, <1>0, <1>p, <2>5, Uninvolved DEF RecvReconfigurationCompleted, ueVars
    <2>6. CASE HasUeManager(p) /\ ctx[p].state \notin {"HANDOVER_JOINING", "CONNECTION_RECONFIGURATION",
                                                       "CONNECTED_NORMALLY", "HANDOVER_LEAVING"}
      BY <1>3, <1>0, <1>p, <2>6, AbortUninvolved DEF RecvReconfigurationCompleted
    <2> QED
      BY <2>2, <2>3, <2>4, <2>5, <2>6
  <1> QED
    BY <1>1, <1>2, <1>3

(* The context of a UE that left is removed.                               *)
LEMMA RemoveInvolves ==
    ASSUME Base, RecvContextRemove
    PROVE  CoreStepped
  <1>0. PICK m : m = Head(rrc["now"])
    OBVIOUS
  <1>p. PICK p : p = m.at
    OBVIOUS
  <1>1. /\ NextRrc("now", "ContextRemove") /\ UNCHANGED <<conf, ue, sgw, pgw, s5, reply, mmeCell>> /\ "now" \in Channels
        /\ IF HasUeManager(p) THEN ContextRemoved(p) ELSE UNCHANGED <<ctx, s11>>
    BY <1>0, <1>p DEF RecvContextRemove, Channels, ueVars
  <1>2. m \in RrcMsgs /\ m.msg = "ContextRemove" /\ p \in Places /\ rrc["now"] = <<m>>
    BY <1>0, <1>1, <1>p, Hears DEF Base
  <1>3. Removing(p)
    BY <1>2, <1>p DEF Removing, Due
  <1>4. CASE HasUeManager(p)
    BY <1>1, <1>2, <1>3, <1>4, GoneInvolved DEF ContextRemoved, HasUeManager
  <1>5. CASE ~HasUeManager(p)
    BY <1>1, <1>5, Uninvolved DEF coreVars
  <1> QED
    BY <1>4, <1>5

(* A handover is requested.                                                *)
LEMMA PrepareInvolves ==
    ASSUME Base, NEW p \in Places, NEW c \in Cells, PrepareHandover(p, c)
    PROVE  CoreStepped
  <1>1. /\ ctx' = [ctx EXCEPT ![p].state = "HANDOVER_PREPARATION", ![p].target = [cell |-> c, rnti |-> 0]]
        /\ ctx[p].state = "CONNECTED_NORMALLY" /\ UNCHANGED <<conf, ue>> /\ UNCHANGED coreVars
    BY DEF PrepareHandover, ueVars
  <1>2. ctx \in [Places -> Contexts] /\ ctx[p] \in Contexts
    BY DEF Base, TypeInv, CellsTyped
  <1>x. PICK x : x = [ctx[p] EXCEPT !.state = "HANDOVER_PREPARATION", !.target = [cell |-> c, rnti |-> 0]]
    OBVIOUS
  <1>3. ctx' = [ctx EXCEPT ![p] = x]
    BY <1>1, <1>2, <1>x
  <1>4. x.teid = ctx[p].teid /\ x.state = "HANDOVER_PREPARATION"
    BY <1>2, <1>x DEF Contexts
  <1> QED
    BY <1>1, <1>3, <1>4, SteadyInvolved

(* A message that is next on a link.                                       *)
LEMMA NextArrives ==
    ASSUME Base, NEW s \in Cells, NEW d \in Cells, <<s, d>> \in Links, NEW msg, NextX2(s, d, msg)
    PROVE  LET m == Head(x2[<<s, d>>]) IN
           /\ Settled /\ Calm /\ s # d /\ x2[<<s, d>>] # <<>> /\ m \in X2Msgs /\ m.msg = msg
           /\ m \in Mail(x2[<<s, d>>]) /\ MailAllocated(s, d, m)
           /\ UNCHANGED ue => Arrived(s, d, msg)
           /\ m.old \in Rntis \cup {0} /\ m.new \in Rntis \cup {0} /\ m.teid \in Teids \cup {0}
           /\ msg = "HandoverRequestAck" => m.new \in Rntis
  <1> DEFINE m == Head(x2[<<s, d>>])
  <1>1. <<s, d>>[1] = s /\ <<s, d>>[2] = d
    OBVIOUS
  <1>t. TypeInv
    BY DEF Base
  <1>2. /\ s # d /\ Settled /\ x2[<<s, d>>] # <<>>
        /\ m \in X2Msgs /\ m.msg = msg
        /\ m.old \in Rntis \cup {0} /\ m.new \in Rntis \cup {0} /\ m.teid \in Teids \cup {0}
        /\ (msg = "HandoverRequestAck" => m.new \in Rntis)
    BY <1>t, <1>1, NextX2Types
  <1>3. Calm
    BY <1>2, <1>t, Speaks
  <1>4. x2 \in [Links -> Seq(X2Msgs)]
    BY <1>t DEF TypeInv, LinksTyped
  <1>5. m \in Mail(x2[<<s, d>>])
    <2>1. x2[<<s, d>>] \in Seq(X2Msgs)
      BY <1>4
    <2>2. Mail(x2[<<s, d>>]) = Mail(Tail(x2[<<s, d>>])) \cup {Head(x2[<<s, d>>])}
      BY <1>2, <2>1, MailShrinks
    <2> QED
      BY <2>2
  <1>6. MailAllocated(s, d, m)
    BY <1>2, <1>5 DEF Base, Allocated, X2Allocated
  <1> HIDE DEF m
  <1>7. UNCHANGED ue => Arrived(s, d, msg)
    BY <1>2, <1>3 DEF Arrived, m
  <1> QED
    BY <1>2, <1>3, <1>5, <1>6, <1>7 DEF m

(* Preparation, at the target and at the source.                           *)
LEMMA PreparationInvolves ==
    ASSUME Base, NEW s \in Cells, NEW d \in Cells, <<s, d>> \in Links,
           AdmitHandoverRequest(s, d) \/ RefuseHandoverRequest(s, d) \/ RecvHandoverRequestAck(s, d)
    PROVE  CoreStepped
  <1>0. PICK m : m = Head(x2[<<s, d>>])
    OBVIOUS
  <1>t. lastRnti \in [Cells -> Rntis \cup {0}] /\ ctx \in [Places -> Contexts] /\ TypeInv
    BY DEF Base, TypeInv, CellsTyped
  <1>1. ASSUME AdmitHandoverRequest(s, d) PROVE CoreStepped
    <2>p. PICK p : p = NextPlace(d)
      OBVIOUS
    <2>1. NextX2(s, d, "HandoverRequest") /\ ~NoRntiLeft(d)
      BY <1>1 DEF AdmitHandoverRequest
    <2>2. CASE m.teid # 0 /\ x2uTeidInfo[d][m.teid] # 0
      BY <1>0, <1>1, <2>2, AbortUninvolved DEF AdmitHandoverRequest
    <2>3. CASE ~(m.teid # 0 /\ x2uTeidInfo[d][m.teid] # 0)
      <3>x. PICK x : x = [NewContext("HANDOVER_JOINING", [cell |-> s, rnti |-> m.old])
                              EXCEPT !.teid = m.teid, !.pending = (m.teid # 0)]
        OBVIOUS
      <3>1. /\ ctx' = [ctx EXCEPT ![p] = x]
            /\ lastRnti' = [lastRnti EXCEPT ![d] = p.rnti]
            /\ UNCHANGED <<conf, ue>> /\ UNCHANGED coreVars
        BY <1>0, <1>1, <2>p, <2>3, <3>x DEF AdmitHandoverRequest, ueVars
      <3>2. Arrived(s, d, "HandoverRequest") /\ m.old \in Rntis \cup {0} /\ m.teid \in Teids \cup {0}
        BY <1>0, <2>1, <3>1, NextArrives
      <3>3. p \in Places /\ p.cell = d /\ p.rnti = lastRnti[d] + 1
        BY <2>1, <2>p, <1>t, NextPlaceTypes
      <3>4. x.state = "HANDOVER_JOINING" /\ x.teid = m.teid
        BY <3>x DEF NewContext, NoContext
      <3>5. (\A q \in Places \ {p} : ctx'[q] = ctx[q]) /\ ctx'[p] = x
        BY <3>1, <3>3, <1>t
      <3>6. Fresh(p)
        BY <3>1, <3>3 DEF Fresh
      <3>7. ~Known(p) /\ ctx'[p].state = "HANDOVER_JOINING" /\ ctx'[p].teid = m.teid /\ ctx[p].state = "NONE"
        BY <1>t, <3>3, <3>4, <3>5, <3>6, FreshFacts DEF Base, Allocated, CtxAllocated
      <3>9. lastRnti'[d] = p.rnti /\ lastRnti'[d] # lastRnti[d]
        BY <3>1, <3>3, <1>t, BoundsAssumption DEF Rntis
      <3>a. Admits(s, d, p)
        <4>1. \/ Still \/ (\E w \in Places : Admits(s, d, w)) \/ Refuses(s, d)
              \/ \E v, w \in Places : Commands(s, d, v, w)
          BY <1>1, <1>t, PreparationEffects
        <4>2. ~Still /\ ~Refuses(s, d) /\ ~\E v, w \in Places : Commands(s, d, v, w)
          BY <3>7, <3>9 DEF Still, Refuses, Commands
        <4>3. PICK w \in Places : Admits(s, d, w)
          BY <4>1, <4>2
        <4>4. w = p
          BY <4>3, <3>3, PlaceTypes DEF Admits, Fresh
        <4> QED
          BY <4>3, <4>4
      <3>b. Joined(p)
        BY <1>0, <3>7, <3>a DEF Joined
      <3>8. UNCHANGED Core /\ \A q \in Places : Involves(q)
        BY <3>1, <3>3, <3>5, <3>6, <3>b, FreshInvolved DEF Core, coreVars
      <3> QED
        BY <3>1, <3>8 DEF CoreStepped, CoreEffect
    <2> QED
      BY <2>2, <2>3
  <1>2. ASSUME RefuseHandoverRequest(s, d) PROVE CoreStepped
    BY <1>2, Uninvolved DEF RefuseHandoverRequest, ueVars
  <1>3. ASSUME RecvHandoverRequestAck(s, d) PROVE CoreStepped
    <2>p. PICK p : p = [cell |-> d, rnti |-> m.old]
      OBVIOUS
    <2>q. PICK q : q = [cell |-> s, rnti |-> m.new]
      OBVIOUS
    <2>1. NextX2(s, d, "HandoverRequestAck")
      BY <1>3 DEF RecvHandoverRequestAck
    <2>2. CASE ~HasUeManager(p)
      BY <1>0, <1>3, <2>p, <2>2, AbortUninvolved DEF RecvHandoverRequestAck
    <2>3. CASE HasUeManager(p)
      <3>1. /\ ctx' = [ctx EXCEPT ![p].state = "HANDOVER_LEAVING", ![p].target = q,
                                  ![p].timers = @ \cup {"leaving"}]
            /\ UNCHANGED <<conf, ue>> /\ UNCHANGED coreVars
        BY <1>0, <1>3, <2>p, <2>q, <2>3 DEF RecvHandoverRequestAck, ueVars
      <3>2. p \in Places /\ ctx[p] \in Contexts /\ ctx[p].state # "NONE" /\ p.cell = d /\ p.rnti = m.old
        BY <2>3, <2>p, <1>t DEF HasUeManager
      <3>3. m \in Mail(x2[<<s, d>>]) /\ m.msg = "HandoverRequestAck" /\ s # d
        BY <1>0, <2>1, NextArrives
      <3>4. Preparing(p, s)
        BY <3>2, <3>3 DEF Base, Protocol, Agreed, Accepted, IsAck
      <3>x. PICK x : x = [ctx[p] EXCEPT !.state = "HANDOVER_LEAVING", !.target = q, !.timers = @ \cup {"leaving"}]
        OBVIOUS
      <3>5. ctx' = [ctx EXCEPT ![p] = x]
        BY <3>1, <3>2, <3>x, <1>t
      <3>6. x.teid = ctx[p].teid /\ x.state = "HANDOVER_LEAVING"
        BY <3>2, <3>x DEF Contexts
      <3>7. ctx[p].state = "HANDOVER_PREPARATION"
        BY <3>4 DEF Preparing
      <3> QED
        BY <3>1, <3>2, <3>5, <3>6, <3>7, SteadyInvolved
    <2> QED
      BY <2>2, <2>3
  <1> QED
    BY <1>1, <1>2, <1>3

(* The end of a handover.                                                  *)
LEMMA EndingInvolves ==
    ASSUME Base, NEW s \in Cells, NEW d \in Cells, <<s, d>> \in Links,
           RecvHandoverPreparationFailure(s, d) \/ RecvUeContextRelease(s, d) \/ RecvHandoverCancel(s, d)
    PROVE  CoreStepped
  <1>0. PICK m : m = Head(x2[<<s, d>>])
    OBVIOUS
  <1>t. ctx \in [Places -> Contexts] /\ TypeInv
    BY DEF Base, TypeInv, CellsTyped
  <1>1. ASSUME RecvHandoverPreparationFailure(s, d) PROVE CoreStepped
    <2>p. PICK p : p = [cell |-> d, rnti |-> m.old]
      OBVIOUS
    <2>s. PICK state : state = IF HasUeManager(p) THEN ctx[p].state ELSE "NONE"
      OBVIOUS
    <2>1. NextX2(s, d, "PreparationFailure")
      BY <1>1 DEF RecvHandoverPreparationFailure
    <2>2. CASE state = "NONE"
      BY <1>0, <1>1, <2>p, <2>s, <2>2, Uninvolved DEF RecvHandoverPreparationFailure, ueVars
    <2>3. CASE state = "HANDOVER_PREPARATION" /\ ctx[p].target.cell = s
      <3>1. ctx' = [ctx EXCEPT ![p] = ConnectedNormally(@)] /\ UNCHANGED <<conf, ue>> /\ UNCHANGED coreVars
        BY <1>0, <1>1, <2>p, <2>s, <2>3 DEF RecvHandoverPreparationFailure, ueVars
      <3>2. p \in Places /\ ctx[p] \in Contexts /\ ctx[p].state = "HANDOVER_PREPARATION"
        BY <2>s, <2>3, <1>t DEF HasUeManager
      <3>x. PICK x : x = ConnectedNormally(ctx[p])
        OBVIOUS
      <3>3. ctx' = [ctx EXCEPT ![p] = x]
        BY <3>1, <3>x
      <3>4. x.state \in {"CONNECTED_NORMALLY", "CONNECTION_RECONFIGURATION"}
        BY <3>x, <3>2, ConnectedTypes
      <3>5. x.teid = ctx[p].teid
        BY <3>x, <3>2 DEF ConnectedNormally, Contexts
      <3>6. x.state \notin {"NONE", "ATTACH_REQUEST", "HANDOVER_PATH_SWITCH"}
        BY <3>4
      <3> QED
        BY <3>1, <3>2, <3>3, <3>5, <3>6, SteadyInvolved
    <2>4. CASE state = "HANDOVER_LEAVING" /\ ctx[p].target.cell = s
      <3>1. RrcConnectionReleased(p) /\ UNCHANGED <<conf, ue>> /\ UNCHANGED <<sgw, pgw, s5, reply>>
        BY <1>0, <1>1, <2>p, <2>s, <2>4 DEF RecvHandoverPreparationFailure, ueVars
      <3>2. p \in Places /\ ctx[p].state = "HANDOVER_LEAVING"
        BY <2>s, <2>4 DEF HasUeManager
      <3>3. Settled
        BY <2>1, NextArrives
      <3>4. Raised(Rrc("Release", p))
        BY <3>1, <3>2, <3>3, <1>t, ReleaseEffects
      <3>5. Releasing'
        BY <3>2, <3>4, RrcTypes DEF Releasing, Due, Raised, RrcNames
      <3> QED
        BY <3>1, <3>2, <3>5, GoneInvolved DEF RrcConnectionReleased
    <2>5. CASE /\ state # "NONE" /\ ~(state = "HANDOVER_PREPARATION" /\ ctx[p].target.cell = s)
               /\ ~(state = "HANDOVER_LEAVING" /\ ctx[p].target.cell = s)
      BY <1>0, <1>1, <2>p, <2>s, <2>5, AbortUninvolved DEF RecvHandoverPreparationFailure
    <2> QED
      BY <2>2, <2>3, <2>4, <2>5
  <1>2. ASSUME RecvUeContextRelease(s, d) PROVE CoreStepped
    <2>p. PICK p : p = [cell |-> d, rnti |-> m.old]
      OBVIOUS
    <2>1. NextX2(s, d, "UeContextRelease")
      BY <1>2 DEF RecvUeContextRelease
    <2>2. CASE HasUeManager(p) /\ ctx[p].state # "HANDOVER_LEAVING"
      BY <1>0, <1>2, <2>p, <2>2, AbortUninvolved DEF RecvUeContextRelease
    <2>3. CASE ~HasUeManager(p)
      BY <1>0, <1>2, <2>p, <2>3, Uninvolved DEF RecvUeContextRelease, ueVars
    <2>4. CASE HasUeManager(p) /\ ctx[p].state = "HANDOVER_LEAVING"
      <3>1. RemoveUe(p) /\ UNCHANGED <<conf, ue>> /\ UNCHANGED coreVars
        BY <1>0, <1>2, <2>p, <2>4 DEF RecvUeContextRelease, ueVars
      <3>2. p \in Places /\ p.cell = d /\ p.rnti = m.old
        BY <2>p, <2>4 DEF HasUeManager
      <3>3. m \in Mail(x2[<<s, d>>]) /\ m.msg = "UeContextRelease" /\ s # d
        BY <1>0, <2>1, NextArrives
      <3>4. Released(p)
        BY <3>2, <3>3 DEF Released, Told
      <3>5. UNCHANGED <<sgw, pgw, s5, reply>> /\ UNCHANGED s11
        BY <3>1 DEF coreVars
      <3> QED
        BY <2>4, <3>1, <3>2, <3>4, <3>5, GoneInvolved
    <2> QED
      BY <2>2, <2>3, <2>4
  <1>3. ASSUME RecvHandoverCancel(s, d) PROVE CoreStepped
    <2>p. PICK p : p = [cell |-> d, rnti |-> m.new]
      OBVIOUS
    <2>1. NextX2(s, d, "HandoverCancel")
      BY <1>3 DEF RecvHandoverCancel
    <2>2. CASE HasUeManager(p) /\ ctx[p].state # "HANDOVER_JOINING"
      BY <1>0, <1>3, <2>p, <2>2, AbortUninvolved DEF RecvHandoverCancel
    <2>3. CASE ~HasUeManager(p)
      BY <1>0, <1>3, <2>p, <2>3, Uninvolved DEF RecvHandoverCancel, ueVars, coreVars
    <2>4. CASE HasUeManager(p) /\ ctx[p].state = "HANDOVER_JOINING"
      <3>1. /\ ctx' = [ctx EXCEPT ![p].timers = @ \ {"joining"}] /\ ReleaseBearers(p)
            /\ UNCHANGED <<conf, ue>> /\ UNCHANGED <<sgw, pgw, s5, reply, mmeCell>>
        BY <1>0, <1>3, <2>p, <2>4 DEF RecvHandoverCancel, ueVars
      <3>2. p \in Places /\ ctx[p] \in Contexts
        BY <2>4, <1>t DEF HasUeManager
      <3>3. m \in Mail(x2[<<s, d>>]) /\ m.msg = "HandoverCancel" /\ s # d
        BY <1>0, <2>1, NextArrives
      <3>4. Carried("HandoverCancel")
        BY <3>3 DEF Carried
      <3>x. PICK x : x = [ctx[p] EXCEPT !.timers = @ \ {"joining"}]
        OBVIOUS
      <3>5. ctx' = [ctx EXCEPT ![p] = x]
        BY <3>1, <3>2, <3>x, <1>t
      <3>6. x.teid = ctx[p].teid /\ x.state = ctx[p].state
        BY <3>2, <3>x DEF Contexts
      <3>7. Involves(p)
        BY <3>1, <3>2, <3>5, <3>6, <2>4, SteadyInvolved
      <3>8. UNCHANGED Core \/ Deletes(p)
        BY <2>4, <3>1, <3>4 DEF ReleaseBearers, Core, Deletes, Sends
      <3>9. \A q \in Places \ {p} : ctx'[q] = ctx[q]
        BY <3>2, <3>5, <1>t
      <3> QED
        BY <3>1, <3>2, <3>7, <3>8, <3>9, OneInvolved DEF CoreStepped, CoreEffect
    <2> QED
      BY <2>2, <2>3, <2>4
  <1> QED
    BY <1>1, <1>2, <1>3

(* The timers.                                                             *)
LEMMA TimerInvolves ==
    ASSUME Base, NEW p \in Places, TimerStep(p)
    PROVE  CoreStepped
  <1>t. TypeInv
    BY DEF Base
  <1>1. ASSUME NEW timer \in {"request", "setup", "rejected"}, ConnectionTimersExpire(p, timer)
        PROVE  CoreStepped
    <2>1. CASE ctx[p].state # TimerState[timer]
      BY <1>1, <2>1, AbortUninvolved DEF ConnectionTimersExpire
    <2>2. CASE ctx[p].state = TimerState[timer]
      <3>1. RemoveUe(p) /\ UNCHANGED <<conf, ue>> /\ UNCHANGED <<sgw, pgw, s5, reply>> /\ UNCHANGED s11
        BY <1>1, <2>2 DEF ConnectionTimersExpire, ueVars, coreVars
      <3>2. ctx[p].state \in {"INITIAL_RANDOM_ACCESS", "CONNECTION_SETUP", "CONNECTION_REJECTED"}
        BY <2>2 DEF TimerState
      <3>3. ctx[p].state \notin Up \cup {"HANDOVER_LEAVING", "NONE"}
        BY <3>2 DEF Up
      <3> QED
        BY <3>1, <3>3, GoneInvolved
    <2> QED
      BY <2>1, <2>2
  <1>2. ASSUME HandoverJoiningTimeout(p) PROVE CoreStepped
    <2>1. CASE ctx[p].state # TimerState["joining"]
      BY <1>2, <2>1, AbortUninvolved DEF HandoverJoiningTimeout
    <2>2. CASE ctx[p].state = TimerState["joining"]
      <3>1. RemoveUe(p) /\ UNCHANGED <<conf, ue>> /\ UNCHANGED <<sgw, pgw, s5, reply>> /\ UNCHANGED s11
        BY <1>2, <2>2 DEF HandoverJoiningTimeout, ueVars, coreVars
      <3>2. ctx[p].state \notin Up \cup {"HANDOVER_LEAVING", "NONE"}
        BY <2>2 DEF TimerState, Up
      <3> QED
        BY <3>1, <3>2, GoneInvolved
    <2> QED
      BY <2>1, <2>2
  <1>3. ASSUME HandoverLeavingTimeout(p) PROVE CoreStepped
    <2>1. CASE ctx[p].state # TimerState["leaving"]
      BY <1>3, <2>1, AbortUninvolved DEF HandoverLeavingTimeout
    <2>2. CASE ctx[p].state = TimerState["leaving"]
      <3>1. Settled /\ RrcConnectionReleased(p) /\ UNCHANGED <<conf, ue>> /\ UNCHANGED <<sgw, pgw, s5, reply>>
        BY <1>3, <2>2 DEF HandoverLeavingTimeout, ueVars
      <3>2. ctx[p].state = "HANDOVER_LEAVING"
        BY <2>2 DEF TimerState
      <3>3. Raised(Rrc("Release", p))
        BY <3>1, <1>t, ReleaseEffects
      <3>4. Releasing'
        BY <3>3, RrcTypes DEF Releasing, Due, Raised, RrcNames
      <3> QED
        BY <3>1, <3>2, <3>4, GoneInvolved DEF RrcConnectionReleased
    <2> QED
      BY <2>1, <2>2
  <1> QED
    BY <1>1, <1>2, <1>3 DEF TimerStep

(* The SGW and the PGW.                                                    *)
LEMMA GatewaysInvolve ==
    ASSUME Base, SgwRecvFromMme \/ PgwRecvFromSgw
    PROVE  CoreStepped
  <1>t. /\ s11 \in Seq(CoreMsgs) /\ s5 \in Seq(Requests) /\ Count \in Teids \cup {0}
    BY DEF Base, TypeInv, CoreTyped, Count
  <1>f. ASSUME Still, UNCHANGED conf, SgwMoves \/ PgwMoves PROVE CoreStepped
    BY <1>f, OneInvolved DEF CoreStepped, CoreEffect, Still
  <1>1. ASSUME SgwRecvFromMme PROVE CoreStepped
    <2>0. PICK m : m = Head(s11)
      OBVIOUS
    <2>n. PICK n : n = Count + 1
      OBVIOUS
    <2>1. /\ Settled /\ s11 # <<>> /\ s11' = Tail(s11) /\ UNCHANGED <<pgw, reply>> /\ Still /\ UNCHANGED conf
          /\ m.msg = "CreateSessionRequest" => Count < MaxAttach
          /\ sgw' = CASE m.msg = "CreateSessionRequest" ->
                             [teidCount |-> n, enb |-> [sgw.enb EXCEPT ![n] = m.cell]]
                      [] m.msg = "ModifyBearerRequest" ->
                             [sgw EXCEPT !.enb[m.teid] = m.cell]
                      [] OTHER -> sgw
          /\ s5' = Append(s5, IF m.msg = "CreateSessionRequest" THEN [m EXCEPT !.teid = n] ELSE m)
      BY <1>1, <2>0, <2>n DEF SgwRecvFromMme, Still, ueVars, Count
    <2>2. m \in CoreMsgs /\ Calm
      BY <2>0, <2>1, <1>t DEF Settled, Calm
    <2>3. m.msg = "CreateSessionRequest" => n \in Teids
      BY <2>1, <2>n, <1>t, BoundsAssumption DEF Teids
    <2>4. CASE m.msg = "CreateSessionRequest"
      <3>1. /\ sgw' = [teidCount |-> n, enb |-> [sgw.enb EXCEPT ![n] = m.cell]]
            /\ s5' = Append(s5, [m EXCEPT !.teid = n])
        BY <2>1, <2>4
      <3> QED
        BY <2>0, <2>n, <2>1, <2>2, <2>3, <2>4, <3>1, <1>f DEF SgwMoves
    <2>5. CASE m.msg = "ModifyBearerRequest"
      <3>1. sgw' = [sgw EXCEPT !.enb[m.teid] = m.cell] /\ s5' = Append(s5, m)
        BY <2>1, <2>5
      <3> QED
        BY <2>0, <2>1, <2>2, <2>5, <3>1, <1>f DEF SgwMoves
    <2>6. CASE m.msg \notin {"CreateSessionRequest", "ModifyBearerRequest"}
      <3>1. UNCHANGED sgw /\ s5' = Append(s5, m)
        BY <2>1, <2>6
      <3> QED
        BY <2>0, <2>1, <2>2, <2>6, <3>1, <1>f DEF SgwMoves
    <2> QED
      BY <2>4, <2>5, <2>6
  <1>2. ASSUME PgwRecvFromSgw PROVE CoreStepped
    <2>0. PICK m : m = Head(s5)
      OBVIOUS
    <2>1. /\ Settled /\ s5 # <<>> /\ s5' = Tail(s5) /\ UNCHANGED <<sgw, s11>> /\ Still /\ UNCHANGED conf
          /\ pgw' = CASE m.msg = "CreateSessionRequest" ->
                             [bearer |-> m.teid, tfts |-> pgw.tfts \cup {m.teid}]
                      [] m.msg = "DeleteBearerResponse" ->
                             [bearer |-> 0, tfts |-> pgw.tfts \ {pgw.bearer}]
                      [] OTHER -> pgw
          /\ reply' = CASE m.msg = "CreateSessionRequest" ->
                               Append(reply, Gtpc("CreateSessionResponse", 0, m.teid))
                        [] m.msg = "ModifyBearerRequest" ->
                               Append(reply, Gtpc("ModifyBearerResponse", 0, 0))
                        [] m.msg = "DeleteBearerCommand" ->
                               Append(reply, Gtpc("DeleteBearerRequest", 0, 0))
                        [] OTHER -> reply
      BY <1>2, <2>0 DEF PgwRecvFromSgw, Still, ueVars
    <2>2. m \in CoreMsgs /\ Calm
      BY <2>0, <2>1, <1>t DEF Settled, Calm, Requests
    <2>3. CASE m.msg = "CreateSessionRequest"
      <3>1. /\ pgw' = [bearer |-> m.teid, tfts |-> pgw.tfts \cup {m.teid}]
            /\ reply' = Append(reply, Gtpc("CreateSessionResponse", 0, m.teid))
        BY <2>1, <2>3
      <3> QED
        BY <2>0, <2>1, <2>2, <2>3, <3>1, <1>f DEF PgwMoves
    <2>4. CASE m.msg = "ModifyBearerRequest"
      <3>1. UNCHANGED pgw /\ reply' = Append(reply, Gtpc("ModifyBearerResponse", 0, 0))
        BY <2>1, <2>4
      <3> QED
        BY <2>0, <2>1, <2>2, <2>4, <3>1, <1>f DEF PgwMoves
    <2>5. CASE m.msg = "DeleteBearerCommand"
      <3>1. UNCHANGED pgw /\ reply' = Append(reply, Gtpc("DeleteBearerRequest", 0, 0))
        BY <2>1, <2>5
      <3> QED
        BY <2>0, <2>1, <2>2, <2>5, <3>1, <1>f DEF PgwMoves
    <2>6. CASE m.msg = "DeleteBearerResponse"
      <3>1. UNCHANGED reply /\ pgw' = [bearer |-> 0, tfts |-> pgw.tfts \ {pgw.bearer}]
        BY <2>1, <2>6
      <3> QED
        BY <2>0, <2>1, <2>2, <2>6, <3>1, <1>f DEF PgwMoves
    <2>7. CASE m.msg \in {"CreateSessionResponse", "ModifyBearerResponse", "DeleteBearerRequest"}
      <3>1. UNCHANGED reply /\ UNCHANGED pgw
        BY <2>1, <2>7
      <3> QED
        BY <2>0, <2>1, <2>2, <2>7, <3>1, <1>f DEF PgwMoves
    <2>8. m.msg \in CoreNames
      BY <2>2 DEF CoreMsgs
    <2> QED
      BY <2>3, <2>4, <2>5, <2>6, <2>7, <2>8 DEF CoreNames
  <1> QED
    BY <1>1, <1>2

(* The MME.                                                                *)
LEMMA MmeInvolves ==
    ASSUME Base,
           MmeRecvCreateSessionResponse \/ MmeRecvModifyBearerResponse \/ MmeRecvDeleteBearerRequest
    PROVE  CoreStepped
  <1>t. ctx \in [Places -> Contexts]
    BY DEF Base, TypeInv, CellsTyped
  <1>p. PICK p : p = [cell |-> mmeCell, rnti |-> app[mmeCell].imsiRnti]
    OBVIOUS
  <1>1. ASSUME MmeRecvCreateSessionResponse PROVE CoreStepped
    <2>e. PICK te : te = Head(reply).teid
      OBVIOUS
    <2>1. CASE ~(HasUeManager(p) /\ ctx[p].teid = 0 /\ ctx[p].state = "ATTACH_REQUEST")
      BY <1>1, <1>p, <2>1, AbortUninvolved DEF MmeRecvCreateSessionResponse
    <2>2. CASE HasUeManager(p) /\ ctx[p].teid = 0 /\ ctx[p].state = "ATTACH_REQUEST"
      <3>1. /\ ctx' = [ctx EXCEPT ![p].state = "CONNECTION_RECONFIGURATION", ![p].teid = te]
            /\ Takes("CreateSessionResponse") /\ UNCHANGED s11 /\ UNCHANGED <<conf, ue>>
        BY <1>1, <1>p, <2>e, <2>2 DEF MmeRecvCreateSessionResponse, ueVars, Takes, Settled, Calm
      <3>2. p \in Places /\ ctx[p] \in Contexts
        BY <2>2, <1>t DEF HasUeManager
      <3>3. /\ \A q \in Places \ {p} : ctx'[q] = ctx[q]
            /\ ctx'[p].state = "CONNECTION_RECONFIGURATION" /\ ctx'[p].teid = te
        BY <3>1, <3>2, <1>t DEF Contexts
      <3>4. Answers(p)
        BY <3>1, <3>3, <2>e, <2>2 DEF Answers
      <3>5. Involves(p)
        BY <3>3, <3>4, <2>2 DEF Involves, Up
      <3> QED
        BY <3>1, <3>2, <3>3, <3>4, <3>5, OneInvolved DEF CoreStepped, CoreEffect
    <2> QED
      BY <2>1, <2>2
  <1>2. ASSUME MmeRecvModifyBearerResponse PROVE CoreStepped
    <2>1. CASE ~(HasUeManager(p) /\ ctx[p].state = "HANDOVER_PATH_SWITCH")
      BY <1>2, <1>p, <2>1, AbortUninvolved DEF MmeRecvModifyBearerResponse
    <2>2. CASE HasUeManager(p) /\ ctx[p].state = "HANDOVER_PATH_SWITCH"
      <3>1. /\ ctx' = [ctx EXCEPT ![p] = ConnectedNormally(@)]
            /\ Takes("ModifyBearerResponse") /\ UNCHANGED s11 /\ UNCHANGED <<conf, ue>>
        BY <1>2, <1>p, <2>2 DEF MmeRecvModifyBearerResponse, ueVars, Takes, Settled, Calm
      <3>2. p \in Places /\ ctx[p] \in Contexts
        BY <2>2, <1>t DEF HasUeManager
      <3>x. PICK x : x = ConnectedNormally(ctx[p])
        OBVIOUS
      <3>3. ctx' = [ctx EXCEPT ![p] = x]
        BY <3>1, <3>x
      <3>4. x.state \in {"CONNECTED_NORMALLY", "CONNECTION_RECONFIGURATION"}
        BY <3>x, <3>2, ConnectedTypes
      <3>5. x.teid = ctx[p].teid
        BY <3>x, <3>2 DEF ConnectedNormally, Contexts
      <3>6. (\A q \in Places \ {p} : ctx'[q] = ctx[q]) /\ ctx'[p] = x
        BY <3>2, <3>3, <1>t
      <3>7. Acknowledges(p)
        BY <3>1, <3>4, <3>6, <2>2 DEF Acknowledges
      <3>8. x.state \notin {"NONE", "ATTACH_REQUEST", "HANDOVER_PATH_SWITCH"}
        BY <3>4
      <3>9. Involves(p)
        BY <3>1, <3>2, <3>3, <3>5, <3>7, <3>8, <2>2, SteadyInvolved
      <3> QED
        BY <3>1, <3>2, <3>6, <3>7, <3>9, OneInvolved DEF CoreStepped, CoreEffect
    <2> QED
      BY <2>1, <2>2
  <1>3. ASSUME MmeRecvDeleteBearerRequest PROVE CoreStepped
    <2>1. MmeMoves /\ UNCHANGED conf
      BY <1>3 DEF MmeRecvDeleteBearerRequest, MmeMoves, Still, ueVars, Takes, Settled, Calm
    <2> QED
      BY <2>1, OneInvolved DEF CoreStepped, CoreEffect, MmeMoves, Still
  <1> QED
    BY <1>1, <1>2, <1>3

(* Downlink data.                                                          *)
LEMMA DataInvolves ==
    ASSUME Base, SendDownlink \/ RecvFromS1u \/ \E s, d \in Cells : RecvUeData(s, d)
    PROVE  CoreStepped
  <1>t. ctx \in [Places -> Contexts]
    BY DEF Base, TypeInv, CellsTyped
  <1>d. ASSUME NEW p, NEW y, NEW k, SendData(p, y, k) PROVE CoreStepped
    <2>1. CASE ~HasUeManager(p) \/ ctx[p].state \in {"ATTACH_REQUEST", "CONNECTION_REJECTED"}
      BY <1>d, <2>1, AbortUninvolved DEF SendData
    <2>2. CASE HasUeManager(p) /\ ctx[p].state \notin {"ATTACH_REQUEST", "CONNECTION_REJECTED", "HANDOVER_JOINING"}
      BY <1>d, <2>2, Uninvolved DEF SendData, ueVars
    <2>3. CASE HasUeManager(p) /\ ctx[p].state = "HANDOVER_JOINING"
      <3>1. ctx' = [ctx EXCEPT ![p].buffer = @ + 1] /\ UNCHANGED <<conf, ue>> /\ UNCHANGED coreVars
        BY <1>d, <2>3 DEF SendData, ueVars
      <3>2. p \in Places /\ ctx[p] \in Contexts
        BY <2>3, <1>t DEF HasUeManager
      <3>x. PICK x : x = [ctx[p] EXCEPT !.buffer = @ + 1]
        OBVIOUS
      <3>3. ctx' = [ctx EXCEPT ![p] = x]
        BY <3>1, <3>2, <3>x, <1>t
      <3>4. x.teid = ctx[p].teid /\ x.state = ctx[p].state
        BY <3>2, <3>x DEF Contexts
      <3> QED
        BY <3>1, <3>2, <3>3, <3>4, <2>3, SteadyInvolved
    <2> QED
      BY <2>1, <2>2, <2>3
  <1>1. ASSUME SendDownlink PROVE CoreStepped
    BY <1>1, Uninvolved DEF SendDownlink, ueVars
  <1>2. ASSUME RecvFromS1u PROVE CoreStepped
    BY <1>2, <1>d, Uninvolved DEF RecvFromS1u, ueVars
  <1>3. ASSUME NEW s \in Cells, NEW d \in Cells, RecvUeData(s, d) PROVE CoreStepped
    BY <1>3, <1>d, AbortUninvolved DEF RecvUeData
  <1> QED
    BY <1>1, <1>2, <1>3

(***************************************************************************)
(* Every step does in the core network what the contexts say.              *)
(***************************************************************************)
LEMMA CoreSteps ==
    ASSUME Base, [Next]_vars
    PROVE  CoreStepped
  <1>1. CASE UNCHANGED vars \/ Ended
    BY <1>1, Uninvolved DEF vars, ueVars, Ended
  <1>2. CASE UeStep
    BY <1>2, UeInvolves
  <1>3. CASE RrcStep
    BY <1>3, DownInvolves, UpInvolves, RemoveInvolves DEF RrcStep, Channels
  <1>4. CASE \E p \in Places, c \in Cells : PrepareHandover(p, c)
    BY <1>4, PrepareInvolves
  <1>5. CASE \E l \in Links : X2Step(l[1], l[2])
    <2>1. PICK l \in Links : X2Step(l[1], l[2])
      BY <1>5
    <2>s. PICK s : s = l[1]
      OBVIOUS
    <2>d. PICK d : d = l[2]
      OBVIOUS
    <2>2. s \in Cells /\ d \in Cells /\ <<s, d>> \in Links /\ X2Step(s, d)
      BY <2>1, <2>s, <2>d DEF Links
    <2>3. CASE AdmitHandoverRequest(s, d) \/ RefuseHandoverRequest(s, d) \/ RecvHandoverRequestAck(s, d)
      BY <2>2, <2>3, PreparationInvolves
    <2>4. CASE RecvHandoverPreparationFailure(s, d) \/ RecvUeContextRelease(s, d) \/ RecvHandoverCancel(s, d)
      BY <2>2, <2>4, EndingInvolves
    <2>5. CASE RecvUeData(s, d)
      BY <2>2, <2>5, DataInvolves
    <2> QED
      BY <2>2, <2>3, <2>4, <2>5 DEF X2Step
  <1>6. CASE \E p \in Places : TimerStep(p)
    BY <1>6, TimerInvolves
  <1>7. CASE CoreStep
    BY <1>7, GatewaysInvolve, MmeInvolves DEF CoreStep
  <1>8. CASE SendDownlink \/ RecvFromS1u
    BY <1>8, DataInvolves
  <1> QED
    BY <1>1, <1>2, <1>3, <1>4, <1>5, <1>6, <1>7, <1>8 DEF Next

(***************************************************************************)
(* What becomes of contexts and X2 messages.                               *)
(***************************************************************************)

\* A context goes through its states; one that expects the UE and goes tells
\* the source so, and one that the path was switched to does.
Settling == {"CONNECTED_NORMALLY", "CONNECTION_RECONFIGURATION"}
Follows(p) ==
    /\ ctx[p].state \in InPlace => ctx'[p].state \in InPlace \cup Left
    /\ ctx[p].state = "HANDOVER_PATH_SWITCH" =>
          ctx'[p].state \in {"HANDOVER_PATH_SWITCH", "NONE"} \/ (ctx'[p].state \in Settling /\ Switches(p))
    /\ ctx[p].state = "HANDOVER_LEAVING" =>
          ctx'[p].state = "NONE" \/ (ctx'[p].state = "HANDOVER_LEAVING" /\ ctx'[p].target = ctx[p].target)
    /\ ctx[p].state = "HANDOVER_JOINING" =>
          ctx'[p].state \in {"HANDOVER_JOINING", "HANDOVER_PATH_SWITCH"} \/ (ctx'[p].state = "NONE" /\ Refusal(p))
    /\ ctx[p].state = "INITIAL_RANDOM_ACCESS" =>
          \/ ctx'[p].state \in {"INITIAL_RANDOM_ACCESS", "CONNECTION_REJECTED", "NONE"}
          \/ /\ ctx'[p].state = "CONNECTION_SETUP" /\ UNCHANGED ue
             /\ \E m \in Msgs(rrc) : m.msg = "ConnectionRequest" /\ m.at = p
    /\ ctx[p].state = "CONNECTION_SETUP" => ctx'[p].state \in {"CONNECTION_SETUP", "ATTACH_REQUEST", "NONE"}
    /\ ctx[p].state = "CONNECTION_REJECTED" => ctx'[p].state \in {"CONNECTION_REJECTED", "NONE"}
    /\ ctx[p].state = "ATTACH_REQUEST" => ctx'[p].state \in {"ATTACH_REQUEST", "NONE"} \cup Settling
    /\ ctx[p].state = "NONE" =>
          ctx'[p].state = "NONE" \/ (~Known(p) /\ ctx'[p].state \in {"INITIAL_RANDOM_ACCESS", "HANDOVER_JOINING"})
    /\ ctx[p].state # "NONE" /\ ctx'[p].state # "NONE" => ctx'[p].source = ctx[p].source
    /\ ctx'[p].state = "HANDOVER_LEAVING" =>
          ctx[p].state = "HANDOVER_LEAVING" \/ \E s, d \in Cells, q \in Places : Commands(s, d, p, q)

(* Nothing else happens to a context.                                      *)
LEMMA AllFollow ==
    ASSUME Base, Effects
    PROVE  \A p \in Places : Follows(p)
  <1> DEFINE Goal == \A p \in Places : Follows(p)
  <1>o. ASSUME NEW q \in Places, ctx'[q] = ctx[q] PROVE Follows(q)
    BY <1>o DEF Follows, InPlace, Up, Settling
  <1>u. ASSUME UNCHANGED ctx PROVE Goal
    BY <1>u, <1>o
  <1>p. ASSUME NEW p, NEW state, NEW source, NEW target, NEW timers,
               Turned(ctx, ctx', p, state, source, target, timers), p \in Places => Follows(p)
        PROVE  Goal
    BY <1>p, <1>o DEF Turned
  <1>g. ASSUME NEW p, Gone(p), ctx[p].state = "HANDOVER_JOINING" => Refusal(p) PROVE Goal
    <2>1. ctx'[p].state = "NONE"
      BY <1>g DEF Gone, Turned
    <2>2. Follows(p)
      BY <2>1, <1>g DEF Follows, Left
    <2> QED
      BY <2>2, <1>g, <1>p DEF Gone
  <1>f. ASSUME NEW p, NEW state, NEW q, NEW timers, Fresh(p), Turned(ctx, ctx', p, state, q, Nowhere, timers),
               state \in {"INITIAL_RANDOM_ACCESS", "HANDOVER_JOINING"}
        PROVE  Goal
    <2>1. p \in Places /\ ~Known(p)
      BY <1>f, FreshFacts DEF Base
    <2>2. ctx[p].state = "NONE"
      BY <2>1 DEF Base, Allocated, CtxAllocated
    <2>3. ctx'[p].state = state
      BY <1>f DEF Turned
    <2>4. Follows(p)
      BY <2>1, <2>2, <2>3, <1>f DEF Follows, InPlace, Up
    <2> QED
      BY <2>4, <1>f, <1>p
  <1>j. ASSUME NEW p, NEW timers, Enters(p, {"HANDOVER_JOINING"}, "HANDOVER_JOINING", timers) PROVE Goal
    <2>1. /\ ctx[p].state = "HANDOVER_JOINING" /\ ctx'[p].state = "HANDOVER_JOINING" /\ ctx'[p].source = ctx[p].source
      BY <1>j DEF Enters, Turned
    <2>2. Follows(p)
      BY <2>1 DEF Follows, InPlace, Up
    <2> QED
      BY <2>2, <1>j, <1>p DEF Enters
  <1>c. ASSUME NEW p, NEW states, Continues(p, states),
               \/ states = {"HANDOVER_PATH_SWITCH"} /\ Switches(p)
               \/ states \subseteq {"ATTACH_REQUEST", "CONNECTION_RECONFIGURATION", "HANDOVER_PREPARATION"}
        PROVE  Goal
    <2>1. PICK state, timers :
             /\ Turned(ctx, ctx', p, state, ctx[p].source, ctx[p].target, timers)
             /\ ctx[p].state \in states /\ state \in Settling
      BY <1>c DEF Continues, Enters, Settling
    <2>2. ctx'[p].state = state /\ ctx'[p].source = ctx[p].source
      BY <2>1 DEF Turned
    <2>3. Follows(p)
      BY <2>1, <2>2, <1>c DEF Follows, InPlace, Up, Settling
    <2>4. PICK source : source = ctx[p].source
      OBVIOUS
    <2>5. PICK target : target = ctx[p].target
      OBVIOUS
    <2> QED
      BY <2>1, <2>3, <2>4, <2>5, <1>p
  <1>1. CASE UeEffect
    BY <1>1, <1>u, <1>f DEF UeEffect, Still, Selecting, Accessing, Arriving, Leaves
  <1>2. CASE RrcEffect
    <2>1. PICK m \in RrcMsgs :
             \/ Connecting(m) \/ Rejected(m) \/ Commanded(m) \/ Replying(m) \/ Dropping(m)
             \/ Admitting(m) \/ Completing(m) \/ Reconfigures(m) \/ Removed(m)
      BY <1>2 DEF RrcEffect
    <2>p. PICK p : p = m.at
      OBVIOUS
    <2>2. CASE Admitting(m)
      <3>1. PICK state, timers : Enters(p, {"INITIAL_RANDOM_ACCESS"}, state, timers)
                /\ state \in {"CONNECTION_SETUP", "CONNECTION_REJECTED"} /\ UNCHANGED ue
                /\ m \in Msgs(rrc) /\ m.msg = "ConnectionRequest"
        BY <2>2, <2>p DEF Admitting, Heard
      <3>2. ctx[p].state = "INITIAL_RANDOM_ACCESS" /\ ctx'[p].state = state /\ ctx'[p].source = ctx[p].source
        BY <3>1 DEF Enters, Turned
      <3>3. Follows(p)
        BY <3>1, <3>2, <2>p DEF Follows, InPlace, Up
      <3> QED
        BY <3>1, <3>3, <1>p DEF Enters
    <2>3. CASE Completing(m)
      <3>1. PICK states, state : Enters(p, states, state, {})
                /\ \/ states = {"CONNECTION_SETUP"} /\ state = "ATTACH_REQUEST"
                   \/ states = {"HANDOVER_JOINING"} /\ state = "HANDOVER_PATH_SWITCH"
        BY <2>3, <2>p DEF Completing
      <3>2. ctx[p].state \in states /\ ctx'[p].state = state /\ ctx'[p].source = ctx[p].source
        BY <3>1 DEF Enters, Turned
      <3>3. Follows(p)
        BY <3>1, <3>2 DEF Follows, InPlace, Up
      <3> QED
        BY <3>1, <3>3, <1>p DEF Enters
    <2>4. CASE Reconfigures(m)
      BY <2>4, <1>c DEF Reconfigures
    <2>5. CASE Removed(m)
      BY <2>5, <1>g DEF Removed
    <2> QED
      BY <2>1, <2>2, <2>3, <2>4, <2>5, <1>u DEF Connecting, Rejected, Commanded, Replying, Dropping
  <1>3. CASE X2Effect
    <2>1. PICK s, d \in Cells :
             \/ \E p \in Places : Admits(s, d, p)
             \/ Refuses(s, d)
             \/ \E p, q \in Places : Commands(s, d, p, q)
             \/ \E p \in Spots : Fails(s, d, p) \/ Ends(s, d, p)
             \/ Cancels(s, d)
      BY <1>3 DEF X2Effect
    <2>2. ASSUME NEW p, Admits(s, d, p) PROVE Goal
      BY <2>2, <1>f DEF Admits
    <2>3. ASSUME NEW p \in Places, NEW q \in Places, Commands(s, d, p, q) PROVE Goal
      <3>1. ctx[p].state = "HANDOVER_PREPARATION"
        BY <2>3, CommandsKeeps DEF Base, Preparing
      <3>2. PICK timers : Turned(ctx, ctx', p, "HANDOVER_LEAVING", ctx[p].source, q, timers)
        BY <2>3 DEF Commands
      <3>3. ctx'[p].state = "HANDOVER_LEAVING" /\ ctx'[p].source = ctx[p].source
        BY <3>2 DEF Turned
      <3>4. Follows(p)
        BY <3>1, <3>3, <2>3 DEF Follows, InPlace, Up, Left
      <3> QED
        BY <3>2, <3>4, <1>p
    <2>4. ASSUME NEW p, Fails(s, d, p) PROVE Goal
      BY <2>4, <1>u, <1>c, <1>g DEF Fails
    <2>5. ASSUME NEW p, Ends(s, d, p) PROVE Goal
      BY <2>5, <1>u, <1>g DEF Ends
    <2>6. CASE Cancels(s, d)
      BY <2>6, <1>u, <1>j DEF Cancels
    <2>7. CASE Refuses(s, d)
      BY <2>7, <1>u DEF Refuses
    <2> QED
      BY <2>1, <2>2, <2>3, <2>4, <2>5, <2>6, <2>7
  <1>4. CASE PlaceEffect
    <2>1. PICK p \in Places :
             \/ \E c \in Cells : Prepares(p, c)
             \/ Times(p) \/ TimesJoining(p) \/ TimesLeaving(p) \/ SetsUp(p) \/ Switches(p)
      BY <1>4 DEF PlaceEffect
    <2>2. ASSUME NEW c \in Cells, Prepares(p, c) PROVE Goal
      <3>1. PICK target, timers :
               Turned(ctx, ctx', p, "HANDOVER_PREPARATION", ctx[p].source, target, timers)
        BY <2>2 DEF Prepares
      <3>2. ctx[p].state = "CONNECTED_NORMALLY" /\ ctx'[p].state = "HANDOVER_PREPARATION" /\ ctx'[p].source = ctx[p].source
        BY <2>2, <3>1 DEF Prepares, Turned
      <3>3. Follows(p)
        BY <3>2 DEF Follows, InPlace, Up
      <3> QED
        BY <3>1, <3>3, <1>p
    <2>3. CASE SetsUp(p) \/ Switches(p)
      BY <2>3, <1>c DEF SetsUp, Switches
    <2>4. CASE Times(p) \/ TimesJoining(p) \/ TimesLeaving(p)
      BY <2>4, <1>g DEF Times, TimesJoining, TimesLeaving
    <2> QED
      BY <2>1, <2>2, <2>3, <2>4
  <1>5. CASE Forwards
    BY <1>5, <1>u, <1>j DEF Forwards
  <1> QED
    BY <1>1, <1>2, <1>3, <1>4, <1>5 DEF Effects

\* What is sent over X2 of a preparation: a request by a context that prepares,
\* an acknowledgement by one that is created for a request, a cancellation by
\* one that has waited too long.
NewAsk(s, d, m) ==
    /\ m.msg = "HandoverRequest" => \E p \in Places : Prepares(p, d) /\ p.cell = s /\ m.teid = ctx[p].teid
    /\ m.msg = "HandoverRequestAck" =>
          /\ Carried("HandoverRequest")
          /\ \E q \in Places :
                /\ q.cell = s /\ q.rnti = m.new /\ ctx'[q].state = "HANDOVER_JOINING"
                /\ ctx'[q].source = [cell |-> d, rnti |-> m.old]
    /\ m.msg = "HandoverCancel" => \E p \in Places : TimesLeaving(p)
AskMoves == \A s, d \in Cells : s # d =>
    \A m \in Mail(x2'[<<s, d>>]) : m \in Mail(x2[<<s, d>>]) \/ NewAsk(s, d, m)
\* An answer stays under way until it is received.
Delivered(s, d, m) ==
    /\ m.msg = "HandoverRequestAck" => \E p, q \in Places : Commands(s, d, p, q) /\ p.rnti = m.old
    /\ m.msg = "PreparationFailure" => \E p \in Spots : Fails(s, d, p) /\ p.rnti = m.old
    /\ m.msg = "UeContextRelease" => \E p \in Spots : Ends(s, d, p) /\ p.rnti = m.old
MailStays == \A s, d \in Cells : s # d =>
    \A m \in Mail(x2[<<s, d>>]) : m \in Mail(x2'[<<s, d>>]) \/ Delivered(s, d, m)

(* Nothing else is asked over X2.                                          *)
LEMMA AsksMove ==
    ASSUME TypeInv, Allocated, Effects
    PROVE  AskMoves
  <1>t. x2 \in [Links -> Seq(X2Msgs)] /\ ctx \in [Places -> Contexts]
    BY DEF TypeInv, LinksTyped, CellsTyped
  <1>l. \A s, d \in Cells : s # d => <<s, d>> \in Links
    BY DEF Links
  <1>u. ASSUME \A k \in Links : Mail(x2'[k]) \subseteq Mail(x2[k]) PROVE AskMoves
    BY <1>u, <1>l DEF AskMoves
  <1>s. ASSUME NEW x \in [Links -> Seq(X2Msgs)], \A k \in Links : Mail(x[k]) \subseteq Mail(x2[k]),
               NEW a, NEW b, NEW n \in X2Msgs, x2' = [x EXCEPT ![<<a, b>>] = Append(@, n)],
               NewAsk(a, b, n)
        PROVE  AskMoves
    <2>1. ASSUME NEW s \in Cells, NEW d \in Cells, s # d, NEW m \in Mail(x2'[<<s, d>>])
          PROVE  m \in Mail(x2[<<s, d>>]) \/ NewAsk(s, d, m)
      <3>1. <<s, d>> \in Links
        BY <2>1, <1>l
      <3>2. m \in Mail(x[<<s, d>>]) \/ (<<s, d>> = <<a, b>> /\ m = n)
        <4>1. /\ <<s, d>> = <<a, b>> => Mail(x2'[<<s, d>>]) = Mail(x[<<s, d>>]) \cup {n}
              /\ <<s, d>> # <<a, b>> => x2'[<<s, d>>] = x[<<s, d>>]
          BY <3>1, <1>s, MailSent
        <4> QED
          BY <4>1, <2>1
      <3>3. CASE m \in Mail(x[<<s, d>>])
        BY <3>3, <3>1, <1>s
      <3>4. CASE <<s, d>> = <<a, b>> /\ m = n
        <4>1. s = a /\ d = b
          BY <3>4
        <4> QED
          BY <4>1, <3>4, <1>s
      <3> QED
        BY <3>2, <3>3, <3>4
    <2> QED
      BY <2>1 DEF AskMoves
  <1>k. ASSUME NEW s, NEW d, NEW msg, Arrived(s, d, msg)
        PROVE  /\ X2Taken(s, d) \in [Links -> Seq(X2Msgs)]
               /\ \A k \in Links : Mail(X2Taken(s, d)[k]) \subseteq Mail(x2[k])
               /\ \A n : X2Answered(s, d, n) = [X2Taken(s, d) EXCEPT ![<<d, s>>] = Append(@, n)]
    BY <1>k, <1>t, MailTaken DEF Arrived
  <1>n. ASSUME NEW s, NEW d, NEW m, m.msg \notin {"HandoverRequest", "HandoverRequestAck", "HandoverCancel"}
        PROVE  NewAsk(s, d, m)
    BY <1>n DEF NewAsk
  <1>f. ASSUME NEW p \in Places, ctx[p].state = "HANDOVER_JOINING", Refusal(p) PROVE AskMoves
    <2>0. PICK o : o = ctx[p].source
      OBVIOUS
    <2> DEFINE n == X2("PreparationFailure", o.rnti, 0, 0)
    <2>1. o \in Places /\ o.rnti \in Rntis
      BY <1>f, <2>0, PlaceTypes DEF Allocated, CtxAllocated, Known
    <2>2. n \in X2Msgs /\ n.msg = "PreparationFailure"
      BY <2>1, X2Types DEF X2Names
    <2>3. x2' = [x2 EXCEPT ![<<p.cell, o.cell>>] = Append(@, n)]
      BY <1>f, <2>0 DEF Refusal, SendX2
    <2> HIDE DEF n
    <2>4. NewAsk(p.cell, o.cell, n)
      BY <2>2, <1>n
    <2> QED
      BY <2>2, <2>3, <2>4, <1>t, <1>s
  <1>1. CASE UeEffect
    BY <1>1, <1>u DEF UeEffect, Still, Selecting, Accessing, Arriving, Leaves
  <1>2. CASE RrcEffect
    <2>1. PICK m \in RrcMsgs :
             \/ Connecting(m) \/ Rejected(m) \/ Commanded(m) \/ Replying(m) \/ Dropping(m)
             \/ Admitting(m) \/ Completing(m) \/ Reconfigures(m) \/ Removed(m)
      BY <1>2 DEF RrcEffect
    <2>2. CASE Removed(m)
      <3>1. m.at \in Places
        BY DEF RrcMsgs
      <3> QED
        BY <3>1, <2>2, <1>f, <1>u DEF Removed
    <2> QED
      BY <2>1, <2>2, <1>u DEF Connecting, Rejected, Commanded, Replying, Dropping, Admitting, Completing,
         Reconfigures
  <1>3. CASE X2Effect
    <2>1. ASSUME NEW s \in Cells, NEW d \in Cells, NEW p, Admits(s, d, p) PROVE AskMoves
      <3>0. PICK n : n = X2("HandoverRequestAck", From(s, d), p.rnti, 0)
        OBVIOUS
      <3>1. /\ Arrived(s, d, "HandoverRequest") /\ x2' = X2Answered(s, d, n) /\ Fresh(p) /\ p.cell = d
            /\ ctx'[p].state = "HANDOVER_JOINING" /\ ctx'[p].source = [cell |-> s, rnti |-> From(s, d)]
        BY <2>1, <3>0 DEF Admits, Turned
      <3>2. KnownAt(s, From(s, d))
        BY <3>1, ArrivedFacts DEF MailAllocated
      <3>5. Carried("HandoverRequest")
        <4>1. s # d /\ Head(x2[<<s, d>>]) \in Mail(x2[<<s, d>>]) /\ Head(x2[<<s, d>>]).msg = "HandoverRequest"
          BY <3>1, ArrivedFacts
        <4> QED
          BY <4>1 DEF Carried
      <3>3. p \in Places /\ p.rnti \in Rntis
        BY <3>1, FreshFacts
      <3>4. n \in X2Msgs /\ n.msg = "HandoverRequestAck" /\ n.new = p.rnti /\ n.old = From(s, d)
        BY <3>0, <3>2, <3>3, X2Types DEF X2Names, KnownAt
      <3>8. NewAsk(d, s, n)
        BY <3>1, <3>3, <3>4, <3>5 DEF NewAsk
      <3>9. x2' = [X2Taken(s, d) EXCEPT ![<<d, s>>] = Append(@, n)]
        BY <3>1, <1>k
      <3> QED
        BY <3>1, <3>4, <3>8, <3>9, <1>k, <1>s
    <2>2. ASSUME NEW s \in Cells, NEW d \in Cells, Refuses(s, d) PROVE AskMoves
      <3>0. PICK n : n = X2("PreparationFailure", From(s, d), 0, 0)
        OBVIOUS
      <3>1. Arrived(s, d, "HandoverRequest") /\ x2' = X2Answered(s, d, n)
        BY <2>2, <3>0 DEF Refuses
      <3>2. KnownAt(s, From(s, d))
        BY <3>1, ArrivedFacts DEF MailAllocated
      <3>4. n \in X2Msgs /\ n.msg = "PreparationFailure"
        BY <3>0, <3>2, X2Types DEF X2Names, KnownAt
      <3>8. NewAsk(d, s, n)
        BY <3>4, <1>n
      <3>9. x2' = [X2Taken(s, d) EXCEPT ![<<d, s>>] = Append(@, n)]
        BY <3>1, <1>k
      <3> QED
        BY <3>1, <3>4, <3>8, <3>9, <1>k, <1>s
    <2>3. ASSUME NEW s \in Cells, NEW d \in Cells, NEW msg, Arrived(s, d, msg), x2' = X2Taken(s, d)
          PROVE  AskMoves
      BY <2>3, <1>k, <1>u
    <2>4. ASSUME NEW s \in Cells, NEW d \in Cells, NEW p, NEW q,
                 Commands(s, d, p, q) \/ Fails(s, d, p) \/ Ends(s, d, p) \/ Cancels(s, d)
          PROVE  AskMoves
      BY <2>4, <2>3 DEF Commands, Fails, Ends, Cancels
    <2> QED
      BY <1>3, <2>1, <2>2, <2>4 DEF X2Effect
  <1>4. CASE PlaceEffect
    <2>1. ASSUME NEW p \in Places, NEW c \in Cells, Prepares(p, c) PROVE AskMoves
      <3>0. PICK n : n = X2("HandoverRequest", p.rnti, 0, ctx[p].teid)
        OBVIOUS
      <3>1. x2' = [x2 EXCEPT ![<<p.cell, c>>] = Append(@, n)] /\ ctx[p].teid \in Teids \cup {0}
        BY <2>1, <3>0, <1>t DEF Prepares, SendX2, Contexts
      <3>2. p.rnti \in Rntis
        BY PlaceTypes
      <3>3. n \in X2Msgs /\ n.msg = "HandoverRequest" /\ n.teid = ctx[p].teid
        BY <3>0, <3>1, <3>2 DEF X2, X2Msgs, X2Names
      <3>4. NewAsk(p.cell, c, n)
        BY <3>3, <2>1 DEF NewAsk
      <3> QED
        BY <3>1, <3>3, <3>4, <1>t, <1>s
    <2>2. ASSUME NEW p \in Places, TimesLeaving(p) PROVE AskMoves
      <3>0. PICK o : o = ctx[p].target
        OBVIOUS
      <3>00. PICK n : n = X2("HandoverCancel", p.rnti, o.rnti, 0)
        OBVIOUS
      <3>1. x2' = [x2 EXCEPT ![<<p.cell, o.cell>>] = Append(@, n)] /\ o.rnti \in Rntis \cup {0}
        BY <2>2, <3>0, <3>00, <1>t DEF TimesLeaving, SendX2, Contexts, Spots
      <3>3. n \in X2Msgs /\ n.msg = "HandoverCancel"
        BY <3>1, <3>00, X2Types, PlaceTypes DEF X2Names
      <3>4. NewAsk(p.cell, o.cell, n)
        BY <3>3, <2>2 DEF NewAsk
      <3> QED
        BY <3>1, <3>3, <3>4, <1>t, <1>s
    <2>3. ASSUME NEW p \in Places, Switches(p) PROVE AskMoves
      <3>0. PICK o : o = ctx[p].source
        OBVIOUS
      <3>00. PICK n : n = X2("UeContextRelease", o.rnti, p.rnti, 0)
        OBVIOUS
      <3>1. /\ x2' = [x2 EXCEPT ![<<p.cell, o.cell>>] = Append(@, n)]
            /\ ctx[p].state = "HANDOVER_PATH_SWITCH"
        BY <2>3, <3>0, <3>00 DEF Switches, SendX2, Continues, Enters
      <3>2. o \in Places /\ o.rnti \in Rntis
        BY <3>0, <3>1, PlaceTypes DEF Allocated, CtxAllocated, Known
      <3>3. n \in X2Msgs /\ n.msg = "UeContextRelease"
        BY <3>2, <3>00, X2Types, PlaceTypes DEF X2Names
      <3>4. NewAsk(p.cell, o.cell, n)
        BY <3>3, <1>n
      <3> QED
        BY <3>1, <3>3, <3>4, <1>t, <1>s
    <2> QED
      BY <1>4, <2>1, <2>2, <2>3, <1>u, <1>f DEF PlaceEffect, Times, TimesJoining, SetsUp
  <1>5. CASE Forwards
    <2>1. PICK x \in [Links -> Seq(X2Msgs)] :
             /\ \/ x = x2
                \/ \E s, d \in Cells : Arrived(s, d, "UeData") /\ x = X2Taken(s, d)
             /\ \/ x2' = x
                \/ \E l \in Links, t \in Teids \cup {0} : x2' = [x EXCEPT ![l] = Append(@, X2("UeData", 0, 0, t))]
      BY <1>5 DEF Forwards
    <2>2. \A k \in Links : Mail(x[k]) \subseteq Mail(x2[k])
      BY <2>1, <1>k
    <2>3. ASSUME NEW l \in Links, NEW t \in Teids \cup {0}, x2' = [x EXCEPT ![l] = Append(@, X2("UeData", 0, 0, t))]
          PROVE  AskMoves
      <3>0. PICK n : n = X2("UeData", 0, 0, t)
        OBVIOUS
      <3>1. n \in X2Msgs /\ n.msg = "UeData"
        BY <3>0 DEF X2, X2Msgs, X2Names
      <3>2. l = <<l[1], l[2]>>
        BY DEF Links
      <3>3. NewAsk(l[1], l[2], n)
        BY <3>1, <1>n
      <3> QED
        BY <3>0, <3>1, <3>2, <3>3, <2>2, <2>3, <1>s
    <2> QED
      BY <2>1, <2>2, <2>3, <1>u
  <1> QED
    BY <1>1, <1>2, <1>3, <1>4, <1>5 DEF Effects

(* Nothing is lost on X2.                                                  *)
LEMMA MailsStay ==
    ASSUME TypeInv, Allocated, Effects
    PROVE  MailStays
  <1>t. x2 \in [Links -> Seq(X2Msgs)] /\ ctx \in [Places -> Contexts]
    BY DEF TypeInv, LinksTyped, CellsTyped
  <1>l. \A s, d \in Cells : s # d => <<s, d>> \in Links
    BY DEF Links
  <1>u. ASSUME \A k \in Links : Mail(x2[k]) \subseteq Mail(x2'[k]) PROVE MailStays
    BY <1>u, <1>l DEF MailStays
  <1>g. ASSUME NEW x \in [Links -> Seq(X2Msgs)], NEW h, NEW n \in X2Msgs, NEW k \in Links
        PROVE  Mail(x[k]) \subseteq Mail([x EXCEPT ![h] = Append(@, n)][k])
    <2>0. PICK y : y = [x EXCEPT ![h] = Append(@, n)]
      OBVIOUS
    <2>1. (k = h => Mail(y[k]) = Mail(x[k]) \cup {n}) /\ (k # h => y[k] = x[k])
      BY <1>g, <2>0, MailSent
    <2>2. Mail(x[k]) \subseteq Mail(y[k])
      BY <2>1
    <2> QED
      BY <2>0, <2>2
  <1>s. ASSUME NEW h, NEW n \in X2Msgs, x2' = [x2 EXCEPT ![h] = Append(@, n)] PROVE MailStays
    BY <1>s, <1>g, <1>t, <1>u
  <1>k. ASSUME NEW s \in Cells, NEW d \in Cells, NEW msg, Arrived(s, d, msg), Delivered(s, d, Head(x2[<<s, d>>])),
               \A k \in Links : Mail(X2Taken(s, d)[k]) \subseteq Mail(x2'[k])
        PROVE  MailStays
    <2>1. /\ Mail(x2[<<s, d>>]) = Mail(X2Taken(s, d)[<<s, d>>]) \cup {Head(x2[<<s, d>>])}
          /\ \A k \in Links : k # <<s, d>> => X2Taken(s, d)[k] = x2[k]
      BY <1>k, <1>t, MailTaken DEF Arrived
    <2>2. ASSUME NEW a \in Cells, NEW b \in Cells, a # b, NEW m \in Mail(x2[<<a, b>>])
          PROVE  m \in Mail(x2'[<<a, b>>]) \/ Delivered(a, b, m)
      <3>1. <<a, b>> \in Links
        BY <2>2, <1>l
      <3>2. CASE <<a, b>> = <<s, d>>
        <4>1. a = s /\ b = d
          BY <3>2
        <4> QED
          BY <4>1, <3>1, <2>1, <2>2, <1>k
      <3>3. CASE <<a, b>> # <<s, d>>
        BY <3>3, <3>1, <2>1, <2>2, <1>k
      <3> QED
        BY <3>2, <3>3
    <2> QED
      BY <2>2 DEF MailStays
  <1>a. ASSUME NEW s \in Cells, NEW d \in Cells, NEW msg, Arrived(s, d, msg)
        PROVE  /\ X2Taken(s, d) \in [Links -> Seq(X2Msgs)]
               /\ \A n \in X2Msgs : \A k \in Links : Mail(X2Taken(s, d)[k]) \subseteq Mail(X2Answered(s, d, n)[k])
    <2>1. /\ X2Taken(s, d) \in [Links -> Seq(X2Msgs)]
          /\ \A n : X2Answered(s, d, n) = [X2Taken(s, d) EXCEPT ![<<d, s>>] = Append(@, n)]
      BY <1>a, <1>t, MailTaken DEF Arrived
    <2> QED
      BY <2>1, <1>g
  <1>f. ASSUME NEW p \in Places, ctx[p].state = "HANDOVER_JOINING", Refusal(p) PROVE MailStays
    <2>0. PICK o : o = ctx[p].source
      OBVIOUS
    <2> DEFINE n == X2("PreparationFailure", o.rnti, 0, 0)
    <2>1. o \in Places /\ o.rnti \in Rntis
      BY <1>f, <2>0, PlaceTypes DEF Allocated, CtxAllocated, Known
    <2>2. n \in X2Msgs /\ n.msg = "PreparationFailure"
      BY <2>1, X2Types DEF X2Names
    <2>3. x2' = [x2 EXCEPT ![<<p.cell, o.cell>>] = Append(@, n)]
      BY <1>f, <2>0 DEF Refusal, SendX2
    <2> HIDE DEF n
    <2> QED
      BY <2>2, <2>3, <1>s
  <1>1. CASE UeEffect
    BY <1>1, <1>u DEF UeEffect, Still, Selecting, Accessing, Arriving, Leaves
  <1>2. CASE RrcEffect
    <2>1. PICK m \in RrcMsgs :
             \/ Connecting(m) \/ Rejected(m) \/ Commanded(m) \/ Replying(m) \/ Dropping(m)
             \/ Admitting(m) \/ Completing(m) \/ Reconfigures(m) \/ Removed(m)
      BY <1>2 DEF RrcEffect
    <2>2. CASE Removed(m)
      <3>1. m.at \in Places
        BY DEF RrcMsgs
      <3> QED
        BY <3>1, <2>2, <1>f, <1>u DEF Removed
    <2> QED
      BY <2>1, <2>2, <1>u DEF Connecting, Rejected, Commanded, Replying, Dropping, Admitting, Completing,
         Reconfigures
  <1>3. CASE X2Effect
    <2>r. ASSUME NEW s \in Cells, NEW d \in Cells, Arrived(s, d, "HandoverRequest"), NEW n \in X2Msgs,
                 x2' = X2Answered(s, d, n)
          PROVE  MailStays
      <3>1. Delivered(s, d, Head(x2[<<s, d>>]))
        BY <2>r DEF Arrived, Delivered
      <3> QED
        BY <3>1, <2>r, <1>a, <1>k
    <2>1. ASSUME NEW s \in Cells, NEW d \in Cells, NEW p, Admits(s, d, p) PROVE MailStays
      <3>0. PICK n : n = X2("HandoverRequestAck", From(s, d), p.rnti, 0)
        OBVIOUS
      <3>1. /\ Arrived(s, d, "HandoverRequest") /\ x2' = X2Answered(s, d, n) /\ Fresh(p)
        BY <2>1, <3>0 DEF Admits
      <3>2. KnownAt(s, From(s, d))
        BY <3>1, ArrivedFacts DEF MailAllocated
      <3>3. p \in Places /\ p.rnti \in Rntis
        BY <3>1, FreshFacts
      <3>4. n \in X2Msgs
        BY <3>0, <3>2, <3>3, X2Types DEF X2Names, KnownAt
      <3> QED
        BY <3>1, <3>4, <2>r
    <2>2. ASSUME NEW s \in Cells, NEW d \in Cells, Refuses(s, d) PROVE MailStays
      <3>0. PICK n : n = X2("PreparationFailure", From(s, d), 0, 0)
        OBVIOUS
      <3>1. Arrived(s, d, "HandoverRequest") /\ x2' = X2Answered(s, d, n)
        BY <2>2, <3>0 DEF Refuses
      <3>2. KnownAt(s, From(s, d))
        BY <3>1, ArrivedFacts DEF MailAllocated
      <3>4. n \in X2Msgs
        BY <3>0, <3>2, X2Types DEF X2Names, KnownAt
      <3> QED
        BY <3>1, <3>4, <2>r
    <2>3. ASSUME NEW s \in Cells, NEW d \in Cells, NEW msg, Arrived(s, d, msg), x2' = X2Taken(s, d),
                 Delivered(s, d, Head(x2[<<s, d>>]))
          PROVE  MailStays
      BY <2>3, <1>k
    <2>4. ASSUME NEW s \in Cells, NEW d \in Cells, NEW p \in Places, NEW q \in Places, Commands(s, d, p, q)
          PROVE  MailStays
      <3>1. Arrived(s, d, "HandoverRequestAck") /\ x2' = X2Taken(s, d) /\ p.rnti = From(s, d)
        BY <2>4 DEF Commands
      <3>2. Delivered(s, d, Head(x2[<<s, d>>]))
        BY <3>1, <2>4 DEF Arrived, Delivered, From
      <3> QED
        BY <3>1, <3>2, <2>3
    <2>5. ASSUME NEW s \in Cells, NEW d \in Cells, NEW p \in Spots, Fails(s, d, p) \/ Ends(s, d, p)
          PROVE  MailStays
      <3>1. PICK msg : Arrived(s, d, msg) /\ x2' = X2Taken(s, d) /\ p.rnti = From(s, d)
                       /\ \/ msg = "PreparationFailure" /\ Fails(s, d, p)
                          \/ msg = "UeContextRelease" /\ Ends(s, d, p)
        BY <2>5 DEF Fails, Ends
      <3>2. Delivered(s, d, Head(x2[<<s, d>>]))
        BY <3>1 DEF Arrived, Delivered, From
      <3> QED
        BY <3>1, <3>2, <2>3
    <2>6. ASSUME NEW s \in Cells, NEW d \in Cells, Cancels(s, d) PROVE MailStays
      <3>1. Arrived(s, d, "HandoverCancel") /\ x2' = X2Taken(s, d)
        BY <2>6 DEF Cancels
      <3>2. Delivered(s, d, Head(x2[<<s, d>>]))
        BY <3>1 DEF Arrived, Delivered
      <3> QED
        BY <3>1, <3>2, <2>3
    <2> QED
      BY <1>3, <2>1, <2>2, <2>4, <2>5, <2>6 DEF X2Effect
  <1>4. CASE PlaceEffect
    <2>1. ASSUME NEW p \in Places, NEW c \in Cells, Prepares(p, c) PROVE MailStays
      <3>0. PICK n : n = X2("HandoverRequest", p.rnti, 0, ctx[p].teid)
        OBVIOUS
      <3>1. x2' = [x2 EXCEPT ![<<p.cell, c>>] = Append(@, n)] /\ ctx[p].teid \in Teids \cup {0}
        BY <2>1, <3>0, <1>t DEF Prepares, SendX2, Contexts
      <3>2. p.rnti \in Rntis
        BY PlaceTypes
      <3>3. n \in X2Msgs
        BY <3>0, <3>1, <3>2 DEF X2, X2Msgs, X2Names
      <3> QED
        BY <3>1, <3>3, <1>s
    <2>2. ASSUME NEW p \in Places, TimesLeaving(p) PROVE MailStays
      <3>0. PICK o : o = ctx[p].target
        OBVIOUS
      <3>00. PICK n : n = X2("HandoverCancel", p.rnti, o.rnti, 0)
        OBVIOUS
      <3>1. x2' = [x2 EXCEPT ![<<p.cell, o.cell>>] = Append(@, n)] /\ o.rnti \in Rntis \cup {0}
        BY <2>2, <3>0, <3>00, <1>t DEF TimesLeaving, SendX2, Contexts, Spots
      <3>3. n \in X2Msgs
        BY <3>1, <3>00, X2Types, PlaceTypes DEF X2Names
      <3> QED
        BY <3>1, <3>3, <1>s
    <2>3. ASSUME NEW p \in Places, Switches(p) PROVE MailStays
      <3>0. PICK o : o = ctx[p].source
        OBVIOUS
      <3>00. PICK n : n = X2("UeContextRelease", o.rnti, p.rnti, 0)
        OBVIOUS
      <3>1. /\ x2' = [x2 EXCEPT ![<<p.cell, o.cell>>] = Append(@, n)]
            /\ ctx[p].state = "HANDOVER_PATH_SWITCH"
        BY <2>3, <3>0, <3>00 DEF Switches, SendX2, Continues, Enters
      <3>2. o \in Places /\ o.rnti \in Rntis
        BY <3>0, <3>1, PlaceTypes DEF Allocated, CtxAllocated, Known
      <3>3. n \in X2Msgs
        BY <3>2, <3>00, X2Types, PlaceTypes DEF X2Names
      <3> QED
        BY <3>1, <3>3, <1>s
    <2> QED
      BY <1>4, <2>1, <2>2, <2>3, <1>u, <1>f DEF PlaceEffect, Times, TimesJoining, SetsUp
  <1>5. CASE Forwards
    <2>1. PICK x \in [Links -> Seq(X2Msgs)] :
             /\ \/ x = x2
                \/ \E s, d \in Cells : Arrived(s, d, "UeData") /\ x = X2Taken(s, d)
             /\ \/ x2' = x
                \/ \E l \in Links, t \in Teids \cup {0} : x2' = [x EXCEPT ![l] = Append(@, X2("UeData", 0, 0, t))]
      BY <1>5 DEF Forwards
    <2>2. \A k \in Links : Mail(x[k]) \subseteq Mail(x2'[k])
      <3>1. ASSUME NEW l \in Links, NEW t \in Teids \cup {0}, x2' = [x EXCEPT ![l] = Append(@, X2("UeData", 0, 0, t))]
            PROVE  \A k \in Links : Mail(x[k]) \subseteq Mail(x2'[k])
        <4>0. PICK n : n = X2("UeData", 0, 0, t)
          OBVIOUS
        <4>1. n \in X2Msgs
          BY <4>0 DEF X2, X2Msgs, X2Names
        <4> QED
          BY <4>0, <4>1, <3>1, <1>g
      <3> QED
        BY <2>1, <3>1
    <2>3. ASSUME NEW s \in Cells, NEW d \in Cells, Arrived(s, d, "UeData"), x = X2Taken(s, d) PROVE MailStays
      <3>1. Delivered(s, d, Head(x2[<<s, d>>]))
        BY <2>3 DEF Arrived, Delivered
      <3> QED
        BY <3>1, <2>2, <2>3, <1>k
    <2> QED
      BY <2>1, <2>2, <2>3, <1>u
  <1> QED
    BY <1>1, <1>2, <1>3, <1>4, <1>5 DEF Effects

(***************************************************************************)
(* Messages of the core network.                                           *)
(***************************************************************************)

(* A message is sent, or received.                                         *)
LEMMA HasGrows ==
    ASSUME NEW q \in Seq(CoreMsgs), NEW m \in CoreMsgs, NEW names
    PROVE  Has(Append(q, m), names) <=> Has(q, names) \/ m.msg \in names
  <1>1. /\ Len(q) \in Nat /\ Len(Append(q, m)) = Len(q) + 1
        /\ Append(q, m)[Len(q) + 1] = m
        /\ \A j \in 1 .. Len(q) : Append(q, m)[j] = q[j]
    OBVIOUS
  <1>2. ASSUME Has(Append(q, m), names) PROVE Has(q, names) \/ m.msg \in names
    <2>1. PICK i \in 1 .. Len(Append(q, m)) : Append(q, m)[i].msg \in names
      BY <1>2 DEF Has
    <2>2. i \in 1 .. Len(q) \/ i = Len(q) + 1
      BY <1>1
    <2> QED
      BY <2>1, <2>2, <1>1 DEF Has
  <1>3. ASSUME Has(q, names) PROVE Has(Append(q, m), names)
    <2>1. PICK i \in 1 .. Len(q) : q[i].msg \in names
      BY <1>3 DEF Has
    <2>2. i \in 1 .. Len(Append(q, m)) /\ Append(q, m)[i] = q[i]
      BY <1>1
    <2> QED
      BY <2>1, <2>2 DEF Has
  <1>4. ASSUME m.msg \in names PROVE Has(Append(q, m), names)
    <2>1. Len(q) + 1 \in 1 .. Len(Append(q, m))
      BY <1>1
    <2> QED
      BY <2>1, <1>1, <1>4 DEF Has
  <1> QED
    BY <1>2, <1>3, <1>4

(* It is received.                                                         *)
LEMMA HasShrinks ==
    ASSUME NEW q \in Seq(CoreMsgs), q # <<>>, NEW names
    PROVE  Has(q, names) <=> Has(Tail(q), names) \/ Head(q).msg \in names
  <1>1. /\ Len(q) \in Nat \ {0} /\ Head(q) = q[1] /\ Len(Tail(q)) = Len(q) - 1
        /\ \A i \in 1 .. Len(Tail(q)) : Tail(q)[i] = q[i + 1]
    OBVIOUS
  <1>2. ASSUME Has(q, names) PROVE Has(Tail(q), names) \/ Head(q).msg \in names
    <2>1. PICK i \in 1 .. Len(q) : q[i].msg \in names
      BY <1>2 DEF Has
    <2>2. CASE i = 1
      BY <2>1, <2>2, <1>1
    <2>3. CASE i # 1
      <3>1. i - 1 \in 1 .. Len(Tail(q)) /\ (i - 1) + 1 = i
        BY <2>3, <1>1
      <3>2. Tail(q)[i - 1] = q[i]
        BY <3>1, <1>1
      <3> QED
        BY <3>1, <3>2, <2>1 DEF Has
    <2> QED
      BY <2>2, <2>3
  <1>3. ASSUME Has(Tail(q), names) PROVE Has(q, names)
    <2>1. PICK i \in 1 .. Len(Tail(q)) : Tail(q)[i].msg \in names
      BY <1>3 DEF Has
    <2>2. i + 1 \in 1 .. Len(q) /\ q[i + 1] = Tail(q)[i]
      BY <1>1
    <2> QED
      BY <2>1, <2>2 DEF Has
  <1>4. ASSUME Head(q).msg \in names PROVE Has(q, names)
    <2>1. 1 \in 1 .. Len(q)
      BY <1>1
    <2> QED
      BY <2>1, <1>1, <1>4 DEF Has
  <1> QED
    BY <1>2, <1>3, <1>4

(* Nothing is under way in an idle network.                                *)
LEMMA HasEmpty ==
    /\ \A names : ~Has(<<>>, names)
    /\ \A m, names : Has(<<m>>, names) <=> m.msg \in names
  <1>1. \A names : ~Has(<<>>, names)
    BY DEF Has
  <1>2. ASSUME NEW m, NEW names PROVE Has(<<m>>, names) <=> m.msg \in names
    <2>1. Len(<<m>>) = 1 /\ <<m>>[1] = m /\ 1 .. 1 = {1}
      OBVIOUS
    <2> QED
      BY <2>1 DEF Has
  <1> QED
    BY <1>1, <1>2

(* What the network is busy with.                                          *)
LEMMA BusyWith ==
    /\ CoreIdle => ~Creating /\ ~Modifying /\ ~Deleting /\ ~Has(reply, {"CreateSessionResponse"})
    /\ \A c : Creation(c) => Creating /\ ~Modifying /\ ~Deleting
    /\ \A c : Switching(c) => Modifying /\ ~Creating /\ ~Deleting
  <1>1. CoreIdle => ~Creating /\ ~Modifying /\ ~Deleting /\ ~Has(reply, {"CreateSessionResponse"})
    BY HasEmpty DEF CoreIdle, Creating, Modifying, Deleting, InCore
  <1>2. ASSUME NEW c, Creation(c) PROVE Creating /\ ~Modifying /\ ~Deleting
    <2>1. PICK k, l, n : k = Gtpc("CreateSessionRequest", c, 0) /\ l = Gtpc("CreateSessionRequest", c, Count)
                         /\ n = Gtpc("CreateSessionResponse", 0, Count)
      OBVIOUS
    <2>2. k.msg = "CreateSessionRequest" /\ l.msg = "CreateSessionRequest" /\ n.msg = "CreateSessionResponse"
      BY <2>1 DEF Gtpc
    <2>3. \/ s11 = <<k>> /\ s5 = <<>> /\ reply = <<>>
          \/ s11 = <<>> /\ s5 = <<l>> /\ reply = <<>>
          \/ s11 = <<>> /\ s5 = <<>> /\ reply = <<n>>
      BY <1>2, <2>1 DEF Creation
    <2> QED
      BY <2>2, <2>3, HasEmpty DEF Creating, Modifying, Deleting, InCore
  <1>3. ASSUME NEW c, Switching(c) PROVE Modifying /\ ~Creating /\ ~Deleting
    <2>1. PICK l, n : l = Gtpc("ModifyBearerRequest", c, Count) /\ n = Gtpc("ModifyBearerResponse", 0, 0)
      OBVIOUS
    <2>2. l.msg = "ModifyBearerRequest" /\ n.msg = "ModifyBearerResponse"
      BY <2>1 DEF Gtpc
    <2>3. \/ s11 = <<l>> /\ s5 = <<>> /\ reply = <<>>
          \/ s11 = <<>> /\ s5 = <<l>> /\ reply = <<>>
          \/ s11 = <<>> /\ s5 = <<>> /\ reply = <<n>>
      BY <1>3, <2>1 DEF Switching
    <2> QED
      BY <2>2, <2>3, HasEmpty DEF Creating, Modifying, Deleting, InCore
  <1> QED
    BY <1>1, <1>2, <1>3

(* What the eNBs and the MME ask for goes through the network.             *)
LEMMA CoreFlows ==
    ASSUME TypeInv, CoreEffect
    PROVE  /\ Creating' => Creating \/ \E p \in Places : Creates(p)
           /\ Creating => Creating' \/ \E p \in Places : Answers(p)
           /\ Modifying' => Modifying \/ \E p \in Places : Modifies(p)
           /\ Modifying => Modifying' \/ \E p \in Places : Acknowledges(p)
           /\ Deleting' => Deleting \/ \E p \in Places : Deletes(p)
           /\ Deleting => Deleting' \/ pgw' = [bearer |-> 0, tfts |-> pgw.tfts \ {pgw.bearer}]
           /\ Has(reply, {"CreateSessionResponse"}) =>
                 Has(reply, {"CreateSessionResponse"})' \/ \E p \in Places : Answers(p)
           /\ \/ UNCHANGED pgw
              \/ Deleting /\ pgw' = [bearer |-> 0, tfts |-> pgw.tfts \ {pgw.bearer}] /\ UNCHANGED sgw
              \/ Creating /\ PgwMoves /\ Has(reply, {"CreateSessionResponse"})'
           /\ \/ UNCHANGED sgw \/ Creating \/ Modifying
  <1> DEFINE Goal ==
           /\ Creating' => Creating \/ \E p \in Places : Creates(p)
           /\ Creating => Creating' \/ \E p \in Places : Answers(p)
           /\ Modifying' => Modifying \/ \E p \in Places : Modifies(p)
           /\ Modifying => Modifying' \/ \E p \in Places : Acknowledges(p)
           /\ Deleting' => Deleting \/ \E p \in Places : Deletes(p)
           /\ Deleting => Deleting' \/ pgw' = [bearer |-> 0, tfts |-> pgw.tfts \ {pgw.bearer}]
           /\ Has(reply, {"CreateSessionResponse"}) =>
                 Has(reply, {"CreateSessionResponse"})' \/ \E p \in Places : Answers(p)
           /\ \/ UNCHANGED pgw
              \/ Deleting /\ pgw' = [bearer |-> 0, tfts |-> pgw.tfts \ {pgw.bearer}] /\ UNCHANGED sgw
              \/ Creating /\ PgwMoves /\ Has(reply, {"CreateSessionResponse"})'
           /\ \/ UNCHANGED sgw \/ Creating \/ Modifying
  <1>t. s11 \in Seq(CoreMsgs) /\ s5 \in Seq(CoreMsgs) /\ reply \in Seq(CoreMsgs)
    BY DEF TypeInv, CoreTyped, Requests, Responses
  <1>g. \A te \in Teids \cup {0}, c \in Cells \cup {0}, msg \in CoreNames :
           Gtpc(msg, c, te) \in CoreMsgs /\ Gtpc(msg, c, te).msg = msg
    BY DEF Gtpc, CoreMsgs
  <1>s. ASSUME NEW m \in CoreMsgs, Sends(m)
        PROVE  /\ \A names : Has(s11, names)' <=> Has(s11, names) \/ m.msg \in names
               /\ \A names : Has(s5, names)' <=> Has(s5, names)
               /\ \A names : Has(reply, names)' <=> Has(reply, names)
               /\ UNCHANGED <<sgw, pgw>>
    <2>1. \A names : Has(Append(s11, m), names) <=> Has(s11, names) \/ m.msg \in names
      BY <1>t, HasGrows
    <2>2. s11' = Append(s11, m) /\ UNCHANGED <<sgw, pgw, s5, reply>>
      BY <1>s DEF Sends
    <2>3. \A names : Has(s11', names) <=> Has(s11, names) \/ m.msg \in names
      BY <2>1, <2>2
    <2> QED
      BY <2>2, <2>3 DEF Has
  <1>k. ASSUME NEW msg, Takes(msg)
        PROVE  /\ \A names : Has(reply, names) <=> Has(reply, names)' \/ msg \in names
               /\ \A names : Has(s5, names)' <=> Has(s5, names)
               /\ UNCHANGED <<sgw, pgw>>
    <2>1. \A names : Has(reply, names) <=> Has(Tail(reply), names) \/ Head(reply).msg \in names
      BY <1>t, <1>k, HasShrinks DEF Takes
    <2>2. reply' = Tail(reply) /\ Head(reply).msg = msg /\ UNCHANGED <<sgw, pgw, s5>>
      BY <1>k DEF Takes
    <2>3. \A names : Has(reply, names) <=> Has(reply', names) \/ msg \in names
      BY <2>1, <2>2
    <2> QED
      BY <2>2, <2>3 DEF Has
  <1>1. CASE UNCHANGED Core
    BY <1>1 DEF Core, Creating, Modifying, Deleting, InCore, Has
  <1>2. ASSUME NEW p \in Places, Creates(p) PROVE Goal
    <2>1. PICK m \in CoreMsgs : m.msg = "CreateSessionRequest" /\ Sends(m)
      BY <1>2, <1>g, PlaceTypes DEF Creates, CoreNames
    <2> QED
      BY <2>1, <1>s, <1>2 DEF Creating, Modifying, Deleting, InCore
  <1>3. ASSUME NEW p \in Places, Modifies(p) PROVE Goal
    <2>0. ctx[p].teid \in Teids \cup {0}
      BY DEF TypeInv, CellsTyped, Contexts
    <2>1. PICK m \in CoreMsgs : m.msg = "ModifyBearerRequest" /\ Sends(m)
      BY <1>3, <2>0, <1>g, PlaceTypes DEF Modifies, CoreNames
    <2> QED
      BY <2>1, <1>s, <1>3 DEF Creating, Modifying, Deleting, InCore
  <1>4. ASSUME NEW p \in Places, Deletes(p) PROVE Goal
    <2>1. PICK m \in CoreMsgs : m.msg = "DeleteBearerCommand" /\ Sends(m)
      BY <1>4, <1>g DEF Deletes, CoreNames
    <2> QED
      BY <2>1, <1>s, <1>4 DEF Creating, Modifying, Deleting, InCore
  <1>5. ASSUME NEW p \in Places, Answers(p) PROVE Goal
    <2>1. Takes("CreateSessionResponse") /\ UNCHANGED s11
      BY <1>5 DEF Answers
    <2>2. \A names : Has(s11, names)' <=> Has(s11, names)
      BY <2>1 DEF Has
    <2> QED
      BY <2>1, <2>2, <1>k, <1>5 DEF Creating, Modifying, Deleting, InCore
  <1>6. ASSUME NEW p \in Places, Acknowledges(p) PROVE Goal
    <2>1. Takes("ModifyBearerResponse") /\ UNCHANGED s11
      BY <1>6 DEF Acknowledges
    <2>2. \A names : Has(s11, names)' <=> Has(s11, names)
      BY <2>1 DEF Has
    <2> QED
      BY <2>1, <2>2, <1>k, <1>6 DEF Creating, Modifying, Deleting, InCore
  <1>7. CASE SgwMoves
    <2>1. PICK m \in CoreMsgs : /\ m = Head(s11)
             /\ \/ /\ m.msg = "CreateSessionRequest" /\ Count + 1 \in Teids
                   /\ s5' = Append(s5, [m EXCEPT !.teid = Count + 1])
                \/ /\ m.msg = "ModifyBearerRequest" /\ s5' = Append(s5, m)
                \/ /\ m.msg \notin {"CreateSessionRequest", "ModifyBearerRequest"}
                   /\ UNCHANGED sgw /\ s5' = Append(s5, m)
      BY <1>7 DEF SgwMoves
    <2>0. Count + 1 \in Teids => [m EXCEPT !.teid = Count + 1] \in CoreMsgs /\ [m EXCEPT !.teid = Count + 1].msg = m.msg
      BY DEF CoreMsgs
    <2>2. PICK n \in CoreMsgs : s5' = Append(s5, n) /\ n.msg = m.msg
      BY <2>0, <2>1
    <2>3. s11 # <<>> /\ s11' = Tail(s11) /\ UNCHANGED <<pgw, reply>>
      BY <1>7 DEF SgwMoves
    <2>4. \A names : Has(s11, names) <=> Has(Tail(s11), names) \/ m.msg \in names
      BY <2>1, <2>3, <1>t, HasShrinks
    <2>5. \A names : Has(Append(s5, n), names) <=> Has(s5, names) \/ m.msg \in names
      BY <2>2, <1>t, HasGrows
    <2>6. /\ \A names : Has(s11, names) <=> Has(s11', names) \/ m.msg \in names
          /\ \A names : Has(s5', names) <=> Has(s5, names) \/ m.msg \in names
          /\ \A names : Has(reply', names) <=> Has(reply, names)
      BY <2>2, <2>3, <2>4, <2>5
    <2>7. UNCHANGED sgw \/ m.msg \in {"CreateSessionRequest"} \/ m.msg \in {"ModifyBearerRequest"}
      BY <2>1
    <2> QED
      BY <2>3, <2>6, <2>7 DEF Creating, Modifying, Deleting, InCore, Has
  <1>8. CASE PgwMoves
    <2>1. PICK m \in CoreMsgs : /\ m = Head(s5)
         /\ \/ /\ m.msg = "CreateSessionRequest"
               /\ reply' = Append(reply, Gtpc("CreateSessionResponse", 0, m.teid))
            \/ /\ m.msg = "ModifyBearerRequest" /\ UNCHANGED pgw
               /\ reply' = Append(reply, Gtpc("ModifyBearerResponse", 0, 0))
            \/ /\ m.msg = "DeleteBearerCommand" /\ UNCHANGED pgw
               /\ reply' = Append(reply, Gtpc("DeleteBearerRequest", 0, 0))
            \/ /\ m.msg = "DeleteBearerResponse" /\ UNCHANGED reply
               /\ pgw' = [bearer |-> 0, tfts |-> pgw.tfts \ {pgw.bearer}]
            \/ /\ m.msg \in {"CreateSessionResponse", "ModifyBearerResponse", "DeleteBearerRequest"}
               /\ UNCHANGED <<pgw, reply>>
      BY <1>8 DEF PgwMoves
    <2>2. s5 # <<>> /\ s5' = Tail(s5) /\ UNCHANGED <<sgw, s11>>
      BY <1>8 DEF PgwMoves
    <2>3. \A names : Has(s5, names) <=> Has(Tail(s5), names) \/ m.msg \in names
      BY <2>1, <2>2, <1>t, HasShrinks
    <2>4. /\ \A names : Has(s5, names) <=> Has(s5', names) \/ m.msg \in names
          /\ \A names : Has(s11', names) <=> Has(s11, names)
      BY <2>2, <2>3
    <2>5. ASSUME NEW n \in CoreMsgs, reply' = Append(reply, n)
          PROVE  \A names : Has(reply', names) <=> Has(reply, names) \/ n.msg \in names
      <3>1. \A names : Has(Append(reply, n), names) <=> Has(reply, names) \/ n.msg \in names
        BY <1>t, HasGrows
      <3> QED
        BY <3>1, <2>5
    <2>6. m.teid \in Teids \cup {0}
      BY DEF CoreMsgs
    <2>7. CASE m.msg = "CreateSessionRequest"
      <3>1. PICK n \in CoreMsgs : n.msg = "CreateSessionResponse" /\ reply' = Append(reply, n)
        BY <2>1, <2>6, <2>7, <1>g DEF CoreNames
      <3>2. \A names : Has(reply', names) <=> Has(reply, names) \/ n.msg \in names
        BY <3>1, <2>5
      <3> QED
        BY <1>8, <2>2, <2>4, <2>7, <3>1, <3>2 DEF Creating, Modifying, Deleting, InCore, Has
    <2>8. CASE m.msg = "ModifyBearerRequest"
      <3>1. PICK n \in CoreMsgs : n.msg = "ModifyBearerResponse" /\ reply' = Append(reply, n)
        BY <2>1, <2>8, <1>g DEF CoreNames
      <3>2. \A names : Has(reply', names) <=> Has(reply, names) \/ n.msg \in names
        BY <3>1, <2>5
      <3> QED
        BY <2>1, <2>2, <2>4, <2>8, <3>1, <3>2 DEF Creating, Modifying, Deleting, InCore, Has
    <2>9. CASE m.msg = "DeleteBearerCommand"
      <3>1. PICK n \in CoreMsgs : n.msg = "DeleteBearerRequest" /\ reply' = Append(reply, n)
        BY <2>1, <2>9, <1>g DEF CoreNames
      <3>2. \A names : Has(reply', names) <=> Has(reply, names) \/ n.msg \in names
        BY <3>1, <2>5
      <3> QED
        BY <2>1, <2>2, <2>4, <2>9, <3>1, <3>2 DEF Creating, Modifying, Deleting, InCore, Has
    <2>10. CASE m.msg \notin {"CreateSessionRequest", "ModifyBearerRequest", "DeleteBearerCommand"}
      <3>1. UNCHANGED reply
        BY <2>1, <2>10
      <3>2. \A names : Has(reply', names) <=> Has(reply, names)
        BY <3>1
      <3>3. UNCHANGED pgw \/ (m.msg \in {"DeleteBearerCommand", "DeleteBearerResponse"}
                              /\ pgw' = [bearer |-> 0, tfts |-> pgw.tfts \ {pgw.bearer}])
        BY <2>1, <2>10
      <3>4. m.msg \in {"DeleteBearerCommand", "DeleteBearerResponse"} =>
              pgw' = [bearer |-> 0, tfts |-> pgw.tfts \ {pgw.bearer}]
        BY <2>1, <2>10
      <3> QED
        BY <2>2, <2>4, <2>10, <3>2, <3>3, <3>4 DEF Creating, Modifying, Deleting, InCore, Has
    <2> QED
      BY <2>7, <2>8, <2>9, <2>10
  <1>9. CASE MmeMoves
    <2>1. Takes("DeleteBearerRequest") /\ s11' = Append(s11, Gtpc("DeleteBearerResponse", 0, 0))
      BY <1>9 DEF MmeMoves
    <2>2. PICK n \in CoreMsgs : n.msg = "DeleteBearerResponse" /\ s11' = Append(s11, n)
      BY <2>1, <1>g DEF CoreNames
    <2>3. \A names : Has(Append(s11, n), names) <=> Has(s11, names) \/ n.msg \in names
      BY <1>t, HasGrows
    <2>4. \A names : Has(s11', names) <=> Has(s11, names) \/ n.msg \in names
      BY <2>2, <2>3
    <2>5. /\ \A names : Has(reply, names) <=> Has(reply, names)' \/ "DeleteBearerRequest" \in names
          /\ \A names : Has(s5, names)' <=> Has(s5, names)
          /\ UNCHANGED <<sgw, pgw>>
      BY <2>1, <1>k
    <2>6. /\ Creating' <=> Creating
          /\ Modifying' <=> Modifying
          /\ Deleting' <=> Deleting
      BY <2>2, <2>4, <2>5 DEF Creating, Modifying, Deleting, InCore, Has
    <2> QED
      BY <2>5, <2>6 DEF Has
  <1>10. Goal
    BY <1>1, <1>2, <1>3, <1>4, <1>5, <1>6, <1>7, <1>8, <1>9 DEF CoreEffect
  <1> QED
    BY <1>10

(* A session that is created goes on to be created, or the eNB hears of it. *)
LEMMA CreationMoves ==
    ASSUME TypeInv, CoreEffect, NEW c \in Cells, Creation(c)
    PROVE  Creation(c)' \/ \E p \in Places : Creates(p) \/ Modifies(p) \/ Deletes(p) \/ Answers(p)
  <1>t. sgw \in [teidCount : Teids \cup {0}, enb : [Teids -> Cells \cup {0}]]
    BY DEF TypeInv, CoreTyped
  <1>c. PICK n : n = Count
    OBVIOUS
  <1>m. PICK k, l, a : /\ k = Gtpc("CreateSessionRequest", c, 0) /\ l = Gtpc("CreateSessionRequest", c, n)
                       /\ a = Gtpc("CreateSessionResponse", 0, n)
    OBVIOUS
  <1>n. /\ k.msg = "CreateSessionRequest" /\ k.cell = c /\ k = [msg |-> "CreateSessionRequest", cell |-> c, teid |-> 0]
        /\ l.msg = "CreateSessionRequest" /\ l.teid = n /\ a.msg = "CreateSessionResponse"
    BY <1>m DEF Gtpc
  <1>0. \/ s11 = <<k>> /\ s5 = <<>> /\ reply = <<>> /\ pgw = NoSession
        \/ s11 = <<>> /\ s5 = <<l>> /\ reply = <<>> /\ pgw = NoSession /\ n # 0 /\ sgw.enb[n] = c
        \/ s11 = <<>> /\ s5 = <<>> /\ reply = <<a>> /\ pgw = Session /\ n # 0 /\ sgw.enb[n] = c
    BY <1>c, <1>m DEF Creation
  <1>1. CASE UNCHANGED Core
    BY <1>1 DEF Core, Creation, Count, Session
  <1>2. CASE SgwMoves
    <2>1. s11 = <<k>> /\ s5 = <<>> /\ reply = <<>> /\ pgw = NoSession
      BY <1>0, <1>2 DEF SgwMoves
    <2>2. Head(s11) = k /\ Tail(s11) = <<>>
      BY <2>1
    <2>3. /\ n + 1 \in Teids /\ sgw' = [teidCount |-> n + 1, enb |-> [sgw.enb EXCEPT ![n + 1] = k.cell]]
          /\ s5' = Append(s5, [k EXCEPT !.teid = n + 1])
          /\ s11' = Tail(s11) /\ UNCHANGED <<pgw, reply>>
      BY <1>2, <2>2, <1>n, <1>c DEF SgwMoves
    <2>x. PICK x : x = n + 1
      OBVIOUS
    <2>4. sgw'.teidCount = x /\ sgw'.enb[x] = c /\ x \in Teids
      BY <2>3, <2>x, <1>t, <1>n
    <2>5. s5' = <<[msg |-> "CreateSessionRequest", cell |-> c, teid |-> x]>>
      BY <2>1, <2>3, <2>x, <1>n
    <2>6. x # 0
      BY <2>4, PlaceTypes
    <2>7. s5' = <<Gtpc("CreateSessionRequest", c, Count)>>' /\ Count' = x
      BY <2>4, <2>5 DEF Gtpc, Count
    <2>8. s11' = <<>> /\ reply' = <<>> /\ pgw' = NoSession
      BY <2>1, <2>2, <2>3
    <2> QED
      BY <2>4, <2>6, <2>7, <2>8 DEF Creation, NoSession
  <1>3. CASE PgwMoves
    <2>1. s11 = <<>> /\ s5 = <<l>> /\ reply = <<>> /\ pgw = NoSession /\ n # 0 /\ sgw.enb[n] = c
      BY <1>0, <1>3 DEF PgwMoves
    <2>2. Head(s5) = l /\ Tail(s5) = <<>>
      BY <2>1
    <2>3. /\ pgw' = [bearer |-> n, tfts |-> pgw.tfts \cup {n}]
          /\ reply' = Append(reply, Gtpc("CreateSessionResponse", 0, n))
          /\ s5' = Tail(s5) /\ UNCHANGED <<sgw, s11>>
      BY <1>3, <2>2, <1>n DEF PgwMoves
    <2>4. Count' = n
      BY <2>3, <1>c DEF Count
    <2>5. pgw' = [bearer |-> n, tfts |-> {n}]
      BY <2>1, <2>3 DEF NoSession
    <2>6. pgw' = Session'
      BY <2>4, <2>5 DEF Session
    <2>7. reply' = <<a>>
      BY <2>1, <2>3, <1>m
    <2>8. reply' = <<Gtpc("CreateSessionResponse", 0, Count)>>'
      BY <2>4, <2>7, <1>m DEF Gtpc
    <2> QED
      BY <2>1, <2>2, <2>3, <2>4, <2>6, <2>8 DEF Creation
  <1>4. CASE MmeMoves
    <2>1. reply = <<a>> \/ reply = <<>>
      BY <1>0
    <2>2. reply # <<>> /\ Head(reply).msg = "DeleteBearerRequest"
      BY <1>4 DEF MmeMoves, Takes
    <2> QED
      BY <2>1, <2>2, <1>n
  <1>5. ASSUME NEW p \in Places, Acknowledges(p) PROVE FALSE
    <2>1. reply = <<a>> \/ reply = <<>>
      BY <1>0
    <2>2. reply # <<>> /\ Head(reply).msg = "ModifyBearerResponse"
      BY <1>5 DEF Acknowledges, Takes
    <2> QED
      BY <2>1, <2>2, <1>n
  <1> QED
    BY <1>1, <1>2, <1>3, <1>4, <1>5 DEF CoreEffect

(* A path that is switched goes on to be switched, or the eNB hears of it. *)
LEMMA SwitchingMoves ==
    ASSUME TypeInv, CoreEffect, NEW c \in Cells, Switching(c), Count # 0
    PROVE  Switching(c)' \/ \E p \in Places : Creates(p) \/ Modifies(p) \/ Deletes(p) \/ Acknowledges(p)
  <1>t. sgw \in [teidCount : Teids \cup {0}, enb : [Teids -> Cells \cup {0}]]
    BY DEF TypeInv, CoreTyped
  <1>c. PICK n : n = Count
    OBVIOUS
  <1>m. PICK l, a : l = Gtpc("ModifyBearerRequest", c, n) /\ a = Gtpc("ModifyBearerResponse", 0, 0)
    OBVIOUS
  <1>n. /\ l.msg = "ModifyBearerRequest" /\ l.cell = c /\ l.teid = n
        /\ a.msg = "ModifyBearerResponse"
    BY <1>m DEF Gtpc
  <1>0. \/ s11 = <<l>> /\ s5 = <<>> /\ reply = <<>>
        \/ s11 = <<>> /\ s5 = <<l>> /\ reply = <<>> /\ sgw.enb[n] = c
        \/ s11 = <<>> /\ s5 = <<>> /\ reply = <<a>> /\ sgw.enb[n] = c
    BY <1>c, <1>m DEF Switching
  <1>1. CASE UNCHANGED Core
    BY <1>1 DEF Core, Switching, Count
  <1>2. CASE SgwMoves
    <2>1. s11 = <<l>> /\ s5 = <<>> /\ reply = <<>>
      BY <1>0, <1>2 DEF SgwMoves
    <2>2. Head(s11) = l /\ Tail(s11) = <<>>
      BY <2>1
    <2>3. /\ sgw' = [sgw EXCEPT !.enb[n] = c]
          /\ s5' = Append(s5, l)
          /\ s11' = Tail(s11) /\ UNCHANGED <<pgw, reply>>
      BY <1>2, <2>2, <1>n, <1>c DEF SgwMoves
    <2>x. n \in Teids
      BY <1>c, <1>t DEF Count
    <2>4. sgw'.teidCount = n /\ sgw'.enb[n] = c
      BY <2>3, <2>x, <1>c, <1>t DEF Count
    <2>5. s5' = <<l>> /\ s11' = <<>> /\ reply' = <<>>
      BY <2>1, <2>2, <2>3
    <2>6. Count' = n
      BY <2>4 DEF Count
    <2> QED
      BY <2>4, <2>5, <2>6, <1>m DEF Switching, Gtpc
  <1>3. CASE PgwMoves
    <2>1. s11 = <<>> /\ s5 = <<l>> /\ reply = <<>> /\ sgw.enb[n] = c
      BY <1>0, <1>3 DEF PgwMoves
    <2>2. Head(s5) = l /\ Tail(s5) = <<>>
      BY <2>1
    <2>3. reply' = Append(reply, a) /\ s5' = Tail(s5) /\ UNCHANGED <<sgw, s11>>
      BY <1>3, <2>2, <1>n, <1>m DEF PgwMoves
    <2>4. Count' = n
      BY <2>3, <1>c DEF Count
    <2>7. reply' = <<a>> /\ s5' = <<>> /\ s11' = <<>> /\ sgw'.enb[n] = c
      BY <2>1, <2>2, <2>3
    <2> QED
      BY <2>4, <2>7, <1>m DEF Switching, Gtpc
  <1>4. CASE MmeMoves
    <2>1. reply = <<a>> \/ reply = <<>>
      BY <1>0
    <2>2. reply # <<>> /\ Head(reply).msg = "DeleteBearerRequest"
      BY <1>4 DEF MmeMoves, Takes
    <2> QED
      BY <2>1, <2>2, <1>n
  <1>5. ASSUME NEW p \in Places, Answers(p) PROVE FALSE
    <2>1. reply = <<a>> \/ reply = <<>>
      BY <1>0
    <2>2. reply # <<>> /\ Head(reply).msg = "CreateSessionResponse"
      BY <1>5 DEF Answers, Takes
    <2> QED
      BY <2>1, <2>2, <1>n
  <1> QED
    BY <1>1, <1>2, <1>3, <1>4, <1>5 DEF CoreEffect

(* They begin with the request; and the answer that the eNB hears is the   *)
(* last message.                                                           *)
LEMMA BeginsAndEnds ==
    ASSUME TypeInv
    PROVE  /\ \A p \in Places : CoreIdle /\ Creates(p) /\ pgw = NoSession => Creation(p.cell)'
           /\ \A p \in Places : CoreIdle /\ Modifies(p) /\ ctx[p].teid = Count => Switching(p.cell)'
           /\ \A p \in Places, c \in Cells : Answers(p) /\ Creation(c) =>
                 CoreIdle' /\ ctx'[p].teid = Count /\ Count # 0 /\ UNCHANGED sgw /\ pgw = Session /\ UNCHANGED pgw /\ sgw.enb[Count] = c
           /\ \A p \in Places, c \in Cells : Acknowledges(p) /\ Switching(c) =>
                 CoreIdle' /\ UNCHANGED <<sgw, pgw>> /\ sgw.enb[Count] = c
           /\ \A p \in Places, c \in Cells : ~(Creation(c) /\ Acknowledges(p)) /\ ~(Switching(c) /\ Answers(p))
  <1>1. ASSUME NEW p \in Places, CoreIdle, Creates(p), pgw = NoSession PROVE Creation(p.cell)'
    <2>1. s11' = <<Gtpc("CreateSessionRequest", p.cell, 0)>> /\ s5' = <<>> /\ reply' = <<>> /\ pgw' = NoSession
      BY <1>1 DEF CoreIdle, Creates, Sends
    <2> QED
      BY <2>1 DEF Creation, NoSession, Gtpc
  <1>2. ASSUME NEW p \in Places, CoreIdle, Modifies(p), ctx[p].teid = Count PROVE Switching(p.cell)'
    <2>1. s11' = <<Gtpc("ModifyBearerRequest", p.cell, Count)>> /\ s5' = <<>> /\ reply' = <<>> /\ UNCHANGED sgw
      BY <1>2 DEF CoreIdle, Modifies, Sends
    <2>2. Count' = Count
      BY <2>1 DEF Count
    <2> QED
      BY <2>1, <2>2 DEF Switching, Gtpc
  <1>3. ASSUME NEW p \in Places, NEW c \in Cells, Creation(c)
        PROVE  /\ ~Acknowledges(p)
               /\ Answers(p) =>
                    CoreIdle' /\ ctx'[p].teid = Count /\ Count # 0 /\ UNCHANGED sgw /\ pgw = Session /\ UNCHANGED pgw /\ sgw.enb[Count] = c
    <2>1. PICK a : a = Gtpc("CreateSessionResponse", 0, Count)
      OBVIOUS
    <2>2. a.msg = "CreateSessionResponse" /\ a.teid = Count
      BY <2>1 DEF Gtpc
    <2>3. reply = <<>> \/ (s11 = <<>> /\ s5 = <<>> /\ reply = <<a>> /\ pgw = Session /\ Count # 0 /\ sgw.enb[Count] = c)
      BY <1>3, <2>1 DEF Creation
    <2>4. ~Acknowledges(p)
      BY <2>2, <2>3 DEF Acknowledges, Takes
    <2>5. ASSUME Answers(p)
          PROVE  CoreIdle' /\ ctx'[p].teid = Count /\ Count # 0 /\ UNCHANGED sgw /\ pgw = Session /\ UNCHANGED pgw /\ sgw.enb[Count] = c
      <3>1. s11 = <<>> /\ s5 = <<>> /\ reply = <<a>> /\ pgw = Session /\ Count # 0 /\ sgw.enb[Count] = c
        BY <2>3, <2>5 DEF Answers, Takes
      <3>2. reply' = <<>> /\ UNCHANGED <<sgw, pgw, s5, s11>> /\ ctx'[p].teid = Count
        BY <2>2, <2>5, <3>1 DEF Answers, Takes
      <3> QED
        BY <3>1, <3>2 DEF CoreIdle
    <2> QED
      BY <2>4, <2>5
  <1>4. ASSUME NEW p \in Places, NEW c \in Cells, Switching(c)
        PROVE  /\ ~Answers(p)
               /\ Acknowledges(p) => CoreIdle' /\ UNCHANGED <<sgw, pgw>> /\ sgw.enb[Count] = c
    <2>1. PICK a : a = Gtpc("ModifyBearerResponse", 0, 0)
      OBVIOUS
    <2>2. a.msg = "ModifyBearerResponse"
      BY <2>1 DEF Gtpc
    <2>3. reply = <<>> \/ (s11 = <<>> /\ s5 = <<>> /\ reply = <<a>> /\ sgw.enb[Count] = c)
      BY <1>4, <2>1 DEF Switching
    <2>4. ~Answers(p)
      BY <2>2, <2>3 DEF Answers, Takes
    <2>5. ASSUME Acknowledges(p)
          PROVE  CoreIdle' /\ UNCHANGED <<sgw, pgw>> /\ sgw.enb[Count] = c
      <3>1. s11 = <<>> /\ s5 = <<>> /\ reply = <<a>> /\ sgw.enb[Count] = c
        BY <2>3, <2>5 DEF Acknowledges, Takes
      <3>2. reply' = <<>> /\ UNCHANGED <<sgw, pgw, s5, s11>>
        BY <2>2, <2>5, <3>1 DEF Acknowledges, Takes
      <3> QED
        BY <3>1, <3>2 DEF CoreIdle
    <2> QED
      BY <2>4, <2>5
  <1> QED
    BY <1>1, <1>2, <1>3, <1>4

(***************************************************************************)
(* Moves of the parts of the invariant.                                    *)
(***************************************************************************)

(* Events: the UE that leaves has its context removed; a context that the  *)
(* UE left releases it.                                                    *)
LEMMA EventsMove ==
    ASSUME Base, Effects, NEW m \in RrcMsgs, rrc'["now"] = <<m>>
    PROVE  /\ m.msg = "ContextRemove" => rrc["now"] = <<m>> \/ (m.at = ue.at /\ Leaves)
           /\ m.msg = "Release" =>
                 \/ rrc["now"] = <<m>>
                 \/ /\ UNCHANGED ue /\ Calm
                    /\ \E p \in Places : ctx[p].state = "HANDOVER_LEAVING" /\ ctx'[p].state = "NONE"
  <1> DEFINE Goal ==
           /\ m.msg = "ContextRemove" => rrc["now"] = <<m>> \/ (m.at = ue.at /\ Leaves)
           /\ m.msg = "Release" =>
                 \/ rrc["now"] = <<m>>
                 \/ /\ UNCHANGED ue /\ Calm
                    /\ \E p \in Places : ctx[p].state = "HANDOVER_LEAVING" /\ ctx'[p].state = "NONE"
  <1>q. ASSUME Quietly PROVE FALSE
    BY <1>q DEF Quietly
  <1>s. ASSUME NEW n, Said(n) PROVE m = n
    BY <1>s DEF Said
  <1>o. ASSUME NEW msg, NEW p, Said(Rrc(msg, p)), msg \notin {"Release", "ContextRemove"} PROVE Goal
    <2>1. m = Rrc(msg, p)
      BY <1>o, <1>s
    <2>2. m.msg = msg
      BY <2>1 DEF Rrc
    <2> QED
      BY <2>2, <1>o
  <1>r. ASSUME NEW p \in Places, UNCHANGED ue, Calm, ctx[p].state = "HANDOVER_LEAVING", Gone(p), Raised(Rrc("Release", p)) PROVE Goal
    <2>1. m = Rrc("Release", p)
      BY <1>r, <1>s DEF Raised
    <2>2. m.msg = "Release" /\ ctx'[p].state = "NONE"
      BY <2>1, <1>r DEF Rrc, Gone, Turned
    <2> QED
      BY <2>2, <1>r
  <1>c. ASSUME NEW p, NEW states, Continues(p, states) PROVE Goal
    BY <1>c, <1>o, <1>q DEF Continues
  <1>1. CASE UeEffect
    <2>1. CASE Leaves
      <3>1. m = Rrc("ContextRemove", ue.at)
        BY <2>1, <1>s DEF Leaves, Raised
      <3>2. m.msg = "ContextRemove" /\ m.at = ue.at
        BY <3>1 DEF Rrc
      <3> QED
        BY <3>2, <2>1
    <2>2. CASE Still
      BY <2>2 DEF Still
    <2> QED
      BY <1>1, <2>1, <2>2, <1>q, <1>o DEF UeEffect, Selecting, Accessing, Arriving
  <1>2. CASE RrcEffect
    BY <1>2, <1>q, <1>o, <1>c DEF RrcEffect, Connecting, Rejected, Commanded, Replying, Dropping, Admitting,
       Completing, Reconfigures, Removed
  <1>3. CASE X2Effect
    <2>1. PICK s, d \in Cells :
             \/ \E p \in Places : Admits(s, d, p)
             \/ Refuses(s, d)
             \/ \E p, q \in Places : Commands(s, d, p, q)
             \/ \E p \in Spots : Fails(s, d, p) \/ Ends(s, d, p)
             \/ Cancels(s, d)
      BY <1>3 DEF X2Effect
    <2>2. ASSUME NEW p, NEW q, Commands(s, d, p, q) PROVE Goal
      <3>1. m = HandoverCommand(p, q)
        BY <2>2, <1>s DEF Commands
      <3>2. m.msg = "HandoverCommand"
        BY <3>1 DEF HandoverCommand
      <3> QED
        BY <3>2
    <2>3. ASSUME NEW p, Fails(s, d, p) PROVE Goal
      <3>1. Calm /\ UNCHANGED ue
        BY <2>3 DEF Fails, Arrived
      <3> QED
        BY <3>1, <2>3, <1>q, <1>c, <1>r DEF Fails, Gone
    <2> QED
      BY <2>1, <2>2, <2>3, <1>q DEF Admits, Refuses, Ends, Cancels
  <1>4. CASE PlaceEffect
    BY <1>4, <1>q, <1>r, <1>c DEF PlaceEffect, Prepares, Times, TimesJoining, TimesLeaving, SetsUp, Switches
  <1>5. CASE Forwards
    BY <1>5, <1>q DEF Forwards
  <1> QED
    BY <1>1, <1>2, <1>3, <1>4, <1>5 DEF Effects

(* A removal is due when the UE has just left.                             *)
LEMMA RemovalBegins ==
    ASSUME Base, Effects, NEW p \in Places, Removing(p)'
    PROVE  Removing(p) \/ (ue.state \in Connected /\ ue.at = p /\ UNCHANGED <<ctx, x2>> /\ ue' = Idle)
  <1>1. PICK m \in RrcMsgs : rrc'["now"] = <<m>> /\ m.msg = "ContextRemove" /\ m.at = p
    BY DEF Removing, Due
  <1>2. rrc["now"] = <<m>> \/ (m.at = ue.at /\ Leaves)
    BY <1>1, EventsMove
  <1> QED
    BY <1>1, <1>2 DEF Removing, Due, Leaves

(* A release is due when a context that the UE left has just gone.         *)
LEMMA ReleasingMoves ==
    ASSUME Base, Effects, Releasing'
    PROVE  \/ Releasing
           \/ /\ UNCHANGED ue /\ Calm
              /\ \E p \in Places : ctx[p].state = "HANDOVER_LEAVING" /\ ctx'[p].state = "NONE"
  <1>1. PICK p \in Places, m \in RrcMsgs : rrc'["now"] = <<m>> /\ m.msg = "Release" /\ m.at = p
    BY DEF Releasing, Due
  <1>2. \/ rrc["now"] = <<m>>
        \/ /\ UNCHANGED ue /\ Calm
           /\ \E q \in Places : ctx[q].state = "HANDOVER_LEAVING" /\ ctx'[q].state = "NONE"
    BY <1>1, EventsMove
  <1> QED
    BY <1>1, <1>2 DEF Releasing, Due

(* A connection begins with the selection of a cell.                       *)
LEMMA LiveMoves ==
    ASSUME Base, Effects, CoreStepped, Starts, Live'
    PROVE  Live \/ Selects
  <1>1. ue'.state # "IDLE" /\ ~Releasing'
    BY DEF Live
  <1>2. ue.state = "IDLE" => Selects
    BY <1>1 DEF CoreStepped
  <1>3. ue.state \in {"IDLE_RANDOM_ACCESS", "IDLE_CONNECTING"} => ~Releasing
    BY DEF Starts, Before
  <1>4. ASSUME ue.state \in Connected PROVE ~Releasing
    <2>1. Idle.state = "IDLE"
      BY DEF Idle
    <2>2. ue'.state \in Connected
      BY <1>1, <1>4, <2>1, UesMove DEF UeMoves, Connected, Accessing, Arriving, Connecting, Commanded
    <2>3. Releasing => Releasing' \/ ue'.state \notin Connected
      BY <1>4, ReleaseIsNext DEF Base
    <2> QED
      BY <1>1, <2>2, <2>3
  <1>5. ue.state \in {"IDLE", "IDLE_RANDOM_ACCESS", "IDLE_CONNECTING"} \cup Connected
    BY DEF Base, TypeInv, UeTyped, UeStates, Connected
  <1> QED
    BY <1>2, <1>3, <1>4, <1>5 DEF Live

(* A UE whose attach request is still to come has not sent it before.      *)
LEMMA BeforeMoves ==
    ASSUME Base, Effects, CoreStepped, Joins, Before'
    PROVE  Before \/ Selects
  <1>1. UeMoves
    BY UesMove
  <1>t. ue.state \in Connected => ue.at \in Places
    BY DEF Base, TypeInv, UeTyped, Connected
  <1>2. CASE UNCHANGED ue
    <2>1. CASE ue.state \in {"IDLE_RANDOM_ACCESS", "IDLE_CONNECTING"}
      BY <2>1 DEF Before
    <2>2. CASE ue.state = "CONNECTED_NORMALLY" /\ ctx'[ue.at].state = "CONNECTION_SETUP"
      <3>1. PICK p \in Places : p = ue.at
        BY <2>2, <1>t DEF Connected
      <3>2. Follows(p)
        BY AllFollow
      <3>3. ~\E m \in Msgs(rrc) : m.msg = "ConnectionRequest" /\ m.at = p /\ ctx[p].state = "INITIAL_RANDOM_ACCESS"
        BY <3>1, <2>2 DEF Base, Serving, Rightly
      <3>4. ctx'[p].state = "CONNECTION_SETUP"
        BY <2>2, <3>1
      <3>5. ctx[p].state \in ContextStates
        BY DEF Base, TypeInv, CellsTyped, Contexts
      <3>6. ctx[p].state = "CONNECTION_SETUP"
        BY <3>2, <3>3, <3>4, <3>5 DEF Follows, InPlace, Up, Left, Settling, ContextStates
      <3> QED
        BY <3>1, <3>6, <2>2 DEF Before
    <2> QED
      BY <2>1, <2>2, <1>2 DEF Before
  <1>3. CASE ue.state \notin Connected /\ ue'.state \notin Connected
    <2>1. ue'.state # "IDLE"
      BY DEF Before
    <2>2. ue.state \in {"IDLE", "IDLE_RANDOM_ACCESS", "IDLE_CONNECTING"}
      BY <1>3 DEF Base, TypeInv, UeTyped, UeStates, Connected
    <2>3. ue.state = "IDLE" => Selects
      BY <2>1 DEF CoreStepped
    <2> QED
      BY <2>2, <2>3 DEF Before
  <1>4. CASE ue' = Idle
    BY <1>4 DEF Idle, Before
  <1>5. ASSUME NEW p \in Places, Accessing(p) PROVE Before
    <2>1. CASE ue.state = "IDLE_RANDOM_ACCESS"
      BY <2>1 DEF Before
    <2>2. CASE ue.state # "IDLE_RANDOM_ACCESS"
      <3>1. ue'.state = "CONNECTED_NORMALLY" /\ ue'.at = p /\ ctx'[p].state = "INITIAL_RANDOM_ACCESS"
        BY <2>2, <1>5 DEF Accessing, Turned
      <3> QED
        BY <3>1 DEF Before
    <2> QED
      BY <2>1, <2>2
  <1>6. ASSUME Arriving PROVE FALSE
    <2>1. ue.state = "CONNECTED_HANDOVER" /\ ue'.state = "CONNECTED_NORMALLY" /\ ue'.at = ue.at /\ UNCHANGED ctx
      BY <1>6 DEF Arriving
    <2>2. Dest(ue.at) /\ ue.at \in Places
      BY <2>1, <1>t DEF Dest, Connected
    <2>3. ctx[ue.at].state \in {"HANDOVER_JOINING", "NONE"}
      BY <2>2 DEF Joins
    <2> QED
      BY <2>1, <2>3 DEF Before
  <1>7. ASSUME NEW m, Connecting(m) PROVE Before
    BY <1>7 DEF Connecting, Before
  <1>8. ASSUME NEW m, Commanded(m) PROVE FALSE
    BY <1>8 DEF Commanded, Before
  <1> QED
    BY <1>1, <1>2, <1>3, <1>4, <1>5, <1>6, <1>7, <1>8 DEF UeMoves

(* A bearer is in place when the MME answers, or when the UE comes.        *)
LEMMA UpMoves ==
    ASSUME Base, Effects, CoreStepped, NEW p \in Places, ctx'[p].state \in Up \cup {"HANDOVER_LEAVING"}
    PROVE  ctx[p].state \in Up \cup {"HANDOVER_LEAVING"} \/ Answers(p) \/ Modifies(p)
  <1>1. Follows(p) /\ Involves(p)
    BY AllFollow DEF CoreStepped
  <1>2. ctx[p].state \in ContextStates
    BY DEF Base, TypeInv, CellsTyped, Contexts
  <1> QED
    BY <1>1, <1>2 DEF Follows, Involves, Up, Settling, ContextStates

(* Nothing is prepared by contexts that are not there.                     *)
LEMMA QuietMoves ==
    ASSUME Base, Effects, NothingUp, X2Quiet
    PROVE  X2Quiet'
  <1>1. AskMoves
    BY AsksMove DEF Base
  <1>2. ASSUME NEW msg, Carried(msg)', ~Carried(msg), NEW p, p = 0
        PROVE \E s, d \in Cells : s # d /\ \E m : m.msg = msg /\ NewAsk(s, d, m)
    BY <1>1, <1>2 DEF Carried, AskMoves
  <1>3. ASSUME NEW s \in Cells, NEW d \in Cells, NEW m, NewAsk(s, d, m) PROVE m.msg \notin {"HandoverRequest", "HandoverRequestAck", "HandoverCancel"}
    BY <1>3 DEF NewAsk, X2Quiet, NothingUp, Prepares, TimesLeaving, Up
  <1>4. ASSUME NEW msg \in {"HandoverRequest", "HandoverRequestAck", "HandoverCancel"} PROVE ~Carried(msg)'
    <2>1. ~Carried(msg)
      BY <1>4 DEF X2Quiet
    <2> QED
      BY <2>1, <1>2, <1>3, <1>4
  <1> QED
    BY <1>4 DEF X2Quiet

(* While a connection lives nothing is deleted.                            *)
LEMMA LiveCore ==
    ASSUME Waits, Rests, Live
    PROVE  ~Deleting /\ (~CoreIdle => ue.at \in Places /\ ctx[ue.at].state \in Busy)
  <1>1. CASE ue.at \notin Places \/ ctx[ue.at].state \notin Busy
    BY <1>1, BusyWith DEF Rests
  <1>2. CASE ue.at \in Places /\ ctx[ue.at].state \in Busy
    <2>1. Creation(ue.at.cell) \/ Switching(ue.at.cell)
      BY <1>2 DEF Waits, Busy
    <2> QED
      BY <1>2, <2>1, BusyWith
  <1> QED
    BY <1>1, <1>2

(* The source of a handover hears of its end.                              *)
LEMMA SwitchGoes ==
    ASSUME Base, NEW q \in Places, Switches(q), NEW p, p = ctx[q].source
    PROVE  /\ p \in Places /\ p.cell # q.cell
           /\ Told(x2'[<<q.cell, p.cell>>], "UeContextRelease", p.rnti)
  <1>t. x2 \in [Links -> Seq(X2Msgs)]
    BY DEF Base, TypeInv, LinksTyped
  <1>1. p \in Places /\ p.cell # q.cell
    BY SwitchFacts
  <1>2. PICK n : n = X2("UeContextRelease", p.rnti, q.rnti, 0)
    OBVIOUS
  <1>3. n \in X2Msgs /\ n.msg = "UeContextRelease" /\ n.old = p.rnti
    BY <1>1, <1>2, X2Types, PlaceTypes DEF X2Names
  <1>4. x2' = [x2 EXCEPT ![<<q.cell, p.cell>>] = Append(@, n)]
    BY <1>2 DEF Switches, SendX2
  <1>5. <<q.cell, p.cell>> \in Links
    BY <1>1, PlaceTypes DEF Links
  <1>6. PICK k : k = <<q.cell, p.cell>>
    OBVIOUS
  <1>7. k \in Links /\ x2' = [x2 EXCEPT ![k] = Append(@, n)]
    BY <1>4, <1>5, <1>6
  <1>8. x2'[k] = Append(x2[k], n)
    BY <1>t, <1>7
  <1>9. x2[k] \in Seq(X2Msgs)
    BY <1>t, <1>7
  <1>10. n \in Mail(x2'[k])
    BY <1>3, <1>8, <1>9 DEF Mail
  <1> QED
    BY <1>1, <1>3, <1>6, <1>10 DEF Told

(* It hears of its failure.                                                *)
LEMMA RefusalGoes ==
    ASSUME Base, NEW q \in Places, ctx[q].state = "HANDOVER_JOINING", Refusal(q), NEW p, p = ctx[q].source
    PROVE  /\ p \in Places /\ p.cell # q.cell
           /\ Told(x2'[<<q.cell, p.cell>>], "PreparationFailure", p.rnti)
  <1>t. x2 \in [Links -> Seq(X2Msgs)]
    BY DEF Base, TypeInv, LinksTyped
  <1>1. p \in Places /\ p.cell # q.cell
    BY DEF Base, Allocated, CtxAllocated, Known
  <1>2. PICK n : n = X2("PreparationFailure", p.rnti, 0, 0)
    OBVIOUS
  <1>3. n \in X2Msgs /\ n.msg = "PreparationFailure" /\ n.old = p.rnti
    BY <1>1, <1>2, X2Types, PlaceTypes DEF X2Names
  <1>4. x2' = [x2 EXCEPT ![<<q.cell, p.cell>>] = Append(@, n)]
    BY <1>2 DEF Refusal, SendX2
  <1>5. <<q.cell, p.cell>> \in Links
    BY <1>1, PlaceTypes DEF Links
  <1>6. PICK k : k = <<q.cell, p.cell>>
    OBVIOUS
  <1>7. k \in Links /\ x2' = [x2 EXCEPT ![k] = Append(@, n)]
    BY <1>4, <1>5, <1>6
  <1>8. x2'[k] = Append(x2[k], n)
    BY <1>t, <1>7
  <1>9. x2[k] \in Seq(X2Msgs)
    BY <1>t, <1>7
  <1>10. n \in Mail(x2'[k])
    BY <1>3, <1>8, <1>9 DEF Mail
  <1> QED
    BY <1>1, <1>3, <1>6, <1>10 DEF Told


(***************************************************************************)
(* Every step keeps the invariant, part by part.                           *)
(***************************************************************************)

(* Nothing is carried when the links are idle.                             *)
LEMMA IdleLinks ==
    ASSUME TypeInv, BackhaulIdle
    PROVE  \A msg : ~Carried(msg)
  <1>1. ASSUME NEW s \in Cells, NEW d \in Cells, s # d PROVE Mail(x2[<<s, d>>]) = {}
    <2>1. <<s, d>> \in Links
      BY <1>1 DEF Links
    <2>2. x2[<<s, d>>] = <<>>
      BY <2>1 DEF BackhaulIdle
    <2> QED
      BY <2>2 DEF Mail
  <1> QED
    BY <1>1 DEF Carried

(* Sessions: one is counted or created while nothing else happens, and     *)
(* deleted as a whole.                                                     *)
LEMMA SessionsMove ==
    ASSUME Base, CoreEffect, CreatesAlone, SessionKnown
    PROVE  /\ Count' = Count \/ (Calm /\ Still /\ Creating /\ UNCHANGED pgw /\ pgw = NoSession)
           /\ \/ UNCHANGED pgw
              \/ Deleting /\ pgw' = NoSession /\ UNCHANGED sgw
              \/ /\ Creating /\ pgw' = Session /\ Count # 0 /\ UNCHANGED sgw
                 /\ Has(reply, {"CreateSessionResponse"})'
           /\ SessionKnown'
  <1>t. /\ sgw.teidCount \in Teids \cup {0} /\ pgw.bearer \in Teids \cup {0} /\ pgw.tfts \in SUBSET Teids
        /\ s11 \in Seq(CoreMsgs) /\ s5 \in Seq(CoreMsgs) /\ TypeInv
    BY DEF Base, TypeInv, CoreTyped, Requests, Responses
  <1>1. CASE UNCHANGED <<sgw, pgw>>
    BY <1>1 DEF SessionKnown, Session, NoSession, Count
  <1>2. CASE SgwMoves
    <2>1. PICK m \in CoreMsgs : m = Head(s11) /\
             \/ /\ m.msg = "CreateSessionRequest" /\ Count + 1 \in Teids
                /\ sgw' = [teidCount |-> Count + 1, enb |-> [sgw.enb EXCEPT ![Count + 1] = m.cell]]
             \/ /\ m.msg = "ModifyBearerRequest" /\ sgw' = [sgw EXCEPT !.enb[m.teid] = m.cell]
             \/ UNCHANGED sgw
      BY <1>2 DEF SgwMoves
    <2>2. Calm /\ Still /\ s11 # <<>> /\ UNCHANGED pgw
      BY <1>2 DEF SgwMoves
    <2>3. CASE m.msg = "CreateSessionRequest"
      <3>1. Len(s11) > 0 /\ s11[1] = m
        BY <1>t, <2>1, <2>2
      <3>2. Has(s11, {"CreateSessionRequest"})
        BY <1>t, <3>1, <2>3 DEF Has
      <3>3. Creating
        BY <3>2 DEF Creating, InCore
      <3>4. pgw = NoSession
        BY <3>3, <2>2 DEF CreatesAlone, Creation
      <3> QED
        BY <2>2, <3>3, <3>4 DEF SessionKnown, NoSession
    <2>4. CASE m.msg # "CreateSessionRequest"
      <3>1. sgw \in [teidCount : Teids \cup {0}, enb : [Teids -> Cells \cup {0}]]
        BY <1>t DEF TypeInv, CoreTyped
      <3>2. sgw'.teidCount = sgw.teidCount
        BY <2>1, <2>4, <3>1
      <3> QED
        BY <2>2, <3>2 DEF SessionKnown, Session, NoSession, Count
    <2> QED
      BY <2>3, <2>4
  <1>3. CASE PgwMoves
    <2>1. PICK m \in CoreMsgs : m = Head(s5) /\
             \/ m.msg = "CreateSessionRequest" /\ pgw' = [bearer |-> m.teid, tfts |-> pgw.tfts \cup {m.teid}]
             \/ m.msg = "DeleteBearerResponse" /\ pgw' = [bearer |-> 0, tfts |-> pgw.tfts \ {pgw.bearer}]
             \/ UNCHANGED pgw
      BY <1>3 DEF PgwMoves
    <2>2. s5 # <<>> /\ UNCHANGED sgw
      BY <1>3 DEF PgwMoves
    <2>3. s5[1] = m /\ Len(s5) > 0
      BY <1>t, <2>1, <2>2
    <2>4. CASE m.msg = "CreateSessionRequest" /\ pgw' = [bearer |-> m.teid, tfts |-> pgw.tfts \cup {m.teid}]
      <3>1. Has(s5, {"CreateSessionRequest"})
        BY <1>t, <2>3, <2>4 DEF Has
      <3>2. Creating
        BY <3>1 DEF Creating, InCore
      <3>3. PICK c \in Cells : Creation(c)
        BY <3>2 DEF CreatesAlone
      <3>4. PICK n : n = Gtpc("CreateSessionRequest", c, Count)
        OBVIOUS
      <3>5. s5 = <<n>> /\ pgw = NoSession /\ Count # 0
        BY <3>3, <3>4, <2>2 DEF Creation
      <3>6. m.teid = Count
        BY <3>4, <3>5, <2>3 DEF Gtpc
      <3>7. pgw' = Session
        BY <2>4, <3>5, <3>6 DEF NoSession, Session
      <3>8. SessionKnown'
        BY <3>7, <3>5, <2>2 DEF SessionKnown, Session, Count
      <3>9. UNCHANGED pgw \/ Deleting \/ Has(reply, {"CreateSessionResponse"})'
        <4>1. ~Deleting
          BY <3>3, BusyWith
        <4>2. pgw' # pgw
          BY <3>5, <3>7 DEF Session, NoSession
        <4> QED
          BY <4>1, <4>2, <1>t, CoreFlows
      <3>10. ~Deleting
        BY <3>3, BusyWith
      <3>11. pgw' # pgw
        BY <3>5, <3>7 DEF Session, NoSession
      <3> QED
        BY <3>2, <3>5, <3>7, <3>8, <3>9, <3>10, <3>11, <2>2 DEF Count
    <2>5. CASE m.msg = "DeleteBearerResponse" /\ pgw' = [bearer |-> 0, tfts |-> pgw.tfts \ {pgw.bearer}]
      <3>1. Has(s5, {"DeleteBearerCommand", "DeleteBearerResponse"})
        BY <1>t, <2>3, <2>5 DEF Has
      <3>2. Deleting
        BY <3>1 DEF Deleting, InCore
      <3>3. pgw' = NoSession
        BY <2>5 DEF SessionKnown, NoSession, Session
      <3> QED
        BY <3>2, <3>3, <2>2 DEF Count, SessionKnown, NoSession
    <2>6. CASE UNCHANGED pgw
      BY <1>1, <2>2, <2>6
    <2> QED
      BY <2>1, <2>4, <2>5, <2>6
  <1>4. CoreEffect => UNCHANGED <<sgw, pgw>> \/ SgwMoves \/ PgwMoves
    BY DEF CoreEffect, Creates, Modifies, Deletes, Answers, Acknowledges, Sends, Takes, MmeMoves, Core
  <1> QED
    BY <1>1, <1>2, <1>3, <1>4

(* A context that cancels a handover releases the UE.                      *)
LEMMA StaysCancelsLate ==
    ASSUME Base, CancelsLate, conf.fastLinks, Starts, Effects, CoreStepped
    PROVE  CancelsLate'
  <1> SUFFICES ASSUME Live', NEW s \in Cells, NEW d \in Cells, s # d,
                      NEW m \in Mail(x2'[<<s, d>>]), m.msg = "HandoverCancel"
               PROVE  FALSE
    BY DEF CancelsLate, Carried
  <1>1. CASE NewAsk(s, d, m)
    <2>1. PICK p \in Places : TimesLeaving(p)
      BY <1>1 DEF NewAsk
    <2>2. Due("Release", p)'
      BY <2>1 DEF TimesLeaving, Raised, Said, Due, Rrc
    <2>3. Releasing'
      BY <2>2 DEF Releasing
    <2> QED
      BY <2>3 DEF Live
  <1>2. CASE m \in Mail(x2[<<s, d>>])
    <2>1. Carried("HandoverCancel")
      BY <1>2 DEF Carried
    <2>2. Live \/ Selects
      BY LiveMoves
    <2>3. CASE Selects
      BY <2>1, <2>3, IdleLinks DEF Selects, Base
    <2> QED
      BY <2>1, <2>2, <2>3 DEF CancelsLate
  <1>3. AskMoves
    BY AsksMove DEF Base
  <1> QED
    BY <1>1, <1>2, <1>3 DEF AskMoves

(* A UE that waits for an answer has no bearer where it waits.             *)
LEMMA StaysConnects ==
    ASSUME Base, Connects, Effects, TypeInv'
    PROVE  Connects'
  <1> SUFFICES ASSUME ue'.state = "IDLE_CONNECTING"
               PROVE  ctx'[ue'.at].state \in {"INITIAL_RANDOM_ACCESS", "CONNECTION_SETUP", "CONNECTION_REJECTED", "NONE"}
    BY DEF Connects
  <1>1. PICK p : p = ue'.at
    OBVIOUS
  <1>2. p \in Places
    BY <1>1 DEF TypeInv, UeTyped
  <1>3. UeMoves
    BY UesMove
  <1>4. CASE UNCHANGED ue
    <2>1. ue.state = "IDLE_CONNECTING" /\ ue.at = p /\ Known(p)
      BY <1>1, <1>2, <1>4 DEF Base, Allocated, UeAllocated
    <2>2. ctx[p].state \in {"INITIAL_RANDOM_ACCESS", "CONNECTION_SETUP", "CONNECTION_REJECTED", "NONE"}
      BY <2>1 DEF Connects
    <2>3. Follows(p)
      BY <1>2, AllFollow
    <2>4. ContextMoves
      BY ContextsMove
    <2>5. ctx'[p].state # "ATTACH_REQUEST"
      BY <1>2, <2>1, <2>2, <2>4 DEF ContextMoves, Here, ServingStates
    <2> QED
      BY <1>1, <2>1, <2>2, <2>3, <2>5 DEF Follows
  <1>5. ASSUME NEW q \in Places, Accessing(q) PROVE ctx'[p].state = "INITIAL_RANDOM_ACCESS"
    BY <1>1, <1>2, <1>5 DEF Accessing, Turned
  <1> QED
    BY <1>1, <1>2, <1>3, <1>4, <1>5 DEF UeMoves, Idle, Arriving, Connecting, Commanded, Connected

(* The UE is sent to contexts that wait for it, or have gone.              *)
LEMMA StaysJoins ==
    ASSUME Base, Joins, Effects
    PROVE  Joins'
  <1> SUFFICES ASSUME NEW q \in Places, Dest(q)'
               PROVE  ctx'[q].state \in {"HANDOVER_JOINING", "NONE"}
    BY DEF Joins
  <1>1. CASE Dest(q)
    <2>1. Known(q) /\ ctx[q].state \in {"HANDOVER_JOINING", "NONE"}
      BY <1>1, DestKnown DEF Joins
    <2>2. ~Here(q)
      BY <1>1 DEF Base, Serving, NewIsNoTarget
    <2>3. Follows(q) /\ Fate(q)
      BY AllFollow, Fates
    <2> QED
      BY <2>1, <2>2, <2>3 DEF Follows, Fate
  <1> QED
    BY <1>1, DestMoves

(* The eNB that asks the core network, and the one that hears from it, has *)
(* the UE.                                                                 *)
LEMMA CoreHere ==
    ASSUME Base, Effects, NEW p \in Places
    PROVE  /\ Creates(p) => Here(p) /\ UNCHANGED ue /\ Before
           /\ Modifies(p) => Here(p) /\ ~Releasing
           /\ Answers(p) \/ Acknowledges(p) => Here(p)
  <1>1. ASSUME Creates(p) PROVE Here(p) /\ UNCHANGED ue /\ Before
    <2>1. ctx[p].state = "CONNECTION_SETUP" /\ ctx'[p].state = "ATTACH_REQUEST"
      BY <1>1 DEF Creates
    <2>2. Here(p) /\ UNCHANGED ue
      BY <2>1, ContextsMove DEF ContextMoves, ServingStates
    <2> QED
      BY <2>1, <2>2 DEF Here, Before
  <1>2. ASSUME Modifies(p) PROVE Here(p) /\ ~Releasing
    <2>1. ctx[p].state = "HANDOVER_JOINING" /\ ctx'[p].state = "HANDOVER_PATH_SWITCH"
      BY <1>2 DEF Modifies
    <2>2. Here(p)
      BY <2>1, Fates DEF Fate
    <2>3. PICK m \in RrcMsgs : Heard(m) /\ m.msg \in Completed
      BY <1>2 DEF Modifies, Completes
    <2>4. ~Releasing
      BY <2>3 DEF Releasing, Due, Heard, Calm, Completed
    <2> QED
      BY <2>2, <2>4
  <1>3. ASSUME Answers(p) \/ Acknowledges(p) PROVE Here(p)
    <2>1. Calm /\ ctx[p].state \in ServingStates
      BY <1>3 DEF Answers, Acknowledges, Takes, ServingStates
    <2> QED
      BY <2>1, ServedHere DEF Base
  <1> QED
    BY <1>1, <1>2, <1>3

(* Until the UE sends its attach request nothing happens in the core.      *)
LEMMA BeforeIdle ==
    ASSUME Base, Rests, Starts, Connects, Before
    PROVE  CoreIdle /\ Live
  <1>1. Live
    BY DEF Live, Before, Starts
  <1>2. CASE ue.state = "IDLE_RANDOM_ACCESS"
    <2>1. ue.at.rnti = 0
      BY <1>2 DEF Base, TypeInv, UeTyped
    <2>2. ue.at \notin Places
      BY <2>1, PlaceTypes DEF Places
    <2> QED
      BY <1>1, <2>2 DEF Rests
  <1>3. CASE ue.state # "IDLE_RANDOM_ACCESS"
    <2>1. ctx[ue.at].state \notin Busy
      BY <1>3 DEF Before, Connects, Busy
    <2> QED
      BY <1>1, <2>1 DEF Rests
  <1> QED
    BY <1>2, <1>3

(* While a session is created nobody asks for anything else.               *)
LEMMA CreatingStill ==
    ASSUME Base, Rests, Starts, Connects, CreatesAlone, Effects, Creating, NEW p \in Places
    PROVE  ~Creates(p) /\ ~Modifies(p) /\ ~Deletes(p)
  <1>1. ~CoreIdle
    BY BusyWith
  <1>2. ~Creates(p)
    BY <1>1, CoreHere, BeforeIdle
  <1>3. ~Modifies(p)
    <2> SUFFICES ASSUME Modifies(p) PROVE FALSE
      OBVIOUS
    <2>1. Here(p) /\ ~Releasing
      BY CoreHere
    <2>2. Live /\ ue.at = p
      BY <2>1 DEF Live, Here
    <2>3. ctx[p].state \notin Busy
      BY DEF Modifies, Busy
    <2> QED
      BY <1>1, <2>2, <2>3 DEF Rests
  <1>4. ~Deletes(p)
    <2> SUFFICES ASSUME Deletes(p) PROVE FALSE
      OBVIOUS
    <2>1. NothingUp /\ X2Quiet /\ (Removing(p) => ctx[p].state = "NONE" \/ ctx[p].teid = 0)
      BY DEF CreatesAlone
    <2> QED
      BY <2>1 DEF Deletes, NothingUp, X2Quiet
  <1> QED
    BY <1>2, <1>3, <1>4

(* While a connection lives nobody deletes anything.                       *)
LEMMA LiveStays ==
    ASSUME Base, CancelsLate, Live, Live', NEW p \in Places
    PROVE  ~Deletes(p) /\ ~Removing(p)
  <1>1. ~Removing(p)
    BY DEF Base, Serving, Addressed, Removing, Due, Live, Idle
  <1> QED
    BY <1>1 DEF Deletes, Live, CancelsLate

(* Before the UE attaches nothing is left of the last time.                *)
LEMMA StaysStarts ==
    ASSUME Base, conf.fastLinks, Effects, CoreStepped,
           Rests, Starts, Connects, Joins, CreatesAlone, SessionKnown, SessionEnds, LeavingEnds
    PROVE  Starts'
  <1> SUFFICES ASSUME Before'
               PROVE  pgw' = NoSession /\ NothingUp' /\ X2Quiet' /\ ~Releasing'
    BY DEF Starts, NoSession
  <1>b. Before \/ Selects
    BY BeforeMoves
  <1>1. CASE Before
    <2>1. pgw = NoSession /\ NothingUp /\ X2Quiet /\ ~Releasing
      BY <1>1 DEF Starts
    <2>2. CoreIdle /\ Live
      BY <1>1, BeforeIdle
    <2>3. X2Quiet'
      BY <2>1, QuietMoves
    <2>4. ~Releasing'
      BY <2>1, ReleasingMoves DEF NothingUp
    <2>5. ASSUME NEW p \in Places PROVE ctx'[p].state \notin Up \cup {"HANDOVER_LEAVING"}
      <3>1. ctx[p].state \notin Up \cup {"HANDOVER_LEAVING"}
        BY <2>1 DEF NothingUp
      <3>2. ~Here(p) \/ ctx[p].state = "CONNECTION_SETUP"
        BY <1>1 DEF Before, Here
      <3>3. ~Answers(p) /\ ~Modifies(p)
        BY <3>2, CoreHere DEF Answers, Modifies
      <3> QED
        BY <3>1, <3>3, UpMoves
    <2>6. NothingUp'
      BY <2>5 DEF NothingUp, Up
    <2>7. ~Creating
      BY <2>2, BusyWith
    <2>8. CoreEffect
      BY DEF CoreStepped
    <2>9. pgw' = NoSession
      BY <2>1, <2>7, <2>8, SessionsMove
    <2> QED
      BY <2>3, <2>4, <2>6, <2>9
  <1>2. CASE ~Before
    <2>1. Calm /\ BackhaulIdle /\ CoreIdle /\ UNCHANGED <<ctx, x2, rrc>> /\ UNCHANGED pgw
          /\ ue'.state = "IDLE_RANDOM_ACCESS"
      BY <1>b, <1>2 DEF Selects, Core, BackhaulIdle
    <2>2. ue.state \notin Connected
      BY <1>2, <2>1, UesMove DEF UeMoves, Before, Idle, Accessing, Arriving, Connecting, Commanded, Connected
    <2>3. \A p : ~Removing(p) /\ ~Here(p)
      BY <2>1, <2>2, CalmFacts DEF Here, Connected
    <2>4. ASSUME NEW p \in Places PROVE ctx[p].state \notin Up
      BY <2>3, ServedHere, <2>1 DEF Base, Up, ServingStates, Serving, Served
    <2>5. ~Modifying /\ ~Deleting /\ ~Has(reply, {"CreateSessionResponse"})
      BY <2>1, BusyWith
    <2>6. ASSUME NEW p \in Places, ctx[p].state = "HANDOVER_LEAVING" PROVE FALSE
      <3>1. PICK q : q = ctx[p].target
        OBVIOUS
      <3>2. /\ q \in Places /\ q.cell # p.cell
            /\ \/ OfferedBy(p, q) /\ ((ue.state \in Connected /\ ue.at \in {p, q}) \/ Removing(p) \/ Removing(q))
               \/ ctx[q].state = "HANDOVER_PATH_SWITCH" /\ ctx[q].source = p
               \/ Hearing(p, q)
               \/ Modifying /\ ue = Idle
        BY <2>6, <3>1 DEF LeavingEnds
      <3>3. ctx[q].state # "HANDOVER_PATH_SWITCH"
        BY <2>4, <3>2 DEF Up
      <3>4. <<q.cell, p.cell>> \in Links
        BY <3>2, PlaceTypes DEF Links
      <3>5. x2[<<q.cell, p.cell>>] = <<>>
        BY <3>4, <2>1 DEF BackhaulIdle
      <3>6. ~Hearing(p, q)
        BY <3>5 DEF Hearing, Told, Mail
      <3> QED
        BY <2>2, <2>3, <2>5, <3>2, <3>3, <3>6
    <2>7. NothingUp
      BY <2>4, <2>6 DEF NothingUp
    <2>8. pgw = NoSession
      BY <2>5, <2>7 DEF SessionKnown, SessionEnds, NothingUp
    <2>9. X2Quiet
      BY <2>1, IdleLinks DEF X2Quiet, Base
    <2>10. ~Releasing
      BY <2>1 DEF Calm, Releasing, Due
    <2> QED
      BY <2>1, <2>7, <2>8, <2>9, <2>10 DEF NothingUp, X2Quiet, Carried, Releasing, Due
  <1> QED
    BY <1>1, <1>2

(* When a connection has its bearer nothing happens in the core.           *)
LEMMA StaysRests ==
    ASSUME Base, conf.fastLinks, Effects, CoreStepped, Base',
           Waits, Rests, Starts, CancelsLate
    PROVE  Rests'
  <1> SUFFICES ASSUME Live', ue'.at \notin Places \/ ctx'[ue'.at].state \notin Busy
               PROVE  CoreIdle'
    BY DEF Rests
  <1>t. TypeInv /\ CoreEffect
    BY DEF Base, CoreStepped
  <1>1. CASE Selects
    <2>1. BackhaulIdle /\ UNCHANGED <<s11, s5, reply>>
      BY <1>1 DEF Selects, Core
    <2> QED
      BY <2>1 DEF BackhaulIdle, CoreIdle
  <1>2. CASE Live /\ (ue.at \notin Places \/ ctx[ue.at].state \notin Busy)
    <2>1. CoreIdle
      BY <1>2 DEF Rests
    <2>2. ASSUME NEW p \in Places, Creates(p) \/ Modifies(p) PROVE FALSE
      <3>1. ctx'[p].state \in Busy /\ ctx'[p].state \in ServingStates /\ rrc'["now"] = <<>>
        BY <2>2 DEF Creates, Modifies, Busy, ServingStates, Completes, Quietly
      <3>2. Here(p)' \/ Removing(p)'
        BY <3>1 DEF Base, Serving, Served
      <3>3. ~Removing(p)'
        BY <3>1 DEF Removing, Due
      <3>4. ue'.at = p
        BY <3>2, <3>3 DEF Here
      <3> QED
        BY <3>1, <3>4
    <2>3. \A p \in Places : ~Deletes(p)
      BY <1>2, LiveStays
    <2>4. CASE UNCHANGED Core
      BY <2>1, <2>4 DEF Core, CoreIdle
    <2> QED
      BY <1>t, <2>1, <2>2, <2>3, <2>4 DEF CoreEffect, CoreIdle, Answers, Acknowledges, Takes, SgwMoves, PgwMoves, MmeMoves
  <1>3. CASE Live /\ ue.at \in Places /\ ctx[ue.at].state \in Busy
    <2>1. PICK w \in Places : w = ue.at
      BY <1>3
    <2>2. ctx[w].state \in Busy /\ ~Removing(w)
      BY <1>3, <2>1, LiveStays
    <2>3. Here(w)
      BY <2>2 DEF Base, Serving, Served, Busy, ServingStates
    <2>4. ctx'[w].state # "NONE" /\ ctx[w].state \notin Left
      BY <2>2, Fates DEF Fate, Busy, ServingStates, Left
    <2>5. Here(w)' \/ Removing(w)'
      BY <2>3, <2>4, HereMoves
    <2>6. ~Removing(w)'
      BY DEF Base, Serving, Addressed, Removing, Due, Live, Idle
    <2>7. ctx'[w].state \notin Busy
      BY <2>5, <2>6 DEF Here
    <2>8. Answers(w) \/ Acknowledges(w)
      <3>1. Involves(w)
        BY DEF CoreStepped
      <3> QED
        BY <3>1, <2>2, <2>4, <2>7 DEF Involves, Busy
    <2>9. w.cell \in Cells
      BY PlaceTypes
    <2>10. CASE Answers(w)
      <3>1. Creation(w.cell)
        BY <2>10 DEF Answers, Waits
      <3> QED
        BY <2>9, <2>10, <3>1, <1>t, BeginsAndEnds
    <2>11. CASE Acknowledges(w)
      <3>1. Switching(w.cell)
        BY <2>11, <1>3 DEF Acknowledges, Waits
      <3> QED
        BY <2>9, <2>11, <3>1, <1>t, BeginsAndEnds
    <2> QED
      BY <2>8, <2>10, <2>11
  <1> QED
    BY <1>1, <1>2, <1>3, LiveMoves

(* The core network is busy with what a context waits for.                 *)
LEMMA StaysWaits ==
    ASSUME Base, conf.fastLinks, Effects, CoreStepped, Base',
           Waits, Rests, Starts, Connects, CreatesAlone, CancelsLate, TeidsAgree
    PROVE  Waits'
  <1>t. TypeInv /\ CoreEffect
    BY DEF Base, CoreStepped
  <1>1. ASSUME NEW p \in Places, ctx'[p].state = "ATTACH_REQUEST" PROVE Creation(p.cell)'
    <2>0. p.cell \in Cells
      BY PlaceTypes
    <2>1. ctx[p].state = "ATTACH_REQUEST" \/ Creates(p)
      <3>1. Involves(p)
        BY DEF CoreStepped
      <3> QED
        BY <3>1, <1>1 DEF Involves
    <2>2. CASE Creates(p)
      <3>1. Before
        BY <2>2, CoreHere
      <3>2. CoreIdle /\ pgw = NoSession
        BY <3>1, BeforeIdle DEF Starts
      <3> QED
        BY <1>t, <2>2, <3>2, BeginsAndEnds
    <2>3. CASE ctx[p].state = "ATTACH_REQUEST"
      <3>1. Creation(p.cell)
        BY <2>3 DEF Waits
      <3>2. Creating
        BY <3>1, BusyWith
      <3>3. \A q \in Places : ~Creates(q) /\ ~Modifies(q) /\ ~Deletes(q)
        BY <3>2, CreatingStill
      <3>4. ASSUME NEW q \in Places, Answers(q) PROVE FALSE
        <4>1. Here(q) /\ Calm
          BY <3>4, CoreHere DEF Answers, Takes
        <4>2. Here(p)
          BY <4>1, <2>3, ServedHere DEF Base, ServingStates
        <4>3. p = q
          BY <4>1, <4>2 DEF Here
        <4> QED
          BY <3>4, <4>3, <1>1 DEF Answers
      <3> QED
        BY <1>t, <2>0, <3>1, <3>3, <3>4, CreationMoves
    <2> QED
      BY <2>1, <2>2, <2>3
  <1>2. ASSUME NEW p \in Places, ctx'[p].state = "HANDOVER_PATH_SWITCH"
        PROVE  Modifying' /\ (Live' => Switching(p.cell)')
    <2>0. p.cell \in Cells
      BY PlaceTypes
    <2>1. ctx[p].state = "HANDOVER_PATH_SWITCH" \/ Modifies(p)
      <3>1. Involves(p)
        BY DEF CoreStepped
      <3> QED
        BY <3>1, <1>2 DEF Involves
    <2>2. CASE Modifies(p)
      <3>1. Here(p) /\ ~Releasing
        BY <2>2, CoreHere
      <3>2. Live /\ ue.at = p /\ ctx[p].state = "HANDOVER_JOINING" /\ ue.state \in Connected
        BY <3>1, <2>2 DEF Live, Here, Modifies, Connected
      <3>3. CoreIdle
        BY <3>2 DEF Rests, Busy
      <3>4. Teid(p)
        BY DEF TeidsAgree
      <3>5. ctx[p].teid = Count
        BY <3>2, <3>4 DEF Teid
      <3>6. Switching(p.cell)'
        BY <1>t, <2>2, <3>3, <3>5, BeginsAndEnds
      <3>7. s11' = <<Gtpc("ModifyBearerRequest", p.cell, Count)>>
        BY <2>2, <3>3, <3>5 DEF Modifies, Sends, CoreIdle
      <3>8. PICK m : m = Gtpc("ModifyBearerRequest", p.cell, Count)
        OBVIOUS
      <3>9. s11' = <<m>> /\ m.msg = "ModifyBearerRequest"
        BY <3>7, <3>8 DEF Gtpc
      <3>10. Has(s11', {"ModifyBearerRequest"})
        BY <3>9, HasEmpty
      <3> QED
        BY <3>6, <3>10 DEF Modifying, InCore, Has
    <2>3. CASE ctx[p].state = "HANDOVER_PATH_SWITCH"
      <3>1. Modifying
        BY <2>3 DEF Waits
      <3>2. ASSUME NEW q \in Places, Acknowledges(q) PROVE FALSE
        <4>1. Here(q) /\ Calm
          BY <3>2, CoreHere DEF Acknowledges, Takes
        <4>2. Here(p)
          BY <4>1, <2>3, ServedHere DEF Base, ServingStates
        <4>3. p = q
          BY <4>1, <4>2 DEF Here
        <4> QED
          BY <3>2, <4>3, <1>2 DEF Acknowledges
      <3>3. Modifying'
        BY <1>t, <3>1, <3>2, CoreFlows
      <3>4. ASSUME Live' PROVE Switching(p.cell)'
        <4>1. ~Removing(p)'
          BY <3>4 DEF Base, Serving, Addressed, Removing, Due, Live, Idle
        <4>2. Here(p)'
          BY <1>2, <4>1 DEF Base, Serving, Served, ServingStates
        <4>3. Live
          BY <3>4, <4>2, LiveMoves DEF Selects, Here
        <4>4. \A q \in Places : ~Deletes(q) /\ ~Removing(q)
          BY <3>4, <4>3, LiveStays
        <4>5. Here(p)
          BY <2>3, <4>4 DEF Base, Serving, Served, ServingStates
        <4>6. Switching(p.cell)
          BY <2>3, <4>3 DEF Waits
        <4>7. ASSUME NEW q \in Places, Creates(q) \/ Modifies(q) PROVE FALSE
          <5>1. Here(q)
            BY <4>7, CoreHere
          <5>2. p = q
            BY <4>5, <5>1 DEF Here
          <5> QED
            BY <4>7, <5>2, <2>3 DEF Creates, Modifies
        <4>8. Count # 0
          BY <2>3 DEF TeidsAgree, Teid, Up
        <4> QED
          BY <1>t, <2>0, <3>2, <4>4, <4>6, <4>7, <4>8, SwitchingMoves
      <3> QED
        BY <3>3, <3>4
    <2> QED
      BY <2>1, <2>2, <2>3
  <1> QED
    BY <1>1, <1>2 DEF Waits

(* A session is created alone.                                             *)
LEMMA StaysCreatesAlone ==
    ASSUME Base, conf.fastLinks, Effects, CoreStepped, Base',
           Waits, Rests, Starts, Connects, CreatesAlone, TeidsAgree
    PROVE  CreatesAlone'
  <1> SUFFICES ASSUME Creating'
               PROVE  /\ \E c \in Cells : Creation(c)'
                      /\ NothingUp' /\ X2Quiet' /\ ~Releasing'
                      /\ \A p \in Places : Removing(p)' => ctx'[p].state = "NONE" \/ ctx'[p].teid = 0
    BY DEF CreatesAlone
  <1>t. TypeInv /\ CoreEffect
    BY DEF Base, CoreStepped
  <1>n. ASSUME NothingUp, \A p \in Places : ~Answers(p) /\ ~Modifies(p) PROVE NothingUp'
    <2>1. \A p \in Places : ctx'[p].state \notin Up \cup {"HANDOVER_LEAVING"}
      BY <1>n, UpMoves DEF NothingUp
    <2> QED
      BY <2>1 DEF NothingUp, Up
  <1>1. ASSUME NEW q \in Places, Creates(q), ~Creating
        PROVE  /\ \E c \in Cells : Creation(c)'
               /\ NothingUp' /\ X2Quiet' /\ ~Releasing'
               /\ \A p \in Places : Removing(p)' => ctx'[p].state = "NONE" \/ ctx'[p].teid = 0
    <2>1. Here(q) /\ Before
      BY <1>1, CoreHere
    <2>2. CoreIdle /\ pgw = NoSession /\ NothingUp /\ X2Quiet
      BY <2>1, BeforeIdle DEF Starts
    <2>3. Creation(q.cell)' /\ q.cell \in Cells
      BY <1>t, <1>1, <2>2, BeginsAndEnds, PlaceTypes
    <2>4. ASSUME NEW p \in Places PROVE ~Answers(p) /\ ~Modifies(p)
      <3>1. Answers(p) \/ Modifies(p) => Here(p)
        BY CoreHere
      <3>2. Here(p) => p = q
        BY <2>1 DEF Here
      <3> QED
        BY <3>1, <3>2, <1>1 DEF Answers, Modifies, Creates
    <2>5. NothingUp'
      BY <1>n, <2>2, <2>4
    <2>6. X2Quiet'
      BY <2>2, QuietMoves
    <2>7. rrc'["now"] = <<>>
      BY <1>1 DEF Creates, Completes, Quietly
    <2>8. ~Releasing' /\ \A p : ~Removing(p)'
      BY <2>7 DEF Releasing, Removing, Due
    <2> QED
      BY <2>3, <2>5, <2>6, <2>8
  <1>2. CASE Creating
    <2>1. NothingUp /\ X2Quiet /\ ~Releasing
      BY <1>2 DEF CreatesAlone
    <2>2. \A p \in Places : ~Creates(p) /\ ~Modifies(p) /\ ~Deletes(p)
      BY <1>2, CreatingStill
    <2>3. PICK c \in Cells : Creation(c)
      BY <1>2 DEF CreatesAlone
    <2>4. ASSUME NEW p \in Places, Answers(p) PROVE FALSE
      <3>1. CoreIdle'
        BY <1>t, <2>3, <2>4, BeginsAndEnds
      <3>2. s11' = <<>> /\ s5' = <<>> /\ reply' = <<>>
        BY <3>1 DEF CoreIdle
      <3>3. ~Creating'
        BY <3>2 DEF Creating, InCore, Has
      <3> QED
        BY <3>3
    <2>5. Creation(c)'
      BY <1>t, <2>2, <2>3, <2>4, CreationMoves
    <2>6. NothingUp'
      BY <1>n, <2>1, <2>2, <2>4
    <2>7. X2Quiet'
      BY <2>1, QuietMoves
    <2>8. ~Releasing'
      BY <2>1, ReleasingMoves DEF NothingUp
    <2>9. ASSUME NEW p \in Places, Removing(p)' PROVE ctx'[p].state = "NONE" \/ ctx'[p].teid = 0
      <3>1. CASE Removing(p)
        <4>1. ctx[p].state = "NONE" \/ ctx[p].teid = 0
          BY <1>2, <3>1 DEF CreatesAlone
        <4>2. ~Calm
          BY <3>1, CalmFacts
        <4>3. ~Answers(p)
          BY <2>4
        <4>4. Known(p)
          <5>1. PICK m \in RrcMsgs : rrc["now"] = <<m>> /\ m.at = p
            BY <3>1 DEF Removing, Due
          <5>2. "now" \in Channels /\ Len(rrc["now"]) = 1 /\ rrc["now"][1] = m
            BY <5>1 DEF Channels
          <5>3. m \in Msgs(rrc)
            BY <5>2 DEF Msgs
          <5> QED
            BY <5>1, <5>3 DEF Base, Allocated, RrcAllocated
        <4>5. Involves(p)
          BY DEF CoreStepped
        <4> QED
          BY <4>1, <4>3, <4>4, <4>5 DEF Involves, Joined
      <3>2. CASE ue.state \in Connected /\ ue.at = p /\ UNCHANGED <<ctx, x2>>
        <4>1. Live /\ ~CoreIdle
          BY <1>2, <2>1, <3>2, BusyWith DEF Live, Connected
        <4>2. ctx[p].state \in Busy
          BY <4>1, <3>2 DEF Rests
        <4>3. ctx[p].state = "ATTACH_REQUEST"
          BY <4>2, <2>1 DEF Busy, NothingUp, Up
        <4>4. ctx[p].teid = 0
          BY <4>3 DEF TeidsAgree, Teid, Early
        <4> QED
          BY <3>2, <4>4
      <3> QED
        BY <2>9, <3>1, <3>2, RemovalBegins
    <2> QED
      BY <2>5, <2>6, <2>7, <2>8, <2>9
  <1>3. Creating \/ \E q \in Places : Creates(q)
    BY <1>t, CoreFlows
  <1> QED
    BY <1>1, <1>2, <1>3

(* One TEID is used.                                                       *)
LEMMA StaysTeidsAgree ==
    ASSUME Base, conf.fastLinks, Effects, CoreStepped,
           Waits, Rests, Connects, CreatesAlone, TeidsAgree, SessionKnown, SessionStays
    PROVE  TeidsAgree'
  <1>t. TypeInv /\ CoreEffect
    BY DEF Base, CoreStepped
  <1>1. CASE Count' # Count
    <2>1. Still /\ Creating
      BY <1>1, <1>t, SessionsMove
    <2>2. NothingUp /\ X2Quiet /\ ~Releasing /\ ~CoreIdle
      BY <2>1, BusyWith DEF CreatesAlone
    <2>3. UNCHANGED <<ue, ctx, x2, rrc>>
      BY <2>1 DEF Still
    <2>4. ASSUME NEW p \in Places, ctx[p].state = "HANDOVER_JOINING" PROVE ~Dest(p) /\ ~(ue.state \in Connected /\ ue.at = p)
      <3>1. ASSUME ue.state \in Connected, ctx[ue.at].state \notin Busy PROVE FALSE
        BY <3>1, <2>2 DEF Rests, Live, Connected
      <3>2. ~(ue.state \in Connected /\ ue.at = p)
        BY <3>1, <2>4 DEF Busy
      <3>3. ASSUME NEW m \in Msgs(rrc), m.msg = "HandoverCommand", m.at = ue.at PROVE FALSE
        <4>1. Rightly(m)
          BY DEF Base, Serving
        <4> QED
          BY <4>1, <3>1, <3>3 DEF Rightly, Left, Busy, Connected
      <3>4. \A o \in Places : ~Offering(o, p)
        BY <2>2 DEF Offering, NothingUp, Up
      <3> QED
        BY <3>2, <3>3, <3>4 DEF Dest, Connected
    <2>5. ASSUME NEW p \in Places PROVE Teid(p)'
      <3>1. ctx[p].state \notin Up \cup {"HANDOVER_LEAVING"}
        BY <2>2 DEF NothingUp
      <3>2. ctx[p].state \in Early => ctx[p].teid = 0
        BY DEF TeidsAgree, Teid
      <3>3. ctx[p].state = "HANDOVER_JOINING" => ~Dest(p)' /\ ~(ue'.state \in Connected /\ ue'.at = p)
        BY <2>3, <2>4 DEF Dest, Offering
      <3> QED
        BY <2>3, <3>1, <3>2, <3>3 DEF Teid
    <2>6. \A s, d \in Cells : s # d => \A m \in Mail(x2'[<<s, d>>]) : m.msg # "HandoverRequest"
      BY <2>2, <2>3 DEF X2Quiet, Carried
    <2> QED
      BY <2>5, <2>6 DEF TeidsAgree
  <1>2. CASE Count' = Count
    <2>1. ASSUME NEW p \in Places PROVE Teid(p)'
      <3>1. Involves(p) /\ Follows(p) /\ Teid(p)
        BY AllFollow DEF CoreStepped, TeidsAgree
      <3>k. ctx[p].state # "NONE" => Known(p)
        BY DEF Base, Allocated, CtxAllocated
      <3>2. ASSUME ctx[p].state # "NONE", ctx[p].state # "ATTACH_REQUEST", ctx'[p].state # "NONE"
            PROVE  ctx'[p].teid = ctx[p].teid \/ (ctx'[p].state = "INITIAL_RANDOM_ACCESS" /\ ctx'[p].teid = 0)
        BY <3>1, <3>k, <3>2 DEF Involves, Answers, Joined
      <3>3. ASSUME ctx'[p].state \in Up \cup {"HANDOVER_LEAVING"} PROVE ctx'[p].teid = Count /\ Count # 0
        <4>1. CASE ctx[p].state \in Up \cup {"HANDOVER_LEAVING"}
          BY <4>1, <3>1, <3>2, <3>3 DEF Teid, Up
        <4>2. CASE Answers(p)
          <5>1. Creation(p.cell) /\ p.cell \in Cells
            BY <4>2, PlaceTypes DEF Answers, Waits
          <5> QED
            BY <1>t, <4>2, <5>1, BeginsAndEnds
        <4>3. CASE Modifies(p)
          <5>1. Here(p) /\ ~Releasing /\ ctx[p].state = "HANDOVER_JOINING" /\ ctx'[p].state = "HANDOVER_PATH_SWITCH"
            BY <4>3, CoreHere DEF Modifies
          <5>2. ue.state \in Connected /\ ue.at = p /\ Live
            BY <5>1 DEF Here, Connected, Live
          <5>3. pgw = Session
            BY <5>1, <5>2 DEF SessionStays
          <5>4. Count # 0
            BY <5>3 DEF SessionKnown, Session, NoSession
          <5>5. ctx[p].teid = Count
            BY <3>1, <5>1, <5>2 DEF Teid
          <5> QED
            BY <5>1, <5>4, <5>5, <3>2
        <4> QED
          BY <3>3, <4>1, <4>2, <4>3, UpMoves
      <3>4. ASSUME ctx'[p].state \in Early PROVE ctx'[p].teid = 0
        <4>1. CASE ctx[p].state = "NONE"
          BY <4>1, <3>1, <3>4 DEF Involves, Early, Answers, Joined
        <4>2. CASE ctx[p].state # "NONE"
          <5>1. ctx[p].state \in Early
            <6>1. ctx[p].state \in ContextStates
              BY <1>t, PlaceTypes DEF TypeInv, CellsTyped, Contexts
            <6> QED
              BY <6>1, <4>2, <3>1, <3>4 DEF Follows, Early, InPlace, Up, Left, Settling, ContextStates
          <5>2. ctx[p].teid = 0
            BY <5>1, <3>1 DEF Teid
          <5> QED
            BY <5>1, <5>2, <4>2, <3>1, <3>4, <3>k DEF Involves, Answers, Joined, Early
        <4> QED
          BY <4>1, <4>2
      <3>5. ASSUME ctx'[p].state = "HANDOVER_JOINING", Dest(p)' \/ (ue'.state \in Connected /\ ue'.at = p)
            PROVE  ctx'[p].teid = Count
        <4>1. CASE ctx[p].state = "NONE"
          <5>1. Joined(p)
            BY <4>1, <3>1, <3>5 DEF Involves, Answers
          <5>2. PICK s, d \in Cells : Arrived(s, d, "HandoverRequest") /\ ctx'[p].teid = Head(x2[<<s, d>>]).teid
            BY <5>1 DEF Joined, Admits
          <5>3. s # d /\ Head(x2[<<s, d>>]) \in Mail(x2[<<s, d>>]) /\ Head(x2[<<s, d>>]).msg = "HandoverRequest"
            BY <5>2, ArrivedFacts DEF Base
          <5> QED
            BY <5>2, <5>3 DEF TeidsAgree
        <4>2. CASE ctx[p].state # "NONE"
          <5>1. ctx[p].state = "HANDOVER_JOINING"
            <6>1. ctx[p].state \in ContextStates
              BY <1>t, PlaceTypes DEF TypeInv, CellsTyped, Contexts
            <6> QED
              BY <6>1, <4>2, <3>1, <3>5 DEF Follows, InPlace, Up, Left, Settling, ContextStates
          <5>2. ctx'[p].teid = ctx[p].teid
            BY <5>1, <3>2, <3>5
          <5>3. Dest(p) \/ (ue.state \in Connected /\ ue.at = p)
            <6>1. CASE Dest(p)'
              BY <6>1, <4>2, <3>k, DestMoves
            <6>2. CASE ue'.state \in Connected /\ ue'.at = p
              <7>1. \/ UNCHANGED ue
                    \/ Dest(p)
                    \/ \E n \in Msgs(rrc) : Connecting(n) /\ n.msg = "ConnectionSetup" /\ n.at = p
                BY <6>2, <4>2, <3>k, ComesKnown
              <7>2. ASSUME NEW n, Connecting(n), n.at = p PROVE FALSE
                <8>1. ue.state = "IDLE_CONNECTING" /\ ue.at = p
                  BY <7>2 DEF Connecting
                <8> QED
                  BY <8>1, <5>1 DEF Connects
              <7> QED
                BY <6>2, <7>1, <7>2
            <6> QED
              BY <3>5, <6>1, <6>2
          <5> QED
            BY <5>1, <5>2, <5>3, <3>1 DEF Teid
        <4> QED
          BY <4>1, <4>2
      <3> QED
        BY <1>2, <3>3, <3>4, <3>5 DEF Teid
    <2>2. ASSUME NEW s \in Cells, NEW d \in Cells, s # d, NEW m \in Mail(x2'[<<s, d>>]), m.msg = "HandoverRequest"
          PROVE  m.teid = Count /\ Count # 0
      <3>1. CASE m \in Mail(x2[<<s, d>>])
        BY <2>2, <3>1 DEF TeidsAgree
      <3>2. CASE NewAsk(s, d, m)
        <4>1. PICK q \in Places : Prepares(q, d) /\ m.teid = ctx[q].teid
          BY <2>2, <3>2 DEF NewAsk
        <4>2. Teid(q) /\ ctx[q].state = "CONNECTED_NORMALLY"
          BY <4>1 DEF Prepares, TeidsAgree
        <4> QED
          BY <4>1, <4>2 DEF Teid, Up
      <3>3. AskMoves
        BY AsksMove DEF Base
      <3>4. m \in Mail(x2[<<s, d>>]) \/ NewAsk(s, d, m)
        BY <2>2, <3>3 DEF AskMoves
      <3> QED
        BY <3>1, <3>2, <3>4
    <2> QED
      BY <1>2, <2>1, <2>2 DEF TeidsAgree
  <1> QED
    BY <1>1, <1>2

(* The core network is told to delete the bearer.                          *)
LEMMA DeletesDeleting ==
    ASSUME TypeInv, NEW p \in Places, Deletes(p)
    PROVE  Deleting'
  <1>1. PICK m : m = Gtpc("DeleteBearerCommand", 0, 0)
    OBVIOUS
  <1>2. m \in CoreMsgs /\ m.msg = "DeleteBearerCommand"
    BY <1>1, GtpcTypes DEF CoreNames
  <1>3. s11' = Append(s11, m) /\ s11 \in Seq(CoreMsgs)
    BY <1>1 DEF Deletes, Sends, TypeInv, CoreTyped
  <1>4. Has(s11', {"DeleteBearerCommand", "DeleteBearerResponse"})
    BY <1>2, <1>3, HasGrows
  <1> QED
    BY <1>4 DEF Deleting, InCore, Has

(* A context that the path is switched to serves on.                       *)
LEMMA SwitchUp ==
    ASSUME Base, NEW q \in Places, Switches(q)
    PROVE  ctx'[q].state \in Settling
  BY DEF Switches, Continues, Enters, Turned, Settling

(* Somebody is to delete the session.                                      *)
LEMMA StaysSessionEnds ==
    ASSUME Base, Support, Effects, CoreStepped, CreatesAlone, SessionKnown, SessionEnds, TeidsAgree
    PROVE  SessionEnds'
  <1> SUFFICES ASSUME pgw' = Session'
               PROVE  \/ Deleting' \/ Has(reply, {"CreateSessionResponse"})'
                      \/ \E p \in Places : ctx'[p].state = "HANDOVER_LEAVING" /\ ~Released(p)'
                      \/ \E p \in Places : ctx'[p].state \in Up
    BY DEF SessionEnds, Up
  <1>t. TypeInv /\ CoreEffect
    BY DEF Base, CoreStepped
  <1>0. Session' # NoSession /\ Session # NoSession
    BY DEF Session, NoSession
  <1>1. (Count' = Count /\ pgw' = pgw /\ pgw = Session) \/ Has(reply, {"CreateSessionResponse"})'
    <2>1. Count' = Count \/ (UNCHANGED pgw /\ pgw = NoSession)
      BY <1>t, SessionsMove
    <2>2. \/ UNCHANGED pgw
          \/ pgw' = NoSession
          \/ Has(reply, {"CreateSessionResponse"})'
      BY <1>t, SessionsMove
    <2>3. Count' = Count => Session' = Session
      BY DEF Session, Count
    <2> QED
      BY <1>0, <2>1, <2>2, <2>3
  <1>s. ASSUME NEW q \in Places, Switches(q) PROVE ctx'[q].state \in Up
    BY <1>s, SwitchUp DEF Settling, Up
  <1>2. CASE pgw' = pgw /\ pgw = Session
    <2>0. Count # 0
      BY <1>0, <1>2 DEF SessionKnown
    <2>1. CASE Deleting
      <3>1. pgw' # [bearer |-> 0, tfts |-> pgw.tfts \ {pgw.bearer}]
        BY <1>2, <2>0 DEF Session
      <3> QED
        BY <1>t, <2>1, <3>1, CoreFlows
    <2>2. CASE Has(reply, {"CreateSessionResponse"})
      <3>1. Has(reply, {"CreateSessionResponse"})' \/ \E p \in Places : Answers(p)
        BY <1>t, <2>2, CoreFlows
      <3> QED
        BY <3>1 DEF Answers, Up
    <2>3. ASSUME NEW p \in Places, ctx[p].state \in Up \cup {"HANDOVER_LEAVING"}, ~Released(p)
          PROVE  \/ Deleting' \/ ctx'[p].state \in Up \/ (ctx'[p].state = "HANDOVER_LEAVING" /\ ~Released(p)')
                 \/ \E q \in Places : Switches(q)
      <3>1. ctx'[p].state \in Up \cup Left
        <4>1. Follows(p)
          BY AllFollow
        <4> QED
          BY <2>3, <4>1 DEF Follows, Up, InPlace, Left, Settling
      <3>2. CASE ctx'[p].state = "NONE"
        <4>1. Involves(p) /\ Teid(p)
          BY DEF CoreStepped, TeidsAgree
        <4>2. ctx[p].teid # 0
          BY <2>0, <2>3, <4>1 DEF Teid
        <4>3. Deletes(p)
          BY <2>3, <3>2, <4>1, <4>2 DEF Involves
        <4> QED
          BY <1>t, <4>3, DeletesDeleting
      <3>3. CASE ctx'[p].state = "HANDOVER_LEAVING" /\ Released(p)'
        BY <2>3, <3>3, ReleasedMoves
      <3> QED
        BY <3>1, <3>2, <3>3 DEF Left
    <2>4. ASSUME NEW p \in Places, ctx[p].state \in Up PROVE ~Released(p)
      BY <2>4 DEF Support, Releases, Up, Left
    <2> QED
      BY <1>2, <2>1, <2>2, <2>3, <2>4, <1>s DEF SessionEnds
  <1> QED
    BY <1>1, <1>2

(* A UE that is served has its session.                                    *)
LEMMA StaysSessionStays ==
    ASSUME Base, Support, Effects, CoreStepped,
           Waits, Rests, Starts, Connects, CreatesAlone, SessionKnown, SessionStays
    PROVE  SessionStays'
  <1> SUFFICES ASSUME Live', ue'.state \in Connected,
                      \/ ue'.state = "CONNECTED_HANDOVER"
                      \/ ctx'[ue'.at].state \in Up \cup {"HANDOVER_JOINING", "HANDOVER_LEAVING"}
               PROVE  pgw' = Session'
    BY DEF SessionStays, Connected, Up
  <1>t. TypeInv /\ CoreEffect
    BY DEF Base, CoreStepped
  <1>0. Session # NoSession
    BY DEF Session, NoSession
  <1>l. Live /\ ~Deleting
    <2>1. Live
      BY LiveMoves DEF Selects, Connected
    <2> QED
      BY <2>1, LiveCore
  <1>1. ASSUME pgw = Session PROVE pgw' = Session'
    <2>1. Count' = Count
      BY <1>0, <1>1, <1>t, SessionsMove
    <2>2. Session' = Session
      BY <2>1 DEF Session, Count
    <2> QED
      BY <1>l, <1>1, <1>t, <2>2, SessionsMove
  <1>2. CASE UNCHANGED ue
    <2>1. CASE ue.state = "CONNECTED_HANDOVER"
      BY <1>1, <1>l, <2>1 DEF SessionStays, Connected
    <2>2. CASE ue.state = "CONNECTED_NORMALLY"
      <3>1. PICK w \in Places : w = ue.at
        BY <1>t, <2>2 DEF TypeInv, UeTyped
      <3>2. Known(w) /\ Follows(w)
        BY <3>1, AllFollow DEF Base, Allocated, UeAllocated
      <3>3. CASE Answers(w)
        <4>1. Creation(w.cell) /\ w.cell \in Cells
          BY <3>3, PlaceTypes DEF Answers, Waits
        <4> QED
          BY <1>t, <1>1, <3>3, <4>1, BeginsAndEnds
      <3>4. CASE ~Answers(w)
        <4>1. ctx'[w].state \in Up \cup {"HANDOVER_JOINING", "HANDOVER_LEAVING"}
          BY <1>2, <2>2, <3>1
        <4>2. CASE ctx'[w].state = "HANDOVER_JOINING"
          <5>1. ctx[w].state \in ContextStates
            BY <1>t, PlaceTypes DEF TypeInv, CellsTyped, Contexts
          <5>2. ctx[w].state = "HANDOVER_JOINING"
            BY <3>2, <4>2, <5>1 DEF Follows, InPlace, Up, Left, Settling, ContextStates
          <5> QED
            BY <1>1, <1>l, <2>2, <3>1, <5>2 DEF SessionStays, Connected
        <4>3. CASE ctx'[w].state \in Up \cup {"HANDOVER_LEAVING"}
          <5>1. ctx[w].state \in Up \cup {"HANDOVER_LEAVING"} \/ Modifies(w)
            BY <3>4, <4>3, UpMoves
          <5>2. ctx[w].state \in Up \cup {"HANDOVER_JOINING", "HANDOVER_LEAVING"}
            BY <5>1 DEF Modifies
          <5> QED
            BY <1>1, <1>l, <2>2, <3>1, <5>2 DEF SessionStays, Connected
        <4> QED
          BY <4>1, <4>2, <4>3
      <3> QED
        BY <3>3, <3>4
    <2> QED
      BY <1>2, <2>1, <2>2 DEF Connected
  <1>3. ASSUME NEW p \in Places, Accessing(p) PROVE FALSE
    BY <1>3 DEF Accessing, Turned, Connected, Up
  <1>4. CASE Arriving
    BY <1>1, <1>4, <1>l DEF Arriving, SessionStays, Connected
  <1>5. ASSUME NEW m, Connecting(m) PROVE FALSE
    <2>1. ue.state = "IDLE_CONNECTING" /\ ue'.state = "CONNECTED_NORMALLY" /\ ue'.at = ue.at /\ UNCHANGED ctx
      BY <1>5 DEF Connecting
    <2> QED
      BY <2>1 DEF Connects, Up
  <1>6. ASSUME NEW m \in Msgs(rrc), Commanded(m), m.at = ue.at PROVE pgw' = Session'
    <2>1. ue.state = "CONNECTED_NORMALLY" /\ m.msg = "HandoverCommand"
      BY <1>6 DEF Commanded
    <2>2. Supports(m.at, m.target.cell)
      BY <1>6, <1>l, <2>1 DEF Support, CommandSupported, Live
    <2>3. ctx[ue.at].state = "HANDOVER_LEAVING"
      BY <1>6, <2>2 DEF Supports
    <2> QED
      BY <1>1, <1>l, <2>1, <2>3 DEF SessionStays, Connected
  <1> QED
    BY <1>2, <1>3, <1>4, <1>5, <1>6, UesMove DEF UeMoves, Connected, Idle

(* The path leads to the cell of a context that has its bearer in place.   *)
LEMMA StaysPathLeads ==
    ASSUME Base, Base', Effects, CoreStepped, Waits, Rests, Starts, PathLeads
    PROVE  PathLeads'
  <1> SUFFICES ASSUME Live', NEW p \in Places, ctx'[p].state \in InPlace
               PROVE  sgw'.enb[Count'] = p.cell
    BY DEF PathLeads, InPlace, Up, Count
  <1>t. TypeInv /\ CoreEffect /\ p.cell \in Cells
    BY PlaceTypes DEF Base, CoreStepped
  <1>1. ~Removing(p)'
    BY DEF Base, Serving, Addressed, Removing, Due, Live, Idle
  <1>2. Here(p)'
    BY <1>1 DEF Base, Serving, Served, ServingStates, InPlace, Up
  <1>3. Live
    BY <1>2, LiveMoves DEF Selects, Here
  <1>4. ~Removing(p)
    BY <1>3 DEF Base, Serving, Addressed, Removing, Due, Live, Idle
  <1>5. ctx[p].state \in InPlace \cup Busy
    <2>1. Follows(p) /\ ctx[p].state \in ContextStates
      BY <1>t, AllFollow, PlaceTypes DEF TypeInv, CellsTyped, Contexts
    <2> QED
      BY <2>1 DEF Follows, InPlace, Up, Busy, Left, Settling, ContextStates
  <1>6. CASE ctx[p].state \in InPlace
    <2>1. Here(p)
      BY <1>4, <1>6 DEF Base, Serving, Served, ServingStates, InPlace, Up
    <2>2. CoreIdle
      BY <1>3, <1>6, <2>1 DEF Rests, Here, Busy, InPlace, Up
    <2>3. UNCHANGED sgw
      BY <1>t, <2>2, BusyWith, CoreFlows
    <2> QED
      BY <1>3, <1>6, <2>3 DEF PathLeads, Count
  <1>7. CASE ctx[p].state \in Busy
    <2>1. Answers(p) \/ Acknowledges(p)
      BY <1>7 DEF CoreStepped, Involves, InPlace, Up, Busy
    <2>2. CASE Answers(p)
      <3>1. Creation(p.cell)
        BY <2>2 DEF Answers, Waits
      <3> QED
        BY <1>t, <2>2, <3>1, BeginsAndEnds DEF Count
    <2>3. CASE Acknowledges(p)
      <3>1. Switching(p.cell)
        BY <1>3, <2>3 DEF Acknowledges, Waits
      <3> QED
        BY <1>t, <2>3, <3>1, BeginsAndEnds DEF Count
    <2> QED
      BY <2>1, <2>2, <2>3
  <1> QED
    BY <1>5, <1>6, <1>7

(* A command tells the UE to go to the target of the context that sent it. *)
LEMMA StaysCommandsStand ==
    ASSUME Base, Effects, CommandsStand
    PROVE  CommandsStand'
  <1> SUFFICES ASSUME NEW m \in Msgs(rrc'), m.msg = "HandoverCommand", ctx'[m.at].state = "HANDOVER_LEAVING"
               PROVE  m.target = ctx'[m.at].target
    BY DEF CommandsStand
  <1>1. CASE m \in Msgs(rrc)
    <2>1. ctx[m.at].state \in Left /\ Known(m.at)
      BY <1>1 DEF Base, Serving, Rightly, Allocated, RrcAllocated
    <2>2. PICK p \in Places : p = m.at
      BY <2>1 DEF Known
    <2>3. Follows(p)
      BY AllFollow
    <2>4. ctx[p].state = "HANDOVER_LEAVING" /\ ctx'[p].target = ctx[p].target
      BY <2>1, <2>2, <2>3 DEF Follows, Left
    <2> QED
      BY <1>1, <2>2, <2>4 DEF CommandsStand
  <1>2. CASE m \notin Msgs(rrc)
    BY <1>2, RrcsMove DEF RrcMoves, NewRrc
  <1> QED
    BY <1>1, <1>2

(* A handover is offered by a context that waits for the UE, or the offer  *)
(* is withdrawn.                                                           *)
LEMMA StaysOffersStand ==
    ASSUME Base, Effects, OffersStand
    PROVE  OffersStand'
  <1> SUFFICES ASSUME NEW p \in Places, NEW q \in Places, Offering(p, q)'
               PROVE  OfferedBy(p, q)' \/ Refused(x2'[<<q.cell, p.cell>>], p.rnti)
    BY DEF OffersStand, Refused, Mail
  <1>t. p.cell \in Cells /\ q.cell \in Cells
    BY PlaceTypes
  <1>1. /\ ctx'[p].state = "HANDOVER_PREPARATION" /\ p.cell # q.cell
        /\ \E m \in Mail(x2'[<<q.cell, p.cell>>]) : m.msg = "HandoverRequestAck" /\ m.old = p.rnti /\ m.new = q.rnti
    BY DEF Offering, Offers, Mail
  <1>2. PICK m \in Mail(x2'[<<q.cell, p.cell>>]) : m.msg = "HandoverRequestAck" /\ m.old = p.rnti /\ m.new = q.rnti
    BY <1>1
  <1>3. m \in Mail(x2[<<q.cell, p.cell>>]) \/ NewAsk(q.cell, p.cell, m)
    <2>1. AskMoves
      BY AsksMove DEF Base
    <2> QED
      BY <2>1, <1>t, <1>1, <1>2 DEF AskMoves
  <1>4. CASE NewAsk(q.cell, p.cell, m)
    <2>1. PICK o \in Places :
             /\ o.cell = q.cell /\ o.rnti = m.new /\ ctx'[o].state = "HANDOVER_JOINING"
             /\ ctx'[o].source = [cell |-> p.cell, rnti |-> m.old]
      BY <1>2, <1>4 DEF NewAsk
    <2>2. o = q /\ p = [cell |-> p.cell, rnti |-> p.rnti]
      BY <1>2, <2>1 DEF Places
    <2> QED
      BY <1>2, <2>1, <2>2 DEF OfferedBy
  <1>5. CASE m \in Mail(x2[<<q.cell, p.cell>>])
    <2>1. Known(q)
      <3>1. MailAllocated(q.cell, p.cell, m)
        BY <1>5, <1>t, <1>1 DEF Base, Allocated, X2Allocated
      <3> QED
        BY <3>1, <1>2 DEF MailAllocated, Known
    <2>2. Offering(p, q)
      BY <2>1, OffersMove
    <2>3. CASE OfferedBy(p, q)
      <3>1. ctx[q].state = "HANDOVER_JOINING" /\ p = ctx[q].source
        BY <2>3 DEF OfferedBy
      <3>2. Dest(q)
        BY <2>2 DEF Dest
      <3>3. ~Here(q)
        BY <3>2 DEF Base, Serving, NewIsNoTarget
      <3>4. Follows(q) /\ Fate(q)
        BY AllFollow, Fates
      <3>5. ctx'[q].state # "HANDOVER_PATH_SWITCH"
        BY <3>1, <3>3, <3>4 DEF Fate
      <3>6. CASE ctx'[q].state = "NONE"
        <4>1. Refusal(q)
          BY <3>1, <3>4, <3>6 DEF Follows
        <4>2. Told(x2'[<<q.cell, p.cell>>], "PreparationFailure", p.rnti)
          BY <3>1, <4>1, RefusalGoes
        <4> QED
          BY <4>2 DEF Told, Refused, IsNo
      <3> QED
        BY <3>1, <3>4, <3>5, <3>6 DEF Follows, OfferedBy
    <2>4. CASE Refused(x2[<<q.cell, p.cell>>], p.rnti)
      <3>1. PICK n \in Mail(x2[<<q.cell, p.cell>>]) : n.msg = "PreparationFailure" /\ n.old = p.rnti
        BY <2>4 DEF Refused, IsNo
      <3>2. MailStays
        BY MailsStay DEF Base
      <3>3. n \in Mail(x2'[<<q.cell, p.cell>>]) \/ Delivered(q.cell, p.cell, n)
        BY <3>1, <3>2, <1>t, <1>1 DEF MailStays
      <3>4. CASE Delivered(q.cell, p.cell, n)
        <4>1. PICK o \in Spots : Fails(q.cell, p.cell, o) /\ o.rnti = n.old
          BY <3>1, <3>4 DEF Delivered
        <4>2. o.cell = p.cell
          BY <4>1 DEF Fails
        <4>3. o = p
          BY <4>1, <4>2, <3>1 DEF Spots, Places
        <4>4. ctx[p].state = "HANDOVER_PREPARATION"
          BY <2>2 DEF Offering
        <4> QED
          BY <4>1, <4>3, <4>4, <1>1 DEF Fails, Continues, Enters, Turned
      <3> QED
        BY <3>1, <3>3, <3>4 DEF Refused, IsNo
    <2> QED
      BY <2>2, <2>3, <2>4 DEF OffersStand
  <1> QED
    BY <1>3, <1>4, <1>5

(* A context that was left is told, or soon will be.                       *)
LEMMA StaysLeavingEnds ==
    ASSUME Base, conf.fastLinks, Effects, CoreStepped, TypeInv',
           Waits, OffersStand, CommandsStand, LeavingEnds
    PROVE  LeavingEnds'
  <1>t. TypeInv /\ CoreEffect
    BY DEF Base, CoreStepped
  <1> SUFFICES ASSUME NEW p \in Places, ctx'[p].state = "HANDOVER_LEAVING", NEW q, q = ctx'[p].target
               PROVE  /\ q \in Places /\ q.cell # p.cell
                      /\ \/ /\ OfferedBy(p, q)'
                            /\ (ue'.state \in Connected /\ ue'.at \in {p, q}) \/ Removing(p)' \/ Removing(q)'
                         \/ ctx'[q].state = "HANDOVER_PATH_SWITCH" /\ ctx'[q].source = p
                         \/ Hearing(p, q)'
                         \/ Modifying' /\ ue' = Idle
    BY DEF LeavingEnds, Connected, Idle
  <1>s. MailStays
    BY MailsStay DEF Base
  <1>1. ASSUME NEW s \in Cells, NEW d \in Cells, NEW o \in Places, Commands(s, d, p, o)
        PROVE  /\ q \in Places /\ q.cell # p.cell
               /\ \/ OfferedBy(p, q)' /\ ue'.state \in Connected /\ ue'.at = p
                  \/ Hearing(p, q)'
    <2>1. /\ Arrived(s, d, "HandoverRequestAck") /\ p.cell = d /\ p.rnti = From(s, d)
          /\ o.cell = s /\ o.rnti = Head(x2[<<s, d>>]).new
          /\ Turned(ctx, ctx', p, "HANDOVER_LEAVING", ctx[p].source, o, ctx[p].timers \cup {"leaving"})
      BY <1>1 DEF Commands
    <2>2. q = o /\ \A r \in Places \ {p} : ctx'[r] = ctx[r]
      BY <2>1 DEF Turned
    <2>3. /\ s # d /\ Head(x2[<<s, d>>]) \in Mail(x2[<<s, d>>]) /\ Head(x2[<<s, d>>]).msg = "HandoverRequestAck"
          /\ Head(x2[<<s, d>>]).old = p.rnti
      <3>1. Allocated
        BY DEF Base
      <3>2. /\ s # d /\ Head(x2[<<s, d>>]) \in Mail(x2[<<s, d>>]) /\ Head(x2[<<s, d>>]).msg = "HandoverRequestAck"
            /\ Head(x2[<<s, d>>]).old = From(s, d)
        BY <2>1, <3>1, <1>t, ArrivedFacts
      <3> QED
        BY <2>1, <3>2
    <2>4. ctx[p].state = "HANDOVER_PREPARATION"
      BY <1>1, CommandsKeeps DEF Base, Preparing
    <2>5. Offering(p, q)
      BY <2>1, <2>2, <2>3, <2>4 DEF Offering, Offers
    <2>6. Calm /\ UNCHANGED ue
      BY <2>1 DEF Arrived
    <2>7. Here(p)
      BY <2>4, <2>6, ServedHere DEF Base, ServingStates
    <2>8. CASE OfferedBy(p, q)
      <3>1. OfferedBy(p, q)'
        BY <2>1, <2>2, <2>3, <2>8 DEF OfferedBy
      <3> QED
        BY <2>1, <2>2, <2>3, <2>6, <2>7, <3>1 DEF Here, Connected
    <2>9. CASE Refused(x2[<<q.cell, p.cell>>], p.rnti)
      <3>1. PICK n \in Mail(x2[<<s, d>>]) : n.msg = "PreparationFailure" /\ n.old = p.rnti
        BY <2>1, <2>2, <2>9 DEF Refused, IsNo
      <3>2. n \in Mail(x2'[<<s, d>>]) \/ Delivered(s, d, n)
        BY <1>s, <2>3, <3>1 DEF MailStays
      <3>3. ~Delivered(s, d, n)
        BY <3>1, <2>1 DEF Delivered, Fails, Arrived
      <3>4. Told(x2'[<<q.cell, p.cell>>], "PreparationFailure", p.rnti)
        BY <2>1, <2>2, <3>1, <3>2, <3>3 DEF Told
      <3> QED
        BY <2>1, <2>2, <2>3, <3>4 DEF Hearing, Told, Mail
    <2> QED
      BY <2>2, <2>5, <2>8, <2>9 DEF OffersStand
  <1>2. ASSUME ctx[p].state = "HANDOVER_LEAVING", ctx[p].target = q
        PROVE  /\ q \in Places /\ q.cell # p.cell
               /\ \/ /\ OfferedBy(p, q)'
                     /\ (ue'.state \in Connected /\ ue'.at \in {p, q}) \/ Removing(p)' \/ Removing(q)'
                  \/ ctx'[q].state = "HANDOVER_PATH_SWITCH" /\ ctx'[q].source = p
                  \/ Hearing(p, q)'
                  \/ Modifying' /\ ue' = Idle
    <2>1. /\ q \in Places /\ q.cell # p.cell
          /\ \/ OfferedBy(p, q) /\ ((ue.state \in Connected /\ ue.at \in {p, q}) \/ Removing(p) \/ Removing(q))
             \/ ctx[q].state = "HANDOVER_PATH_SWITCH" /\ ctx[q].source = p
             \/ Hearing(p, q)
             \/ Modifying /\ ue = Idle
      BY <1>2 DEF LeavingEnds
    <2>2. Follows(q) /\ Fate(q) /\ p.cell \in Cells /\ q.cell \in Cells
      BY <2>1, AllFollow, Fates, PlaceTypes
    <2>m. Modifying => Modifying' \/ \E r \in Places : Acknowledges(r) /\ Calm /\ Here(r)
      <3>1. \A r \in Places : Acknowledges(r) => Calm /\ Here(r)
        BY CoreHere DEF Acknowledges, Takes
      <3>2. Modifying => Modifying' \/ \E r \in Places : Acknowledges(r)
        BY <1>t, CoreFlows
      <3> QED
        BY <3>1, <3>2
    <2>3. CASE OfferedBy(p, q) /\ ((ue.state \in Connected /\ ue.at \in {p, q}) \/ Removing(p) \/ Removing(q))
      <3>0. ctx[q].state = "HANDOVER_JOINING" /\ p = ctx[q].source
        BY <2>3 DEF OfferedBy
      <3>1. CASE ctx'[q].state = "NONE"
        <4>1. Refusal(q)
          BY <3>0, <3>1, <2>2 DEF Follows
        <4>2. Told(x2'[<<q.cell, p.cell>>], "PreparationFailure", p.rnti)
          BY <2>1, <3>0, <4>1, RefusalGoes
        <4> QED
          BY <2>1, <4>2 DEF Hearing, Told, Mail
      <3>2. CASE ctx'[q].state = "HANDOVER_PATH_SWITCH"
        BY <2>1, <2>2, <3>0, <3>2 DEF Fate
      <3>3. CASE ctx'[q].state = "HANDOVER_JOINING"
        <4>1. OfferedBy(p, q)'
          BY <2>2, <3>0, <3>3 DEF Follows, OfferedBy
        <4>2. CASE Removing(p) \/ Removing(q)
          <5>1. Removing(p) => Removing(p)'
            BY <1>t, RemovalIsNext
          <5>2. Removing(q) => Removing(q)'
            BY <1>t, <2>1, <3>3, RemovalIsNext
          <5> QED
            BY <2>1, <4>1, <4>2, <5>1, <5>2
        <4>3. CASE ue.state \in Connected /\ ue.at \in {p, q}
          <5>1. CASE UNCHANGED ue
            BY <2>1, <4>1, <4>3, <5>1
          <5>2. ASSUME NEW w \in Places, w = ue.at, Removing(w)' PROVE Removing(p)' \/ Removing(q)'
            BY <4>3, <5>2
          <5>3. ASSUME NEW r, Accessing(r) PROVE FALSE
            <6>1. ctx[ue.at].state = "NONE"
              BY <4>3, <5>3 DEF Accessing, Connected
            <6> QED
              BY <1>2, <3>0, <4>3, <6>1
          <5>4. Arriving => ue'.state \in Connected /\ ue'.at = ue.at
            BY DEF Arriving, Connected
          <5>5. ASSUME NEW m \in Msgs(rrc), Commanded(m), m.at = ue.at
                PROVE  ue'.state \in Connected /\ ue'.at = q
            <6>1. m.msg = "HandoverCommand" /\ ue'.state \in Connected /\ ue'.at = m.target
              BY <5>5 DEF Commanded, Connected
            <6>2. ctx[m.at].state \in Left
              BY <6>1 DEF Base, Serving, Rightly
            <6>3. m.at = p
              BY <4>3, <5>5, <6>2, <3>0 DEF Left
            <6>4. m.target = q
              BY <1>2, <6>1, <6>3 DEF CommandsStand
            <6> QED
              BY <6>1, <6>4
          <5>6. \A m : ~Connecting(m)
            BY <4>3 DEF Connecting, Connected
          <5>7. \/ UNCHANGED ue
                \/ \E w \in Places : w = ue.at /\ Removing(w)'
                \/ \E r \in Places : Accessing(r)
                \/ Arriving
                \/ \E m \in Msgs(rrc) : Commanded(m) /\ m.at = ue.at
            BY <4>3, <5>6, UesMove DEF UeMoves
          <5>8. (ue'.state \in Connected /\ ue'.at \in {p, q}) \/ Removing(p)' \/ Removing(q)'
            BY <4>3, <5>2, <5>3, <5>4, <5>5, <5>7
          <5> QED
            BY <2>1, <4>1, <5>8
        <4> QED
          BY <2>3, <4>2, <4>3
      <3> QED
        BY <2>2, <3>0, <3>1, <3>2, <3>3 DEF Follows
    <2>4. CASE ctx[q].state = "HANDOVER_PATH_SWITCH" /\ ctx[q].source = p
      <3>1. CASE ctx'[q].state = "HANDOVER_PATH_SWITCH"
        BY <2>1, <2>2, <2>4, <3>1 DEF Fate
      <3>2. CASE Switches(q)
        <4>1. Told(x2'[<<q.cell, p.cell>>], "UeContextRelease", p.rnti)
          BY <2>1, <2>4, <3>2, SwitchGoes
        <4> QED
          BY <2>1, <4>1 DEF Hearing, Told, Mail
      <3>3. CASE ctx'[q].state = "NONE"
        <4>1. Removing(q)
          BY <2>2, <2>4, <3>3 DEF Fate, ServingStates
        <4>2. ue = Idle /\ UNCHANGED ue /\ ~Calm
          BY <1>t, <2>1, <4>1, RemovalIsNext, CalmFacts DEF Base, Serving, Addressed, Removing, Due
        <4>3. Modifying
          BY <2>1, <2>4 DEF Waits
        <4> QED
          BY <2>1, <2>m, <4>2, <4>3
      <3> QED
        BY <2>2, <2>4, <3>1, <3>2, <3>3 DEF Follows
    <2>5. CASE Hearing(p, q)
      <3>1. PICK n \in Mail(x2[<<q.cell, p.cell>>]) :
               n.msg \in {"PreparationFailure", "UeContextRelease"} /\ n.old = p.rnti
        BY <2>5 DEF Hearing, Told
      <3>2. n \in Mail(x2'[<<q.cell, p.cell>>]) \/ Delivered(q.cell, p.cell, n)
        BY <1>s, <2>1, <2>2, <3>1 DEF MailStays
      <3>3. ASSUME NEW o \in Spots, Fails(q.cell, p.cell, o) \/ Ends(q.cell, p.cell, o), o.rnti = p.rnti
            PROVE  FALSE
        <4>1. o.cell = p.cell
          BY <3>3 DEF Fails, Ends
        <4>2. o = p
          BY <3>3, <4>1 DEF Spots, Places
        <4> QED
          BY <1>2, <3>3, <4>2 DEF Fails, Ends, Continues, Enters, Turned, Gone
      <3>4. ~Delivered(q.cell, p.cell, n)
        BY <3>1, <3>3 DEF Delivered
      <3> QED
        BY <2>1, <3>1, <3>2, <3>4 DEF Hearing, Told, Mail
    <2>6. CASE Modifying /\ ue = Idle
      <3>1. \A r \in Places : ~Here(r)
        BY <2>6 DEF Here, Idle
      <3>2. ~Selects
        BY <2>6, BusyWith DEF Selects, BackhaulIdle
      <3>3. ue'.state = "IDLE"
        BY <2>6, <3>2 DEF CoreStepped, Idle
      <3>4. ue' = Idle
        BY <3>3 DEF TypeInv, UeTyped
      <3> QED
        BY <2>1, <2>6, <2>m, <3>1, <3>4
    <2> QED
      BY <2>1, <2>3, <2>4, <2>5, <2>6
  <1>3. Follows(p)
    BY AllFollow
  <1>4. \/ ctx[p].state = "HANDOVER_LEAVING"
        \/ \E s, d \in Cells, o \in Places : Commands(s, d, p, o)
    BY <1>3 DEF Follows
  <1>5. ctx[p].state = "HANDOVER_LEAVING" => ctx[p].target = q
    BY <1>3 DEF Follows
  <1> QED
    BY <1>1, <1>2, <1>4, <1>5

(***************************************************************************)
(* The path leads to the UE.                                               *)
(***************************************************************************)

(* Every step keeps the invariant when the core network is fast.           *)
LEMMA PathStep ==
    ASSUME Base, Support, PathInv, conf.fastLinks, Effects, CoreStepped, Base'
    PROVE  PathInv'
  <1>1. /\ Waits /\ Rests /\ CreatesAlone /\ Starts /\ TeidsAgree /\ CancelsLate
        /\ Connects /\ Joins /\ SessionKnown /\ SessionEnds /\ SessionStays /\ PathLeads
        /\ LeavingEnds /\ OffersStand /\ CommandsStand
    BY DEF PathInv
  <1>t. TypeInv' /\ CoreEffect
    BY DEF Base, CoreStepped
  <1>2. Waits'
    BY <1>1, StaysWaits
  <1>3. Rests'
    BY <1>1, StaysRests
  <1>4. CreatesAlone'
    BY <1>1, StaysCreatesAlone
  <1>5. Starts'
    BY <1>1, StaysStarts
  <1>6. TeidsAgree'
    BY <1>1, StaysTeidsAgree
  <1>7. CancelsLate'
    BY <1>1, StaysCancelsLate
  <1>8. Connects' /\ Joins'
    BY <1>1, <1>t, StaysConnects, StaysJoins
  <1>9. SessionKnown'
    BY <1>1, <1>t, SessionsMove
  <1>10. SessionEnds'
    BY <1>1, StaysSessionEnds
  <1>11. SessionStays'
    BY <1>1, StaysSessionStays
  <1>12. PathLeads'
    BY <1>1, StaysPathLeads
  <1>13. LeavingEnds'
    BY <1>1, <1>t, StaysLeavingEnds
  <1>14. OffersStand' /\ CommandsStand'
    BY <1>1, StaysOffersStand, StaysCommandsStand
  <1> QED
    BY <1>2, <1>3, <1>4, <1>5, <1>6, <1>7, <1>8, <1>9, <1>10, <1>11, <1>12, <1>13, <1>14 DEF PathInv

(* Nothing is connected at first.                                          *)
LEMMA PathInit == Init => PathInv
  <1> SUFFICES ASSUME Init PROVE PathInv
    OBVIOUS
  <1>1. /\ \A p \in Places : ctx[p].state = "NONE"
        /\ ue = Idle /\ pgw = NoSession
        /\ s11 = <<>> /\ s5 = <<>> /\ reply = <<>>
        /\ \A l \in Links : x2[l] = <<>>
        /\ \A ch \in Channels : rrc[ch] = <<>>
    <2>1. (\A p \in Places : ctx[p].state = "NONE") /\ ue = Idle
      BY DEF Init, NoContext
    <2>2. pgw = NoSession /\ s11 = <<>> /\ s5 = <<>> /\ reply = <<>>
      BY DEF Init, NoSession
    <2>3. (\A l \in Links : x2[l] = <<>>) /\ (\A ch \in Channels : rrc[ch] = <<>>)
      BY DEF Init, Channels
    <2> QED
      BY <2>1, <2>2, <2>3
  <1>2. ~Creating /\ ~Modifying /\ CoreIdle
    BY <1>1 DEF Creating, Modifying, InCore, Has, CoreIdle
  <1>3. \A s, d \in Cells : s # d => Mail(x2[<<s, d>>]) = {}
    BY <1>1 DEF Mail, Links
  <1>4. Msgs(rrc) = {}
    BY <1>1 DEF Msgs
  <1>5. \A q \in Places : ~Dest(q)
    BY <1>1, <1>4 DEF Dest, Idle, Offering
  <1>6. ~Live /\ ~Before
    BY <1>1 DEF Live, Before, Idle
  <1>7. Waits /\ Rests /\ CreatesAlone /\ Starts /\ CancelsLate /\ SessionStays /\ PathLeads
    BY <1>1, <1>2, <1>6 DEF Waits, Rests, CreatesAlone, Starts, CancelsLate, SessionStays, PathLeads
  <1>8. TeidsAgree
    BY <1>1, <1>3 DEF TeidsAgree, Teid, Up, Early
  <1>9. Connects /\ Joins
    BY <1>1, <1>5 DEF Connects, Joins, Idle
  <1>10. SessionKnown /\ SessionEnds
    BY <1>1 DEF SessionKnown, SessionEnds, Session, NoSession
  <1>11. LeavingEnds /\ OffersStand /\ CommandsStand
    BY <1>1, <1>4 DEF LeavingEnds, OffersStand, CommandsStand, Offering
  <1> QED
    BY <1>7, <1>8, <1>9, <1>10, <1>11 DEF PathInv

(* In a settled state with a UE that is served nothing is about to release *)
(* it: the session is there and leads to its cell.                         *)
LEMMA PathSuffices ==
    ASSUME TypeInv, conf.fastLinks => PathInv
    PROVE  PathLeadsToUe
  <1> SUFFICES ASSUME conf.fastLinks, Settled, ue.state = "CONNECTED_NORMALLY", ctx[ue.at].state = "CONNECTED_NORMALLY",
                      NEW t, t = ctx[ue.at].teid
               PROVE  pgw = [bearer |-> t, tfts |-> {t}] /\ sgw.enb[t] = ue.at.cell
    BY DEF PathLeadsToUe
  <1>1. PICK w \in Places : w = ue.at
    BY DEF TypeInv, UeTyped
  <1>2. Live
    BY DEF Live, Releasing, Due, Settled
  <1>3. ctx[w].teid = Count
    BY <1>1 DEF PathInv, TeidsAgree, Teid, Up
  <1>4. pgw = Session
    BY <1>1, <1>2 DEF PathInv, SessionStays, Connected, Up
  <1>5. sgw.enb[Count] = w.cell
    BY <1>1, <1>2 DEF PathInv, PathLeads, InPlace, Up
  <1> QED
    BY <1>1, <1>3, <1>4, <1>5 DEF Session

(***************************************************************************)
(* When a connected UE is served and nothing is under way, the PGW has one *)
(* session, the last one, and the SGW sends its data to the cell of the UE.*)
(***************************************************************************)
THEOREM PathLeadsAlways == Spec => []PathLeadsToUe
  <1> DEFINE Fast == conf.fastLinks => PathInv
  <1>1. Init => Base /\ Support /\ Fast
    BY InitTypes, AllocatedInit, ProtocolInit, ServingInit, SupportInit, PathInit DEF Base
  <1>2. ASSUME Base /\ Support /\ Fast, [Next]_vars PROVE (Base /\ Support /\ Fast)'
    <2>1. Effects /\ mishaps \subseteq mishaps'
      BY <1>2, StepEffects DEF Base
    <2>2. CoreStepped
      BY <1>2, CoreSteps
    <2>3. Base'
      BY <1>2, BaseStep
    <2>4. Support'
      BY <1>2, <2>1, SupportStep
    <2>5. UNCHANGED conf
      BY <2>2 DEF CoreStepped
    <2>6. ASSUME conf.fastLinks PROVE PathInv'
      BY <1>2, <2>1, <2>2, <2>3, <2>6, PathStep
    <2> QED
      BY <2>3, <2>4, <2>5, <2>6
  <1>3. Base /\ Support /\ Fast => PathLeadsToUe
    BY PathSuffices DEF Base
  <1> QED
    BY <1>1, <1>2, <1>3, PTL DEF Spec
=============================================================================
