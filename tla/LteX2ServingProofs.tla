------------------------- MODULE LteX2ServingProofs -------------------------
(***************************************************************************)
(* One cell serves the UE, and a UE that believes it is connected is not   *)
(* forgotten: for any number of cells, RNTIs and attachments, the ideal    *)
(* and the real RRC protocol, and links to the core network of any speed.  *)
(*                                                                         *)
(* The proof has four invariants on top of the types, each with its own    *)
(* induction: what is referred to has been allocated (Allocated), X2       *)
(* answers each handover request in order (Protocol), the eNB that serves  *)
(* the UE is the one the UE is at (Serving), and a context that waits for  *)
(* the UE to arrive elsewhere will release it (Support).  To keep the      *)
(* inductions short the steps are first reduced to their effects on the    *)
(* UE, the contexts and the messages (Effects).                            *)
(***************************************************************************)
EXTENDS LteX2HandoverProofs

(***************************************************************************)
(* Effects of steps.                                                       *)
(***************************************************************************)

\* No event of zero delay is due; this one is.
Calm == rrc["now"] = <<>>
Due(msg, p) == \E m \in RrcMsgs : rrc["now"] = <<m>> /\ m.msg = msg /\ m.at = p
\* A message is received, and was the only event that was due if one was.
Heard(m) == m \in Msgs(rrc) /\ (Calm \/ rrc["now"] = <<m>>)
\* Nothing is sent; this message is; it is, as an event.
Quietly == Msgs(rrc') \subseteq Msgs(rrc) /\ rrc'["now"] = <<>>
Said(m) == m \in RrcMsgs /\ Msgs(rrc') \subseteq Msgs(rrc) \cup {m} /\ rrc'["now"] \in {<<>>, <<m>>}
Raised(m) == Said(m) /\ rrc'["now"] = <<m>>

\* A new RNTI, and a context for it.
Fresh(p) ==
    /\ p \in Places /\ p.rnti = lastRnti[p.cell] + 1
    /\ lastRnti' = [lastRnti EXCEPT ![p.cell] = p.rnti]
\* A context goes.
Gone(p) == p \in Places /\ Turned(ctx, ctx', p, "NONE", Nowhere, Nowhere, {})
\* A context is in one state and enters another.
Enters(p, states, state, timers) ==
    /\ p \in Places /\ ctx[p].state \in states
    /\ Turned(ctx, ctx', p, state, ctx[p].source, ctx[p].target, timers)

Connected == {"CONNECTED_NORMALLY", "CONNECTED_HANDOVER"}

\* The UE on its own.
Still == UNCHANGED <<ue, ctx, lastRnti, x2, rrc>>
Selecting ==
    /\ Calm /\ Quietly /\ ue.state \in {"IDLE", "IDLE_CONNECTING"}
    /\ ue'.state \in {"IDLE", "IDLE_RANDOM_ACCESS"} /\ ue'.at \notin Places
    /\ UNCHANGED <<ctx, lastRnti, x2>>
Accessing(p) ==
    /\ Calm /\ Fresh(p) /\ ue'.at = p /\ p.cell = ue.at.cell /\ UNCHANGED x2
    /\ Turned(ctx, ctx', p, "INITIAL_RANDOM_ACCESS", Nowhere, Nowhere, {"request"})
    /\ \/ /\ ue.state = "IDLE_RANDOM_ACCESS" /\ ue'.state = "IDLE_CONNECTING"
          /\ Said(Rrc("ConnectionRequest", p))
       \/ /\ ue.state = "CONNECTED_HANDOVER" /\ ctx[ue.at].state = "NONE"
          /\ ue'.state = "CONNECTED_NORMALLY" /\ Said(Rrc("ReconfigurationCompleted", p))
Arriving ==
    /\ Calm /\ ue.state = "CONNECTED_HANDOVER"
    /\ ue'.state = "CONNECTED_NORMALLY" /\ ue'.at = ue.at
    /\ Said(Rrc("ReconfigurationCompleted", ue.at))
    /\ UNCHANGED <<ctx, lastRnti, x2>>
Leaves ==
    /\ Calm \/ \E p \in Places : Due("Release", p)
    /\ ue.state \in Connected /\ ue' = Idle /\ Raised(Rrc("ContextRemove", ue.at))
    /\ UNCHANGED <<ctx, lastRnti, x2>>

\* RRC messages to the UE.
Connecting(m) ==
    /\ Heard(m) /\ m.msg = "ConnectionSetup" /\ m.at = ue.at
    /\ ue.state = "IDLE_CONNECTING" /\ ue'.state = "CONNECTED_NORMALLY" /\ ue'.at = ue.at
    /\ Said(Rrc("ConnectionSetupCompleted", ue.at))
    /\ UNCHANGED <<ctx, lastRnti, x2>>
Rejected(m) ==
    /\ Heard(m) /\ m.msg = "ConnectionReject" /\ m.at = ue.at
    /\ Quietly /\ ue'.state = "IDLE_RANDOM_ACCESS" /\ ue'.at \notin Places
    /\ UNCHANGED <<ctx, lastRnti, x2>>
Commanded(m) ==
    /\ Heard(m) /\ m.msg = "HandoverCommand" /\ (Calm => m.at = ue.at)
    /\ ue.state = "CONNECTED_NORMALLY" /\ ue'.state = "CONNECTED_HANDOVER" /\ ue'.at = m.target
    /\ Quietly /\ UNCHANGED <<ctx, lastRnti, x2>>
Replying(m) ==
    /\ Heard(m) /\ m.msg = "Reconfiguration" /\ ue.state = "CONNECTED_NORMALLY"
    /\ Said(Rrc("ReconfigurationCompleted", ue.at))
    /\ UNCHANGED <<ue, ctx, lastRnti, x2>>
Dropping(m) ==
    /\ Heard(m) /\ Quietly /\ UNCHANGED <<ue, ctx, lastRnti, x2>>
    /\ ~Calm /\ m.msg = "Release" => ue.state \notin Connected
    /\ ~Calm /\ m.msg = "ContextRemove" => ctx[m.at].state = "NONE"

\* RRC messages to the eNB.
Admitting(m) ==
    /\ Heard(m) /\ m.msg = "ConnectionRequest" /\ UNCHANGED <<ue, lastRnti, x2>>
    /\ \/ /\ Enters(m.at, {"INITIAL_RANDOM_ACCESS"}, "CONNECTION_SETUP", {"setup"})
          /\ Said(Rrc("ConnectionSetup", m.at))
       \/ /\ Enters(m.at, {"INITIAL_RANDOM_ACCESS"}, "CONNECTION_REJECTED", {"rejected"})
          /\ Said(Rrc("ConnectionReject", m.at))
Completing(m) ==
    /\ Heard(m) /\ Quietly /\ UNCHANGED <<ue, lastRnti, x2>>
    /\ \/ /\ m.msg = "ConnectionSetupCompleted"
          /\ Enters(m.at, {"CONNECTION_SETUP"}, "ATTACH_REQUEST", {})
       \/ /\ m.msg = "ReconfigurationCompleted"
          /\ Enters(m.at, {"HANDOVER_JOINING"}, "HANDOVER_PATH_SWITCH", {})
\* A context goes on in one of these two states.
Continues(p, states) ==
    /\ \/ Enters(p, states, "CONNECTED_NORMALLY", ctx[p].timers)
       \/ Enters(p, states, "CONNECTION_RECONFIGURATION", ctx[p].timers)
    /\ Quietly \/ Said(Rrc("Reconfiguration", p))
    /\ UNCHANGED <<ue, lastRnti>>
Reconfigures(m) ==
    /\ Heard(m) /\ m.msg = "ReconfigurationCompleted" /\ UNCHANGED x2
    /\ Continues(m.at, {"CONNECTION_RECONFIGURATION"})

\* A target that removes the context of a UE that was to come refuses the
\* handover after all.
Refusal(p) ==
    x2' = SendX2(p.cell, ctx[p].source.cell, X2("PreparationFailure", ctx[p].source.rnti, 0, 0))
Removed(m) ==
    /\ rrc["now"] = <<m>> /\ m \in RrcMsgs /\ m.msg = "ContextRemove" /\ Quietly
    /\ Gone(m.at) /\ UNCHANGED <<ue, lastRnti>>
    /\ IF ctx[m.at].state = "HANDOVER_JOINING" THEN Refusal(m.at) ELSE UNCHANGED x2

\* The handover.
Prepares(p, c) ==
    /\ Calm /\ Quietly /\ UNCHANGED <<ue, lastRnti>> /\ c \in Cells \ {p.cell}
    /\ p \in Places /\ ctx[p].state = "CONNECTED_NORMALLY"
    /\ Turned(ctx, ctx', p, "HANDOVER_PREPARATION", ctx[p].source, [cell |-> c, rnti |-> 0], ctx[p].timers)
    /\ x2' = SendX2(p.cell, c, X2("HandoverRequest", p.rnti, 0, ctx[p].teid))

\* A message is received from a link.
Arrived(s, d, msg) ==
    /\ s \in Cells /\ d \in Cells /\ s # d /\ x2[<<s, d>>] # <<>>
    /\ Head(x2[<<s, d>>]) \in X2Msgs /\ Head(x2[<<s, d>>]).msg = msg
    /\ Calm /\ UNCHANGED ue
From(s, d) == Head(x2[<<s, d>>]).old
Admits(s, d, p) ==
    /\ Arrived(s, d, "HandoverRequest") /\ Quietly /\ Fresh(p) /\ p.cell = d
    /\ Turned(ctx, ctx', p, "HANDOVER_JOINING", [cell |-> s, rnti |-> From(s, d)], Nowhere, {"joining"})
    /\ x2' = X2Answered(s, d, X2("HandoverRequestAck", From(s, d), p.rnti, 0))
Refuses(s, d) ==
    /\ Arrived(s, d, "HandoverRequest") /\ Quietly /\ UNCHANGED ctx
    /\ UNCHANGED lastRnti \/ Fresh(NextPlace(d))
    /\ x2' = X2Answered(s, d, X2("PreparationFailure", From(s, d), 0, 0))
Commands(s, d, p, q) ==
    /\ Arrived(s, d, "HandoverRequestAck") /\ UNCHANGED lastRnti /\ x2' = X2Taken(s, d)
    /\ p \in Places /\ p.cell = d /\ p.rnti = From(s, d) /\ ctx[p].state # "NONE"
    /\ q \in Places /\ q.cell = s /\ q.rnti = Head(x2[<<s, d>>]).new
    /\ Turned(ctx, ctx', p, "HANDOVER_LEAVING", ctx[p].source, q, ctx[p].timers \cup {"leaving"})
    /\ Said(HandoverCommand(p, q))
Fails(s, d, p) ==
    /\ Arrived(s, d, "PreparationFailure") /\ UNCHANGED lastRnti /\ x2' = X2Taken(s, d)
    /\ p.cell = d /\ p.rnti = From(s, d)
    /\ \/ /\ p \in Places => ctx[p].state = "NONE"
          /\ Quietly /\ UNCHANGED ctx
       \/ ctx[p].target.cell = s /\ Continues(p, {"HANDOVER_PREPARATION"})
       \/ /\ ctx[p].state = "HANDOVER_LEAVING" /\ Gone(p) /\ Raised(Rrc("Release", p))
Ends(s, d, p) ==
    /\ Arrived(s, d, "UeContextRelease") /\ Quietly /\ UNCHANGED lastRnti /\ x2' = X2Taken(s, d)
    /\ p.cell = d /\ p.rnti = From(s, d)
    /\ \/ (p \in Places => ctx[p].state = "NONE") /\ UNCHANGED ctx
       \/ ctx[p].state = "HANDOVER_LEAVING" /\ Gone(p)
Cancels(s, d) ==
    /\ Arrived(s, d, "HandoverCancel") /\ Quietly /\ UNCHANGED lastRnti /\ x2' = X2Taken(s, d)
    /\ \/ UNCHANGED ctx
       \/ \E p \in Places : Enters(p, {"HANDOVER_JOINING"}, "HANDOVER_JOINING", ctx[p].timers \ {"joining"})

\* Timers.
Times(p) ==
    /\ Calm /\ Quietly /\ UNCHANGED <<ue, lastRnti, x2>> /\ Gone(p)
    /\ ctx[p].state \in {"INITIAL_RANDOM_ACCESS", "CONNECTION_SETUP", "CONNECTION_REJECTED"}
    /\ ctx[p].state = "CONNECTION_SETUP" => "setup" \in mishaps'
TimesJoining(p) ==
    /\ Calm /\ Quietly /\ UNCHANGED <<ue, lastRnti>> /\ Gone(p)
    /\ ctx[p].state = "HANDOVER_JOINING" /\ Refusal(p)
TimesLeaving(p) ==
    /\ Calm /\ UNCHANGED <<ue, lastRnti>> /\ Gone(p)
    /\ ctx[p].state = "HANDOVER_LEAVING" /\ Raised(Rrc("Release", p))
    /\ x2' = SendX2(p.cell, ctx[p].target.cell, X2("HandoverCancel", p.rnti, ctx[p].target.rnti, 0))

\* The MME.
SetsUp(p) ==
    /\ Calm /\ UNCHANGED x2 /\ Continues(p, {"ATTACH_REQUEST"})
Switches(p) ==
    /\ Calm /\ Continues(p, {"HANDOVER_PATH_SWITCH"})
    /\ x2' = SendX2(p.cell, ctx[p].source.cell, X2("UeContextRelease", ctx[p].source.rnti, p.rnti, 0))

\* Data: taken from a link or not, forwarded over another or not.
Forwards ==
    /\ Calm /\ Quietly /\ UNCHANGED <<ue, lastRnti>>
    /\ \/ UNCHANGED ctx
       \/ \E p \in Places : Enters(p, {"HANDOVER_JOINING"}, "HANDOVER_JOINING", ctx[p].timers)
    /\ \E x \in [Links -> Seq(X2Msgs)] :
          /\ \/ x = x2
             \/ \E s, d \in Cells : Arrived(s, d, "UeData") /\ x = X2Taken(s, d)
          /\ \/ x2' = x
             \/ \E l \in Links, t \in Teids \cup {0} : x2' = [x EXCEPT ![l] = Append(@, X2("UeData", 0, 0, t))]


-----------------------------------------------------------------------------
(* A message is next on a channel: it is received, and an answer sent.     *)
LEMMA Hears ==
    ASSUME TypeInv, NEW ch \in Channels, NEW msg, NextRrc(ch, msg)
    PROVE  LET m == Head(rrc[ch]) IN
           /\ Heard(m) /\ m \in RrcMsgs /\ m.msg = msg /\ m.at \in Places
           /\ (ch = "now" => rrc["now"] = <<m>>) /\ (ch # "now" => Calm)
           /\ rrc' = Taken(ch) => Quietly
           /\ \A n \in RrcMsgs : \A k : Carries(k, n) /\ rrc' = Put(Taken(ch), k, n) =>
                 Said(n) /\ (k = "now" => Raised(n))
  <1> DEFINE m == Head(rrc[ch])
  <1>1. /\ rrc[ch] # <<>> /\ (ch = "now" \/ rrc["now"] = <<>>)
        /\ m \in RrcMsgs /\ m \in Msgs(rrc) /\ m.msg = msg /\ m.at \in Places
        /\ Taken(ch) \in [Channels -> Seq(RrcMsgs)] /\ Events(Taken(ch))
        /\ Taken(ch)["now"] = <<>> /\ Msgs(Taken(ch)) \subseteq Msgs(rrc)
        /\ conf \in Confs
    BY NextRrcTypes
  <1>2. ch = "now" => rrc["now"] = <<m>>
    <2> SUFFICES ASSUME ch = "now" PROVE rrc["now"] = <<m>>
      OBVIOUS
    <2>1. rrc["now"] \in Seq(RrcMsgs) /\ Len(rrc["now"]) <= 1 /\ rrc["now"] # <<>>
      BY <1>1 DEF TypeInv, LinksTyped, OneEvent, Events
    <2>2. Len(rrc["now"]) \in Nat \ {0}
      BY <2>1
    <2>3. Len(rrc["now"]) = 1
      BY <2>1, <2>2, AtMostOne
    <2> QED
      BY <2>1, <2>3
  <1>3. Heard(m)
    BY <1>1, <1>2 DEF Heard, Calm
  <1>4. rrc' = Taken(ch) => Quietly
    BY <1>1 DEF Quietly
  <1>5. ASSUME NEW n \in RrcMsgs, NEW k, Carries(k, n), rrc' = Put(Taken(ch), k, n)
        PROVE  Said(n) /\ (k = "now" => Raised(n))
    <2>1. /\ rrc'["now"] = IF k = "now" THEN <<n>> ELSE <<>>
          /\ Msgs(rrc') \subseteq Msgs(Taken(ch)) \cup {n}
      BY <1>1, <1>5, Sent
    <2>2. Msgs(rrc') \subseteq Msgs(rrc) \cup {n}
      BY <2>1, <1>1
    <2>3. rrc'["now"] \in {<<>>, <<n>>} /\ (k = "now" => rrc'["now"] = <<n>>)
      BY <2>1, Zenon
    <2> HIDE DEF m
    <2> QED
      BY <2>2, <2>3 DEF Said, Raised
  <1> QED
    BY <1>1, <1>2, <1>3, <1>4, <1>5 DEF Calm

(* No event is due: a message is sent or none.                             *)
LEMMA Speaks ==
    ASSUME TypeInv, Settled
    PROVE  /\ Calm /\ (UNCHANGED rrc => Quietly)
           /\ \A n \in RrcMsgs : \A k : Carries(k, n) /\ rrc' = Put(rrc, k, n) =>
                 Said(n) /\ (k = "now" => Raised(n))
  <1>1. Calm /\ (UNCHANGED rrc => Quietly)
    BY DEF Settled, Calm, Quietly
  <1>2. conf \in Confs /\ rrc \in [Channels -> Seq(RrcMsgs)] /\ Events(rrc) /\ rrc["now"] = <<>>
    BY DEF TypeInv, CellsTyped, LinksTyped, OneEvent, Settled
  <1>5. ASSUME NEW n \in RrcMsgs, NEW k, Carries(k, n), rrc' = Put(rrc, k, n)
        PROVE  Said(n) /\ (k = "now" => Raised(n))
    <2>1. /\ rrc'["now"] = IF k = "now" THEN <<n>> ELSE <<>>
          /\ Msgs(rrc') \subseteq Msgs(rrc) \cup {n}
      BY <1>2, <1>5, Sent
    <2>3. rrc'["now"] \in {<<>>, <<n>>} /\ (k = "now" => rrc'["now"] = <<n>>)
      BY <2>1, Zenon
    <2> QED
      BY <2>1, <2>3 DEF Said, Raised
  <1> QED
    BY <1>1, <1>5

(* The RRC messages that are sent.                                         *)
LEMMA Spoken ==
    ASSUME TypeInv, NEW p \in Places
    PROVE  /\ \A msg \in RrcNames \ {"HandoverCommand"} : Rrc(msg, p) \in RrcMsgs
           /\ \A msg : Carries(Via("down"), Rrc(msg, p)) /\ Carries(Via("up"), Rrc(msg, p))
           /\ Carries("now", Rrc("Release", p)) /\ Carries("now", Rrc("ContextRemove", p))
           /\ \A q \in Places : /\ HandoverCommand(p, q) \in RrcMsgs
                                /\ Carries(Via("down"), HandoverCommand(p, q))
  BY RrcTypes DEF Carries, Rrc

(* A reconfiguration that follows or not.                                  *)
LEMMA SaysReconfiguration ==
    ASSUME TypeInv, NEW p \in Places,
           \/ Settled /\ rrc' = Reconfigured(rrc, p)
           \/ \E ch \in Channels : NextRrc(ch, "ReconfigurationCompleted") /\ rrc' = Reconfigured(Taken(ch), p)
    PROVE  Quietly \/ Said(Rrc("Reconfiguration", p))
  <1>1. /\ Rrc("Reconfiguration", p) \in RrcMsgs
        /\ Carries(Via("down"), Rrc("Reconfiguration", p))
    BY Spoken DEF RrcNames
  <1>2. CASE Settled /\ rrc' = Reconfigured(rrc, p)
    BY <1>1, <1>2, Speaks DEF Reconfigured
  <1>3. ASSUME NEW ch \in Channels, NextRrc(ch, "ReconfigurationCompleted"), rrc' = Reconfigured(Taken(ch), p)
        PROVE  Quietly \/ Said(Rrc("Reconfiguration", p))
    BY <1>1, <1>3, Hears DEF Reconfigured
  <1> QED
    BY <1>2, <1>3

(* RemoveUe.                                                               *)
LEMMA Goes ==
    ASSUME TypeInv, NEW p \in Places, RemoveUe(p)
    PROVE  Gone(p)
  <1>1. ctx' = [ctx EXCEPT ![p] = NoContext] /\ ctx \in [Places -> Contexts] /\ NoContext \in Contexts
    BY PlaceTypes DEF RemoveUe, TypeInv, CellsTyped
  <1>2. Turned(ctx, [ctx EXCEPT ![p] = NoContext], p,
               NoContext.state, NoContext.source, NoContext.target, NoContext.timers)
    BY <1>1, Replaced
  <1>3. NoContext.state = "NONE" /\ NoContext.source = Nowhere /\ NoContext.target = Nowhere /\ NoContext.timers = {}
    BY DEF NoContext
  <1> QED
    BY <1>1, <1>2, <1>3 DEF Gone

(* ConnectedNormally.                                                      *)
LEMMA Resumes ==
    ASSUME TypeInv, NEW p \in Places, ctx' = [ctx EXCEPT ![p] = ConnectedNormally(@)]
    PROVE  \A states : ctx[p].state \in states =>
             \/ Enters(p, states, "CONNECTED_NORMALLY", ctx[p].timers)
             \/ Enters(p, states, "CONNECTION_RECONFIGURATION", ctx[p].timers)
  <1> DEFINE x == ConnectedNormally(ctx[p])
  <1>1. ctx \in [Places -> Contexts] /\ ctx[p] \in Contexts
    BY DEF TypeInv, CellsTyped
  <1>2. /\ x \in Contexts /\ x.state \in {"CONNECTED_NORMALLY", "CONNECTION_RECONFIGURATION"}
        /\ x.source = ctx[p].source /\ x.target = ctx[p].target /\ x.timers = ctx[p].timers
    BY <1>1, ConnectedTypes
  <1>3. ctx' = [ctx EXCEPT ![p] = x]
    OBVIOUS
  <1> HIDE DEF x
  <1>4. Turned(ctx, [ctx EXCEPT ![p] = x], p, x.state, x.source, x.target, x.timers)
    BY <1>1, <1>2, Replaced
  <1> QED
    BY <1>2, <1>3, <1>4 DEF Enters

(* The steps of the UE on its own.                                         *)
LEMMA UeEffects ==
    ASSUME TypeInv, UeStep
    PROVE  Selecting \/ (\E p \in Places : Accessing(p)) \/ Arriving \/ Leaves
  <1>t. /\ ue.state = "IDLE_RANDOM_ACCESS" => ue.at.cell \in Cells
        /\ ue.state \in {"IDLE_CONNECTING", "CONNECTED_NORMALLY", "CONNECTED_HANDOVER"} => ue.at \in Places
        /\ lastRnti \in [Cells -> Rntis \cup {0}] /\ ctx \in [Places -> Contexts]
    BY DEF TypeInv, UeTyped, CellsTyped
  <1>n. Idle.at \notin Places /\ Idle.state = "IDLE" /\ \A c : [cell |-> c, rnti |-> 0] \notin Places
    BY PlaceTypes DEF Idle, Places
  <1>f. ASSUME NEW c \in Cells, ~NoRntiLeft(c),
               ctx' = [ctx EXCEPT ![NextPlace(c)] = NewContext("INITIAL_RANDOM_ACCESS", Nowhere)],
               lastRnti' = [lastRnti EXCEPT ![NextPlace(c).cell] = NextPlace(c).rnti]
        PROVE  /\ NextPlace(c) \in Places /\ NextPlace(c).cell = c /\ Fresh(NextPlace(c))
               /\ Turned(ctx, ctx', NextPlace(c), "INITIAL_RANDOM_ACCESS", Nowhere, Nowhere, {"request"})
    <2> DEFINE p == NextPlace(c)
               x == NewContext("INITIAL_RANDOM_ACCESS", Nowhere)
    <2>1. p \in Places /\ p.cell = c /\ p.rnti = lastRnti[c] + 1
      BY <1>f, <1>t, NextPlaceTypes
    <2>2. x \in Contexts /\ x.state = "INITIAL_RANDOM_ACCESS" /\ x.source = Nowhere
      BY NewContextTypes, PlaceTypes
    <2>3. x.target = Nowhere /\ x.timers = {"request"}
      BY DEF NewContext, NoContext, InitialTimer
    <2>4. ctx' = [ctx EXCEPT ![p] = x] /\ lastRnti' = [lastRnti EXCEPT ![p.cell] = p.rnti]
      BY <1>f
    <2> HIDE DEF p, x
    <2>5. Turned(ctx, [ctx EXCEPT ![p] = x], p, x.state, x.source, x.target, x.timers)
      BY <2>1, <2>2, <1>t, Replaced
    <2>6. Turned(ctx, ctx', p, "INITIAL_RANDOM_ACCESS", Nowhere, Nowhere, {"request"})
      BY <2>2, <2>3, <2>4, <2>5
    <2>7. Fresh(p)
      BY <2>1, <2>4 DEF Fresh
    <2> QED
      BY <2>1, <2>6, <2>7 DEF p
  <1>1. ASSUME NEW c \in Cells, SelectCell(c) PROVE Selecting
    <2>1. /\ Settled /\ ue.state = "IDLE" /\ UNCHANGED <<rrc, ctx, lastRnti, x2>>
          /\ ue' = [state |-> "IDLE_RANDOM_ACCESS", at |-> [cell |-> c, rnti |-> 0]]
      BY <1>1 DEF SelectCell
    <2>2. ue'.state = "IDLE_RANDOM_ACCESS" /\ ue'.at \notin Places
      BY <2>1, <1>n
    <2> QED
      BY <2>1, <2>2, Speaks DEF Selecting
  <1>2. ASSUME RandomAccess PROVE \E p \in Places : Accessing(p)
    <2> DEFINE p == NextPlace(ue.at.cell)
    <2>1. /\ Settled /\ ue.state = "IDLE_RANDOM_ACCESS" /\ ~NoRntiLeft(ue.at.cell) /\ UNCHANGED x2
          /\ ctx' = [ctx EXCEPT ![p] = NewContext("INITIAL_RANDOM_ACCESS", Nowhere)]
          /\ lastRnti' = [lastRnti EXCEPT ![p.cell] = p.rnti]
          /\ ue' = [state |-> "IDLE_CONNECTING", at |-> p]
          /\ rrc' = Put(rrc, Via("up"), Rrc("ConnectionRequest", p))
      BY <1>2 DEF RandomAccess
    <2>2. /\ p \in Places /\ p.cell = ue.at.cell /\ Fresh(p)
          /\ Turned(ctx, ctx', p, "INITIAL_RANDOM_ACCESS", Nowhere, Nowhere, {"request"})
      BY <2>1, <1>t, <1>f
    <2>3. ue'.state = "IDLE_CONNECTING" /\ ue'.at = p
      BY <2>1
    <2> HIDE DEF p
    <2>4. Rrc("ConnectionRequest", p) \in RrcMsgs /\ Carries(Via("up"), Rrc("ConnectionRequest", p))
      BY <2>2, Spoken DEF RrcNames
    <2>5. Calm /\ Said(Rrc("ConnectionRequest", p))
      BY <2>1, <2>4, Speaks
    <2> QED
      BY <2>1, <2>2, <2>3, <2>5 DEF Accessing
  <1>3. ASSUME HandoverRandomAccess PROVE Arriving \/ \E p \in Places : Accessing(p)
    <2> DEFINE p == IF HasUeManager(ue.at) THEN ue.at ELSE NextPlace(ue.at.cell)
    <2>1. /\ Settled /\ ue.state = "CONNECTED_HANDOVER" /\ UNCHANGED x2
          /\ HasUeManager(ue.at) \/ ~NoRntiLeft(ue.at.cell)
          /\ ue' = [state |-> "CONNECTED_NORMALLY", at |-> p]
          /\ rrc' = Put(rrc, Via("up"), Rrc("ReconfigurationCompleted", p))
      BY <1>3 DEF HandoverRandomAccess
    <2>p. ue.at \in Places /\ ue.at.cell \in Cells
      BY <2>1, <1>t, PlaceTypes
    <2>2. ue'.state = "CONNECTED_NORMALLY" /\ ue'.at = p
      BY <2>1
    <2>3. ASSUME p \in Places PROVE Calm /\ Said(Rrc("ReconfigurationCompleted", p))
      <3> HIDE DEF p
      <3>1. Rrc("ReconfigurationCompleted", p) \in RrcMsgs /\ Carries(Via("up"), Rrc("ReconfigurationCompleted", p))
        BY <2>3, Spoken DEF RrcNames
      <3> QED
        BY <3>1, <2>1, Speaks
    <2>4. CASE HasUeManager(ue.at)
      <3>1. p = ue.at /\ UNCHANGED <<ctx, lastRnti>>
        BY <1>3, <2>4 DEF HandoverRandomAccess
      <3> HIDE DEF p
      <3> QED
        BY <3>1, <2>1, <2>2, <2>3, <2>p DEF Arriving
    <2>5. CASE ~HasUeManager(ue.at)
      <3>1. /\ p = NextPlace(ue.at.cell) /\ ~NoRntiLeft(ue.at.cell)
            /\ ctx' = [ctx EXCEPT ![p] = NewContext("INITIAL_RANDOM_ACCESS", Nowhere)]
            /\ lastRnti' = [lastRnti EXCEPT ![p.cell] = p.rnti]
        BY <1>3, <2>5, <2>1 DEF HandoverRandomAccess
      <3> HIDE DEF p
      <3>2. /\ p \in Places /\ p.cell = ue.at.cell /\ Fresh(p)
            /\ Turned(ctx, ctx', p, "INITIAL_RANDOM_ACCESS", Nowhere, Nowhere, {"request"})
        BY <3>1, <2>p, <1>f
      <3>3. ctx[ue.at].state = "NONE"
        BY <2>5, <2>p DEF HasUeManager
      <3> QED
        BY <3>2, <3>3, <2>1, <2>2, <2>3 DEF Accessing
    <2> QED
      BY <2>4, <2>5
  <1>4. ASSUME HandoverRandomAccessFailed \/ RadioLinkFailure PROVE Leaves
    <2>1. /\ Settled /\ ue.state \in Connected /\ UNCHANGED <<ctx, lastRnti, x2>>
          /\ ue' = Idle /\ rrc' = Put(rrc, "now", Rrc("ContextRemove", ue.at))
      BY <1>4 DEF HandoverRandomAccessFailed, RadioLinkFailure, LeaveConnectedMode, Connected
    <2>2. ue.at \in Places
      BY <2>1, <1>t DEF Connected
    <2>3. Rrc("ContextRemove", ue.at) \in RrcMsgs /\ Carries("now", Rrc("ContextRemove", ue.at))
      BY <2>2, Spoken DEF RrcNames
    <2> QED
      BY <2>1, <2>3, Speaks DEF Leaves
  <1>5. ASSUME ConnectionTimeout PROVE Selecting
    <2>1. Settled /\ ue.state = "IDLE_CONNECTING" /\ ue' = Idle /\ UNCHANGED <<rrc, ctx, lastRnti, x2>>
      BY <1>5 DEF ConnectionTimeout
    <2> QED
      BY <2>1, <1>n, Speaks DEF Selecting
  <1> QED
    BY <1>1, <1>2, <1>3, <1>4, <1>5 DEF UeStep

(* RRC messages to the UE.                                                 *)
LEMMA DownEffects ==
    ASSUME TypeInv, NEW ch \in {"now", "down"},
           \/ RecvRrcConnectionSetup(ch) \/ RecvRrcConnectionReject(ch)
           \/ RecvHandoverCommand(ch) \/ RecvReconfiguration(ch)
    PROVE  Still \/ \E m \in RrcMsgs : Connecting(m) \/ Rejected(m) \/ Commanded(m) \/ Replying(m)
  <1>c. ch \in Channels
    BY DEF Channels
  <1> DEFINE m == Head(rrc[ch])
  <1>t. ue.state \in {"IDLE_CONNECTING", "CONNECTED_NORMALLY", "CONNECTED_HANDOVER"} => ue.at \in Places
    BY DEF TypeInv, UeTyped
  <1>a. ASSUME NEW msg, NextRrc(ch, msg)
        PROVE  /\ Heard(m) /\ m \in RrcMsgs /\ m.msg = msg /\ m.at \in Places
               /\ (ch = "now" => rrc["now"] = <<m>>) /\ (ch # "now" => Calm)
               /\ rrc' = Taken(ch) => Quietly
               /\ \A n \in RrcMsgs : \A k : Carries(k, n) /\ rrc' = Put(Taken(ch), k, n) => Said(n)
    BY <1>a, <1>c, Hears
  <1>u. ASSUME NEW reason, Abort(reason) PROVE Still
    BY <1>u DEF Abort, Still, ueVars
  <1>o. ASSUME NEW msg, msg \in {"ConnectionSetup", "ConnectionReject"}, NextRrc(ch, msg), ReachesUe(ch)
        PROVE  m.at = ue.at
    <2>1. CASE ch = "now"
      <3>1. rrc["now"] # <<>> /\ Asking(Head(rrc["now"]))
        BY <1>o, <2>1 DEF NextRrc, Asking
      <3> QED
        BY <3>1, <2>1 DEF TypeInv, OneEvent
    <2>2. CASE ch # "now"
      BY <2>2, <1>o DEF ReachesUe
    <2> QED
      BY <2>1, <2>2
  <1>1. ASSUME RecvRrcConnectionSetup(ch) PROVE Still \/ \E n \in RrcMsgs : Connecting(n)
    <2>1. NextRrc(ch, "ConnectionSetup") /\ ReachesUe(ch)
      BY <1>1 DEF RecvRrcConnectionSetup
    <2>2. CASE ue.state = "IDLE_CONNECTING"
      <3>1. /\ ue' = [ue EXCEPT !.state = "CONNECTED_NORMALLY"] /\ UNCHANGED <<ctx, lastRnti, x2>>
            /\ rrc' = Put(Taken(ch), Via("up"), Rrc("ConnectionSetupCompleted", ue.at))
        BY <1>1, <2>2 DEF RecvRrcConnectionSetup
      <3>2. ue'.state = "CONNECTED_NORMALLY" /\ ue'.at = ue.at
        BY <3>1 DEF TypeInv, UeTyped
      <3>3. /\ Rrc("ConnectionSetupCompleted", ue.at) \in RrcMsgs
            /\ Carries(Via("up"), Rrc("ConnectionSetupCompleted", ue.at))
        BY <2>2, <1>t, Spoken DEF RrcNames
      <3>4. Said(Rrc("ConnectionSetupCompleted", ue.at)) /\ Heard(m) /\ m \in RrcMsgs /\ m.msg = "ConnectionSetup"
        BY <3>1, <3>3, <2>1, <1>a
      <3>5. m.at = ue.at
        BY <2>1, <1>o
      <3> HIDE DEF m
      <3> QED
        BY <3>1, <3>2, <3>4, <3>5, <2>2 DEF Connecting
    <2> QED
      BY <2>2, <1>1, <1>u DEF RecvRrcConnectionSetup
  <1>2. ASSUME RecvRrcConnectionReject(ch) PROVE \E n \in RrcMsgs : Rejected(n)
    <2>1. /\ NextRrc(ch, "ConnectionReject") /\ ReachesUe(ch)
          /\ ue' = [state |-> "IDLE_RANDOM_ACCESS", at |-> [ue.at EXCEPT !.rnti = 0]]
          /\ rrc' = Taken(ch) /\ UNCHANGED <<ctx, lastRnti, x2>>
      BY <1>2 DEF RecvRrcConnectionReject
    <2>2. Quietly /\ Heard(m) /\ m \in RrcMsgs /\ m.msg = "ConnectionReject" /\ m.at \in Places
      BY <2>1, <1>a
    <2>3. m.at = ue.at
      BY <2>1, <1>o
    <2> HIDE DEF m
    <2>4. [ue.at EXCEPT !.rnti = 0].rnti = 0
      BY <2>2, <2>3 DEF Places
    <2>5. ue'.state = "IDLE_RANDOM_ACCESS" /\ ue'.at \notin Places
      BY <2>1, <2>4, PlaceTypes
    <2> QED
      BY <2>1, <2>2, <2>3, <2>5 DEF Rejected
  <1>3. ASSUME RecvHandoverCommand(ch) PROVE Still \/ \E n \in RrcMsgs : Commanded(n)
    <2>1. NextRrc(ch, "HandoverCommand") /\ ReachesUe(ch)
      BY <1>3 DEF RecvHandoverCommand
    <2>2. CASE ue.state = "CONNECTED_NORMALLY"
      <3>1. /\ ue' = [state |-> "CONNECTED_HANDOVER", at |-> m.target]
            /\ rrc' = Taken(ch) /\ UNCHANGED <<ctx, lastRnti, x2>>
        BY <1>3, <2>2 DEF RecvHandoverCommand
      <3>2. ue'.state = "CONNECTED_HANDOVER" /\ ue'.at = m.target
        BY <3>1
      <3>3. Quietly /\ Heard(m) /\ m \in RrcMsgs /\ m.msg = "HandoverCommand" /\ (ch = "now" => rrc["now"] = <<m>>)
        BY <3>1, <2>1, <1>a
      <3>4. Calm => m.at = ue.at
        BY <2>1, <3>3 DEF Calm, ReachesUe
      <3> HIDE DEF m
      <3> QED
        BY <3>1, <3>2, <3>3, <3>4, <2>2 DEF Commanded
    <2> QED
      BY <2>2, <1>3, <1>u DEF RecvHandoverCommand
  <1>4. ASSUME RecvReconfiguration(ch) PROVE Still \/ \E n \in RrcMsgs : Replying(n)
    <2>1. NextRrc(ch, "Reconfiguration")
      BY <1>4 DEF RecvReconfiguration
    <2>2. CASE ue.state = "CONNECTED_NORMALLY"
      <3>1. /\ UNCHANGED <<ue, ctx, lastRnti, x2>>
            /\ rrc' = Put(Taken(ch), Via("up"), Rrc("ReconfigurationCompleted", ue.at))
        BY <1>4, <2>2 DEF RecvReconfiguration, ueVars
      <3>3. /\ Rrc("ReconfigurationCompleted", ue.at) \in RrcMsgs
            /\ Carries(Via("up"), Rrc("ReconfigurationCompleted", ue.at))
        BY <2>2, <1>t, Spoken DEF RrcNames
      <3>4. Said(Rrc("ReconfigurationCompleted", ue.at)) /\ Heard(m) /\ m \in RrcMsgs /\ m.msg = "Reconfiguration"
        BY <3>1, <3>3, <2>1, <1>a
      <3> HIDE DEF m
      <3> QED
        BY <3>1, <3>4, <2>2 DEF Replying
    <2> QED
      BY <2>2, <1>4, <1>u DEF RecvReconfiguration
  <1> QED
    BY <1>1, <1>2, <1>3, <1>4

(* RRC messages to the eNB.                                                *)
LEMMA UpEffects ==
    ASSUME TypeInv, NEW ch \in {"now", "up"},
           \/ \E admit \in BOOLEAN : RecvRrcConnectionRequest(ch, admit)
           \/ RecvRrcConnectionSetupCompleted(ch)
           \/ RecvReconfigurationCompleted(ch)
    PROVE  Still \/ \E m \in RrcMsgs : Dropping(m) \/ Admitting(m) \/ Completing(m) \/ Reconfigures(m)
  <1>c. ch \in Channels /\ ctx \in [Places -> Contexts]
    BY DEF Channels, TypeInv, CellsTyped
  <1> DEFINE m == Head(rrc[ch])
             p == m.at
  <1>a. ASSUME NEW msg, NextRrc(ch, msg)
        PROVE  /\ Heard(m) /\ m \in RrcMsgs /\ m.msg = msg /\ p \in Places
               /\ (ch # "now" => Calm) /\ (rrc' = Taken(ch) => Quietly)
               /\ \A n \in RrcMsgs : \A k : Carries(k, n) /\ rrc' = Put(Taken(ch), k, n) => Said(n)
    BY <1>a, <1>c, Hears
  <1>u. ASSUME NEW reason, Abort(reason) PROVE Still
    BY <1>u DEF Abort, Still, ueVars
  <1>d. ASSUME NEW msg, NextRrc(ch, msg), msg \notin {"Release", "ContextRemove"},
               rrc' = Taken(ch), UNCHANGED <<ue, ctx, lastRnti, x2>>
        PROVE  \E n \in RrcMsgs : Dropping(n)
    <2>1. Heard(m) /\ m \in RrcMsgs /\ m.msg = msg /\ Quietly
      BY <1>d, <1>a
    <2> HIDE DEF m
    <2> QED
      BY <2>1, <1>d DEF Dropping
  <1>k. ASSUME NEW msg, NextRrc(ch, msg), msg \notin {"Release", "ContextRemove"}, UnknownRnti(ch)
        PROVE  Still \/ \E n \in RrcMsgs : Dropping(n)
    BY <1>k, <1>u, <1>d DEF UnknownRnti, ueVars
  <1>1. ASSUME NEW admit \in BOOLEAN, RecvRrcConnectionRequest(ch, admit)
        PROVE  Still \/ \E n \in RrcMsgs : Dropping(n) \/ Admitting(n)
    <2>1. NextRrc(ch, "ConnectionRequest")
      BY <1>1 DEF RecvRrcConnectionRequest
    <2>2. CASE ~HasUeManager(p)
      BY <1>1, <2>1, <2>2, <1>k DEF RecvRrcConnectionRequest
    <2>3. CASE HasUeManager(p) /\ ctx[p].state # "INITIAL_RANDOM_ACCESS"
      BY <1>1, <2>3, <1>u DEF RecvRrcConnectionRequest
    <2>4. CASE HasUeManager(p) /\ ctx[p].state = "INITIAL_RANDOM_ACCESS"
      <3> DEFINE st == IF admit THEN "CONNECTION_SETUP" ELSE "CONNECTION_REJECTED"
                 ti == IF admit THEN {"setup"} ELSE {"rejected"}
                 n == IF admit THEN "ConnectionSetup" ELSE "ConnectionReject"
      <3>1. /\ ctx' = [ctx EXCEPT ![p].state = st, ![p].timers = ti]
            /\ rrc' = Put(Taken(ch), Via("down"), Rrc(n, p))
            /\ UNCHANGED <<ue, lastRnti, x2>>
        BY <1>1, <2>4 DEF RecvRrcConnectionRequest, ueVars
      <3>2. st \in ContextStates /\ ti \in SUBSET Timers /\ n \in RrcNames \ {"HandoverCommand"}
        BY DEF ContextStates, Timers, RrcNames
      <3>3. Heard(m) /\ m \in RrcMsgs /\ m.msg = "ConnectionRequest" /\ p \in Places
        BY <2>1, <1>a
      <3>4. Rrc(n, p) \in RrcMsgs /\ Carries(Via("down"), Rrc(n, p))
        BY <3>2, <3>3, Spoken
      <3>5. Said(Rrc(n, p))
        BY <3>1, <3>4, <2>1, <1>a
      <3>s. \/ st = "CONNECTION_SETUP" /\ ti = {"setup"} /\ n = "ConnectionSetup"
            \/ st = "CONNECTION_REJECTED" /\ ti = {"rejected"} /\ n = "ConnectionReject"
        OBVIOUS
      <3> HIDE DEF st, ti, n, p
      <3>6. Turned(ctx, [ctx EXCEPT ![p].state = st, ![p].timers = ti], p, st, ctx[p].source, ctx[p].target, ti)
        BY <3>2, <3>3, <1>c, StateSet
      <3>7. Enters(p, {"INITIAL_RANDOM_ACCESS"}, st, ti)
        BY <3>1, <3>3, <3>6, <2>4 DEF Enters
      <3>8. \/ Enters(p, {"INITIAL_RANDOM_ACCESS"}, "CONNECTION_SETUP", {"setup"}) /\ Said(Rrc("ConnectionSetup", p))
            \/ Enters(p, {"INITIAL_RANDOM_ACCESS"}, "CONNECTION_REJECTED", {"rejected"}) /\ Said(Rrc("ConnectionReject", p))
        BY <3>7, <3>5, <3>s
      <3>9. p = m.at
        BY DEF p
      <3> HIDE DEF m
      <3> QED
        BY <3>1, <3>3, <3>8, <3>9 DEF Admitting
    <2> QED
      BY <2>2, <2>3, <2>4
  <1>2. ASSUME RecvRrcConnectionSetupCompleted(ch)
        PROVE  Still \/ \E n \in RrcMsgs : Dropping(n) \/ Completing(n)
    <2>1. NextRrc(ch, "ConnectionSetupCompleted")
      BY <1>2 DEF RecvRrcConnectionSetupCompleted
    <2>2. CASE ~HasUeManager(p)
      BY <1>2, <2>1, <2>2, <1>k DEF RecvRrcConnectionSetupCompleted
    <2>3. CASE HasUeManager(p) /\ ctx[p].state # "CONNECTION_SETUP"
      BY <1>2, <2>3, <1>u DEF RecvRrcConnectionSetupCompleted
    <2>4. CASE HasUeManager(p) /\ ctx[p].state = "CONNECTION_SETUP"
      <3>1. /\ ctx' = [ctx EXCEPT ![p].state = "ATTACH_REQUEST", ![p].timers = {}]
            /\ rrc' = Taken(ch) /\ UNCHANGED <<ue, lastRnti, x2>>
        BY <1>2, <2>4 DEF RecvRrcConnectionSetupCompleted, ueVars
      <3>2. Heard(m) /\ m \in RrcMsgs /\ m.msg = "ConnectionSetupCompleted" /\ p \in Places /\ Quietly
        BY <3>1, <2>1, <1>a
      <3> HIDE DEF p
      <3>3. Turned(ctx, [ctx EXCEPT ![p].state = "ATTACH_REQUEST", ![p].timers = {}], p,
                   "ATTACH_REQUEST", ctx[p].source, ctx[p].target, {})
        BY <3>2, <1>c, StateSet DEF ContextStates
      <3>4. Enters(p, {"CONNECTION_SETUP"}, "ATTACH_REQUEST", {})
        BY <3>1, <3>2, <3>3, <2>4 DEF Enters
      <3>5. p = m.at
        BY DEF p
      <3> HIDE DEF m
      <3> QED
        BY <3>1, <3>2, <3>4, <3>5 DEF Completing
    <2> QED
      BY <2>2, <2>3, <2>4
  <1>3. ASSUME RecvReconfigurationCompleted(ch)
        PROVE  Still \/ \E n \in RrcMsgs : Dropping(n) \/ Completing(n) \/ Reconfigures(n)
    <2>1. NextRrc(ch, "ReconfigurationCompleted")
      BY <1>3 DEF RecvReconfigurationCompleted
    <2>2. CASE ~HasUeManager(p)
      BY <1>3, <2>1, <2>2, <1>k DEF RecvReconfigurationCompleted
    <2>3. CASE HasUeManager(p) /\ ctx[p].state = "HANDOVER_JOINING"
      <3>0. PathSwitchRequest(p, ch)
        BY <1>3, <2>3 DEF RecvReconfigurationCompleted
      <3>1. /\ ctx' = [ctx EXCEPT ![p].state = "HANDOVER_PATH_SWITCH", ![p].timers = {}, ![p].buffer = 0]
            /\ rrc' = Taken(ch) /\ UNCHANGED <<ue, lastRnti, x2>>
        BY <3>0 DEF PathSwitchRequest, ueVars
      <3>2. Heard(m) /\ m \in RrcMsgs /\ m.msg = "ReconfigurationCompleted" /\ p \in Places /\ Quietly
        BY <3>1, <2>1, <1>a
      <3> HIDE DEF p
      <3>3. Turned(ctx, [ctx EXCEPT ![p].state = "HANDOVER_PATH_SWITCH", ![p].timers = {}, ![p].buffer = 0], p,
                   "HANDOVER_PATH_SWITCH", ctx[p].source, ctx[p].target, {})
        BY <3>2, <1>c, StateSet DEF ContextStates
      <3>4. Enters(p, {"HANDOVER_JOINING"}, "HANDOVER_PATH_SWITCH", {})
        BY <3>1, <3>2, <3>3, <2>3 DEF Enters
      <3>5. p = m.at
        BY DEF p
      <3> HIDE DEF m
      <3> QED
        BY <3>1, <3>2, <3>4, <3>5 DEF Completing
    <2>4. CASE HasUeManager(p) /\ ctx[p].state = "CONNECTION_RECONFIGURATION"
      <3>1. /\ ctx' = [ctx EXCEPT ![p] = ConnectedNormally(@)] /\ rrc' = Reconfigured(Taken(ch), p)
            /\ UNCHANGED <<ue, lastRnti, x2>>
        BY <1>3, <2>4 DEF RecvReconfigurationCompleted, ueVars
      <3>2. Heard(m) /\ m \in RrcMsgs /\ m.msg = "ReconfigurationCompleted" /\ p \in Places
        BY <2>1, <1>a
      <3> HIDE DEF p
      <3>3. Quietly \/ Said(Rrc("Reconfiguration", p))
        BY <3>1, <3>2, <2>1, <1>c, SaysReconfiguration
      <3>4. Continues(p, {"CONNECTION_RECONFIGURATION"})
        BY <3>1, <3>2, <3>3, <2>4, Resumes DEF Continues
      <3>5. p = m.at
        BY DEF p
      <3> HIDE DEF m
      <3> QED
        BY <3>1, <3>2, <3>4, <3>5 DEF Reconfigures
    <2>5. CASE HasUeManager(p) /\ ctx[p].state \in {"CONNECTED_NORMALLY", "HANDOVER_LEAVING"}
      <3>1. rrc' = Taken(ch) /\ UNCHANGED <<ue, ctx, lastRnti, x2>>
        BY <1>3, <2>5 DEF RecvReconfigurationCompleted, ueVars
      <3> QED
        BY <3>1, <2>1, <1>d
    <2>6. CASE /\ HasUeManager(p)
               /\ ctx[p].state \notin {"HANDOVER_JOINING", "CONNECTION_RECONFIGURATION",
                                       "CONNECTED_NORMALLY", "HANDOVER_LEAVING"}
      BY <1>3, <2>6, <1>u DEF RecvReconfigurationCompleted
    <2> QED
      BY <2>2, <2>3, <2>4, <2>5, <2>6
  <1> QED
    BY <1>1, <1>2, <1>3

(* The UE is released, a context removed at its request, a message lost.   *)
LEMMA EventEffects ==
    ASSUME TypeInv,
           RecvRrcConnectionRelease \/ RecvContextRemove \/ \E ch \in {"down", "up"} : LoseInTheAir(ch)
    PROVE  Leaves \/ \E m \in RrcMsgs : Dropping(m) \/ Removed(m)
  <1>1. ASSUME RecvRrcConnectionRelease PROVE Leaves \/ \E m \in RrcMsgs : Dropping(m)
    <2> DEFINE m == Head(rrc["now"])
    <2>1. NextRrc("now", "Release") /\ UNCHANGED <<ctx, lastRnti, x2>> /\ "now" \in Channels
      BY <1>1 DEF RecvRrcConnectionRelease, Channels
    <2>2. /\ Heard(m) /\ m \in RrcMsgs /\ m.msg = "Release" /\ m.at \in Places /\ rrc["now"] = <<m>>
          /\ rrc' = Taken("now") => Quietly
          /\ \A n \in RrcMsgs : Carries("now", n) /\ rrc' = Put(Taken("now"), "now", n) => Raised(n)
      BY <2>1, Hears
    <2> HIDE DEF m
    <2>3. CASE ue.state \in Connected
      <3>1. ue' = Idle /\ rrc' = Put(Taken("now"), "now", Rrc("ContextRemove", ue.at))
        BY <1>1, <2>3 DEF RecvRrcConnectionRelease, LeaveConnectedMode, Connected
      <3>2. ue.at \in Places
        BY <2>3 DEF TypeInv, UeTyped, Connected
      <3>3. Rrc("ContextRemove", ue.at) \in RrcMsgs /\ Carries("now", Rrc("ContextRemove", ue.at))
        BY <3>2, Spoken DEF RrcNames
      <3>4. Raised(Rrc("ContextRemove", ue.at))
        BY <3>1, <3>3, <2>2
      <3>5. \E p \in Places : Due("Release", p)
        BY <2>2 DEF Due
      <3> QED
        BY <3>1, <3>4, <3>5, <2>1, <2>3 DEF Leaves
    <2>4. CASE ue.state \notin Connected
      <3>1. rrc' = Taken("now") /\ UNCHANGED ue
        BY <1>1, <2>4 DEF RecvRrcConnectionRelease, Connected
      <3> QED
        BY <3>1, <2>1, <2>2, <2>4 DEF Dropping
    <2> QED
      BY <2>3, <2>4
  <1>2. ASSUME RecvContextRemove PROVE \E m \in RrcMsgs : Dropping(m) \/ Removed(m)
    <2> DEFINE m == Head(rrc["now"])
    <2>1. /\ NextRrc("now", "ContextRemove") /\ UNCHANGED <<ue, lastRnti>> /\ "now" \in Channels
          /\ rrc' = Taken("now")
          /\ IF HasUeManager(m.at) THEN ContextRemoved(m.at) ELSE UNCHANGED <<ctx, x2>>
      BY <1>2 DEF RecvContextRemove, Channels, ueVars
    <2>2. /\ Heard(m) /\ m \in RrcMsgs /\ m.msg = "ContextRemove" /\ m.at \in Places /\ rrc["now"] = <<m>>
          /\ Quietly
      BY <2>1, Hears
    <2> HIDE DEF m
    <2>3. CASE HasUeManager(m.at)
      <3>1. /\ RemoveUe(m.at)
            /\ IF ctx[m.at].state = "HANDOVER_JOINING" THEN Refusal(m.at) ELSE UNCHANGED x2
        BY <2>1, <2>3 DEF ContextRemoved, Refusal
      <3>2. Gone(m.at)
        BY <3>1, <2>2, Goes
      <3> QED
        BY <3>1, <3>2, <2>1, <2>2 DEF Removed
    <2>4. CASE ~HasUeManager(m.at)
      <3>1. ctx[m.at].state = "NONE"
        BY <2>2, <2>4 DEF HasUeManager
      <3> QED
        BY <3>1, <2>1, <2>2, <2>4 DEF Dropping
    <2> QED
      BY <2>3, <2>4
  <1>3. ASSUME NEW ch \in {"down", "up"}, LoseInTheAir(ch) PROVE \E m \in RrcMsgs : Dropping(m)
    <2> DEFINE m == Head(rrc[ch])
    <2>1. /\ Settled /\ rrc[ch] # <<>> /\ rrc' = Taken(ch) /\ UNCHANGED <<ue, ctx, lastRnti, x2>>
          /\ ch \in Channels
      BY <1>3 DEF LoseInTheAir, ueVars, Channels
    <2>2. /\ m \in Msgs(rrc) /\ Msgs(Taken(ch)) \subseteq Msgs(rrc) /\ Taken(ch)["now"] = <<>>
      BY <2>1, Received DEF TypeInv, OneEvent, Settled
    <2>3. Calm /\ Quietly /\ Heard(m) /\ m \in RrcMsgs
      BY <2>1, <2>2 DEF Calm, Settled, Quietly, Heard, Msgs
    <2> HIDE DEF m
    <2> QED
      BY <2>1, <2>3 DEF Dropping
  <1> QED
    BY <1>1, <1>2, <1>3

(* A handover is requested.                                                *)
LEMMA PrepareEffects ==
    ASSUME TypeInv, NEW p \in Places, NEW c \in Cells, PrepareHandover(p, c)
    PROVE  Prepares(p, c)
  <1>1. /\ Settled /\ c # p.cell /\ ctx[p].state = "CONNECTED_NORMALLY"
        /\ ctx' = [ctx EXCEPT ![p].state = "HANDOVER_PREPARATION", ![p].target = [cell |-> c, rnti |-> 0]]
        /\ x2' = SendX2(p.cell, c, X2("HandoverRequest", p.rnti, 0, ctx[p].teid))
        /\ UNCHANGED <<ue, lastRnti, rrc>>
    BY DEF PrepareHandover, ueVars
  <1>2. ctx \in [Places -> Contexts] /\ [cell |-> c, rnti |-> 0] \in Spots
    BY PlaceTypes DEF TypeInv, CellsTyped
  <1>3. Turned(ctx, [ctx EXCEPT ![p].state = "HANDOVER_PREPARATION", ![p].target = [cell |-> c, rnti |-> 0]], p,
               "HANDOVER_PREPARATION", ctx[p].source, [cell |-> c, rnti |-> 0], ctx[p].timers)
    BY <1>2, TargetSet DEF ContextStates
  <1>4. Turned(ctx, ctx', p, "HANDOVER_PREPARATION", ctx[p].source, [cell |-> c, rnti |-> 0], ctx[p].timers)
    BY <1>1, <1>3
  <1> QED
    BY <1>1, <1>4, Speaks DEF Prepares

(* Preparation, at the target and at the source.                           *)
LEMMA PreparationEffects ==
    ASSUME TypeInv, NEW s \in Cells, NEW d \in Cells, <<s, d>> \in Links,
           AdmitHandoverRequest(s, d) \/ RefuseHandoverRequest(s, d) \/ RecvHandoverRequestAck(s, d)
    PROVE  \/ Still \/ (\E p \in Places : Admits(s, d, p)) \/ Refuses(s, d)
           \/ \E p, q \in Places : Commands(s, d, p, q)
  <1> DEFINE m == Head(x2[<<s, d>>])
  <1>t. lastRnti \in [Cells -> Rntis \cup {0}] /\ ctx \in [Places -> Contexts]
    BY DEF TypeInv, CellsTyped
  <1>u. ASSUME NEW reason, Abort(reason) PROVE Still
    BY <1>u DEF Abort, Still, ueVars
  <1>a. ASSUME NEW msg, NextX2(s, d, msg), UNCHANGED ue
        PROVE  /\ Arrived(s, d, msg) /\ Calm /\ Settled /\ (UNCHANGED rrc => Quietly)
               /\ m.old \in Rntis \cup {0} /\ m.new \in Rntis \cup {0} /\ m.teid \in Teids \cup {0}
               /\ (msg = "HandoverRequestAck" => m.new \in Rntis)
    <2>1. <<s, d>>[1] = s /\ <<s, d>>[2] = d
      OBVIOUS
    <2>2. /\ s # d /\ Settled /\ x2[<<s, d>>] # <<>>
          /\ m \in X2Msgs /\ m.msg = msg
          /\ m.old \in Rntis \cup {0} /\ m.new \in Rntis \cup {0} /\ m.teid \in Teids \cup {0}
          /\ (msg = "HandoverRequestAck" => m.new \in Rntis)
      BY <1>a, <2>1, NextX2Types
    <2>3. Calm /\ (UNCHANGED rrc => Quietly)
      BY <2>2, Speaks
    <2> QED
      BY <2>2, <2>3, <1>a DEF Arrived
  <1>1. ASSUME AdmitHandoverRequest(s, d) PROVE Still \/ \E p \in Places : Admits(s, d, p)
    <2> DEFINE p == NextPlace(d)
               src == [cell |-> s, rnti |-> m.old]
               t == m.teid
               x == [NewContext("HANDOVER_JOINING", src) EXCEPT !.teid = t, !.pending = (t # 0)]
    <2>1. NextX2(s, d, "HandoverRequest") /\ ~NoRntiLeft(d)
      BY <1>1 DEF AdmitHandoverRequest
    <2>2. CASE m.teid # 0 /\ x2uTeidInfo[d][m.teid] # 0
      BY <1>1, <2>2, <1>u DEF AdmitHandoverRequest
    <2>3. CASE ~(m.teid # 0 /\ x2uTeidInfo[d][m.teid] # 0)
      <3>1. /\ ctx' = [ctx EXCEPT ![p] = x]
            /\ lastRnti' = [lastRnti EXCEPT ![d] = p.rnti]
            /\ x2' = X2Answered(s, d, X2("HandoverRequestAck", m.old, p.rnti, 0))
            /\ UNCHANGED <<ue, rrc>>
        BY <1>1, <2>3 DEF AdmitHandoverRequest, ueVars
      <3>2. /\ Arrived(s, d, "HandoverRequest") /\ Quietly /\ m.old \in Rntis \cup {0} /\ t \in Teids \cup {0}
        BY <3>1, <2>1, <1>a
      <3>3. src \in Spots
        BY <3>2 DEF Spots
      <3>4. p \in Places /\ p.cell = d /\ p.rnti = lastRnti[d] + 1
        BY <2>1, <1>t, NextPlaceTypes
      <3> HIDE DEF t, p, src
      <3>5. x \in Contexts /\ x.state = "HANDOVER_JOINING" /\ x.source = src
        BY <3>2, <3>3, JoiningContext
      <3>6. x.target = Nowhere /\ x.timers = {"joining"}
        BY DEF NewContext, NoContext, InitialTimer
      <3> HIDE DEF x
      <3>7. Turned(ctx, [ctx EXCEPT ![p] = x], p, x.state, x.source, x.target, x.timers)
        BY <3>4, <3>5, <1>t, Replaced
      <3>8. Turned(ctx, ctx', p, "HANDOVER_JOINING", src, Nowhere, {"joining"})
        BY <3>1, <3>5, <3>6, <3>7
      <3>9. Fresh(p)
        BY <3>1, <3>4 DEF Fresh
      <3>10. /\ Turned(ctx, ctx', p, "HANDOVER_JOINING", [cell |-> s, rnti |-> From(s, d)], Nowhere, {"joining"})
             /\ x2' = X2Answered(s, d, X2("HandoverRequestAck", From(s, d), p.rnti, 0))
        BY <3>1, <3>8 DEF src, From
      <3> HIDE DEF m
      <3> QED
        BY <3>2, <3>4, <3>9, <3>10 DEF Admits
    <2> QED
      BY <2>2, <2>3
  <1>2. ASSUME RefuseHandoverRequest(s, d) PROVE Refuses(s, d)
    <2>1. /\ NextX2(s, d, "HandoverRequest")
          /\ \/ UNCHANGED lastRnti
             \/ ~NoRntiLeft(d) /\ lastRnti' = [lastRnti EXCEPT ![d] = @ + 1]
          /\ x2' = X2Answered(s, d, X2("PreparationFailure", From(s, d), 0, 0))
          /\ UNCHANGED <<ue, ctx, rrc>>
      BY <1>2 DEF RefuseHandoverRequest, ueVars, From
    <2>2. Arrived(s, d, "HandoverRequest") /\ Quietly
      BY <2>1, <1>a
    <2>3. UNCHANGED lastRnti \/ Fresh(NextPlace(d))
      <3> SUFFICES ASSUME ~NoRntiLeft(d), lastRnti' = [lastRnti EXCEPT ![d] = @ + 1] PROVE Fresh(NextPlace(d))
        BY <2>1
      <3>1. NextPlace(d) \in Places /\ NextPlace(d).cell = d /\ NextPlace(d).rnti = lastRnti[d] + 1
        BY <1>t, NextPlaceTypes
      <3> QED
        BY <3>1 DEF Fresh
    <2> QED
      BY <2>1, <2>2, <2>3 DEF Refuses
  <1>3. ASSUME RecvHandoverRequestAck(s, d) PROVE Still \/ \E p, q \in Places : Commands(s, d, p, q)
    <2> DEFINE p == [cell |-> d, rnti |-> m.old]
               q == [cell |-> s, rnti |-> m.new]
    <2>1. NextX2(s, d, "HandoverRequestAck")
      BY <1>3 DEF RecvHandoverRequestAck
    <2>2. CASE ~HasUeManager(p)
      BY <1>3, <2>2, <1>u DEF RecvHandoverRequestAck
    <2>3. CASE HasUeManager(p)
      <3>1. /\ ctx' = [ctx EXCEPT ![p].state = "HANDOVER_LEAVING", ![p].target = q,
                                  ![p].timers = @ \cup {"leaving"}]
            /\ rrc' = Put(rrc, Via("down"), HandoverCommand(p, q))
            /\ x2' = X2Taken(s, d) /\ UNCHANGED <<ue, lastRnti>>
        BY <1>3, <2>3 DEF RecvHandoverRequestAck, ueVars
      <3>2. Arrived(s, d, "HandoverRequestAck") /\ Settled /\ m.new \in Rntis
        BY <3>1, <2>1, <1>a
      <3>3. /\ p \in Places /\ ctx[p].state # "NONE" /\ p.cell = d /\ p.rnti = From(s, d)
            /\ q \in Places /\ q \in Spots /\ q.cell = s /\ q.rnti = Head(x2[<<s, d>>]).new
        BY <2>3, <3>2, PlaceTypes DEF HasUeManager, Places, From
      <3> HIDE DEF p, q, m
      <3>4. Turned(ctx, [ctx EXCEPT ![p].state = "HANDOVER_LEAVING", ![p].target = q, ![p].timers = @ \cup {"leaving"}],
                   p, "HANDOVER_LEAVING", ctx[p].source, q, ctx[p].timers \cup {"leaving"})
        BY <3>3, <1>t, TargetSet DEF ContextStates
      <3>5. Turned(ctx, ctx', p, "HANDOVER_LEAVING", ctx[p].source, q, ctx[p].timers \cup {"leaving"})
        BY <3>1, <3>4
      <3>6. HandoverCommand(p, q) \in RrcMsgs /\ Carries(Via("down"), HandoverCommand(p, q))
        BY <3>3, Spoken
      <3>7. Said(HandoverCommand(p, q))
        BY <3>1, <3>2, <3>6, Speaks
      <3> QED
        BY <3>1, <3>2, <3>3, <3>5, <3>7 DEF Commands
    <2> QED
      BY <2>2, <2>3
  <1> QED
    BY <1>1, <1>2, <1>3

(* A context that is released together with the UE.                        *)
LEMMA ReleaseEffects ==
    ASSUME TypeInv, Settled, NEW p \in Places, RrcConnectionReleased(p)
    PROVE  Gone(p) /\ Raised(Rrc("Release", p))
  <1>1. rrc' = Put(rrc, "now", Rrc("Release", p)) /\ RemoveUe(p)
    BY DEF RrcConnectionReleased
  <1>2. Rrc("Release", p) \in RrcMsgs /\ Carries("now", Rrc("Release", p))
    BY Spoken DEF RrcNames
  <1> QED
    BY <1>1, <1>2, Speaks, Goes

(* The end of a handover.                                                  *)
LEMMA EndingEffects ==
    ASSUME TypeInv, NEW s \in Cells, NEW d \in Cells, <<s, d>> \in Links,
           RecvHandoverPreparationFailure(s, d) \/ RecvUeContextRelease(s, d) \/ RecvHandoverCancel(s, d)
    PROVE  Still \/ (\E p \in Spots : Fails(s, d, p) \/ Ends(s, d, p)) \/ Cancels(s, d)
  <1> DEFINE m == Head(x2[<<s, d>>])
  <1>t. ctx \in [Places -> Contexts]
    BY DEF TypeInv, CellsTyped
  <1>u. ASSUME NEW reason, Abort(reason) PROVE Still
    BY <1>u DEF Abort, Still, ueVars
  <1>a. ASSUME NEW msg, NextX2(s, d, msg)
        PROVE  /\ UNCHANGED ue => Arrived(s, d, msg)
               /\ Calm /\ Settled /\ (UNCHANGED rrc => Quietly)
               /\ m.old \in Rntis \cup {0} /\ m.new \in Rntis \cup {0}
    <2>1. <<s, d>>[1] = s /\ <<s, d>>[2] = d
      OBVIOUS
    <2>2. /\ s # d /\ Settled /\ x2[<<s, d>>] # <<>>
          /\ m \in X2Msgs /\ m.msg = msg /\ m.old \in Rntis \cup {0} /\ m.new \in Rntis \cup {0}
      BY <1>a, <2>1, NextX2Types
    <2>3. Calm /\ (UNCHANGED rrc => Quietly)
      BY <2>2, Speaks
    <2> QED
      BY <2>2, <2>3, <1>a DEF Arrived
  <1>1. ASSUME RecvHandoverPreparationFailure(s, d) PROVE Still \/ \E p \in Spots : Fails(s, d, p)
    <2> DEFINE p == [cell |-> d, rnti |-> m.old]
               state == IF HasUeManager(p) THEN ctx[p].state ELSE "NONE"
    <2>1. NextX2(s, d, "PreparationFailure")
      BY <1>1 DEF RecvHandoverPreparationFailure
    <2>2. p \in Spots /\ p.cell = d /\ p.rnti = From(s, d) /\ Settled
      BY <2>1, <1>a DEF Spots, From
    <2>3. CASE state = "NONE"
      <3>1. x2' = X2Taken(s, d) /\ UNCHANGED <<ue, ctx, lastRnti, rrc>>
        BY <1>1, <2>3 DEF RecvHandoverPreparationFailure, ueVars
      <3>2. p \in Places => ctx[p].state = "NONE"
        BY <2>3 DEF HasUeManager
      <3>3. Arrived(s, d, "PreparationFailure") /\ Quietly
        BY <3>1, <2>1, <1>a
      <3> HIDE DEF p, state
      <3> QED
        BY <3>1, <3>2, <3>3, <2>2 DEF Fails
    <2>4. CASE state = "HANDOVER_PREPARATION" /\ ctx[p].target.cell = s
      <3>1. /\ x2' = X2Taken(s, d) /\ ctx' = [ctx EXCEPT ![p] = ConnectedNormally(@)]
            /\ rrc' = Reconfigured(rrc, p) /\ UNCHANGED <<ue, lastRnti>>
        BY <1>1, <2>4 DEF RecvHandoverPreparationFailure, ueVars
      <3>2. p \in Places /\ ctx[p].state = "HANDOVER_PREPARATION"
        BY <2>4 DEF HasUeManager
      <3>3. Arrived(s, d, "PreparationFailure")
        BY <3>1, <2>1, <1>a
      <3> HIDE DEF p, state
      <3>4. Quietly \/ Said(Rrc("Reconfiguration", p))
        BY <3>1, <3>2, <2>2, SaysReconfiguration
      <3>5. Continues(p, {"HANDOVER_PREPARATION"})
        BY <3>1, <3>2, <3>4, Resumes DEF Continues
      <3> QED
        BY <3>1, <3>3, <3>5, <2>2, <2>4 DEF Fails
    <2>5. CASE state = "HANDOVER_LEAVING" /\ ctx[p].target.cell = s
      <3>1. /\ x2' = X2Taken(s, d) /\ RrcConnectionReleased(p) /\ UNCHANGED <<ue, lastRnti>>
        BY <1>1, <2>5 DEF RecvHandoverPreparationFailure, ueVars
      <3>2. p \in Places /\ ctx[p].state = "HANDOVER_LEAVING"
        BY <2>5 DEF HasUeManager
      <3>3. Arrived(s, d, "PreparationFailure")
        BY <3>1, <2>1, <1>a
      <3> HIDE DEF p, state
      <3>4. Gone(p) /\ Raised(Rrc("Release", p))
        BY <3>1, <3>2, <2>2, ReleaseEffects
      <3> QED
        BY <3>1, <3>2, <3>3, <3>4, <2>2 DEF Fails
    <2>6. CASE /\ state # "NONE" /\ ~(state = "HANDOVER_PREPARATION" /\ ctx[p].target.cell = s)
               /\ ~(state = "HANDOVER_LEAVING" /\ ctx[p].target.cell = s)
      BY <1>1, <2>6, <1>u DEF RecvHandoverPreparationFailure
    <2> QED
      BY <2>3, <2>4, <2>5, <2>6
  <1>2. ASSUME RecvUeContextRelease(s, d) PROVE Still \/ \E p \in Spots : Ends(s, d, p)
    <2> DEFINE p == [cell |-> d, rnti |-> m.old]
    <2>1. NextX2(s, d, "UeContextRelease")
      BY <1>2 DEF RecvUeContextRelease
    <2>2. p \in Spots /\ p.cell = d /\ p.rnti = From(s, d)
      BY <2>1, <1>a DEF Spots, From
    <2>3. CASE HasUeManager(p) /\ ctx[p].state # "HANDOVER_LEAVING"
      BY <1>2, <2>3, <1>u DEF RecvUeContextRelease
    <2>4. CASE ~(HasUeManager(p) /\ ctx[p].state # "HANDOVER_LEAVING")
      <3>1. /\ x2' = X2Taken(s, d) /\ UNCHANGED <<ue, lastRnti, rrc>>
            /\ (HasUeManager(p) /\ RemoveUe(p)) \/ (~HasUeManager(p) /\ UNCHANGED ctx)
        BY <1>2, <2>4 DEF RecvUeContextRelease, ueVars
      <3>2. Arrived(s, d, "UeContextRelease") /\ Quietly
        BY <3>1, <2>1, <1>a
      <3> HIDE DEF p
      <3>3. \/ (p \in Places => ctx[p].state = "NONE") /\ UNCHANGED ctx
            \/ ctx[p].state = "HANDOVER_LEAVING" /\ Gone(p)
        BY <3>1, <2>4, Goes DEF HasUeManager
      <3> QED
        BY <3>1, <3>2, <3>3, <2>2 DEF Ends
    <2> QED
      BY <2>3, <2>4
  <1>3. ASSUME RecvHandoverCancel(s, d) PROVE Still \/ Cancels(s, d)
    <2> DEFINE p == [cell |-> d, rnti |-> m.new]
    <2>1. NextX2(s, d, "HandoverCancel")
      BY <1>3 DEF RecvHandoverCancel
    <2>3. CASE HasUeManager(p) /\ ctx[p].state # "HANDOVER_JOINING"
      BY <1>3, <2>3, <1>u DEF RecvHandoverCancel
    <2>4. CASE ~(HasUeManager(p) /\ ctx[p].state # "HANDOVER_JOINING")
      <3>1. /\ x2' = X2Taken(s, d) /\ UNCHANGED <<ue, lastRnti, rrc>>
            /\ (HasUeManager(p) /\ ctx' = [ctx EXCEPT ![p].timers = @ \ {"joining"}]) \/ UNCHANGED ctx
        BY <1>3, <2>4 DEF RecvHandoverCancel, ueVars
      <3>2. Arrived(s, d, "HandoverCancel") /\ Quietly
        BY <3>1, <2>1, <1>a
      <3> HIDE DEF p
      <3>3. ASSUME HasUeManager(p), ctx' = [ctx EXCEPT ![p].timers = @ \ {"joining"}]
            PROVE  p \in Places /\ Enters(p, {"HANDOVER_JOINING"}, "HANDOVER_JOINING", ctx[p].timers \ {"joining"})
        <4>1. p \in Places /\ ctx[p].state = "HANDOVER_JOINING"
          BY <3>3, <2>4 DEF HasUeManager
        <4>2. Turned(ctx, [ctx EXCEPT ![p].timers = @ \ {"joining"}], p,
                     ctx[p].state, ctx[p].source, ctx[p].target, ctx[p].timers \ {"joining"})
          BY <4>1, <1>t, StateKept
        <4> QED
          BY <4>1, <4>2, <3>3 DEF Enters
      <3> HIDE DEF m
      <3> QED
        BY <3>1, <3>2, <3>3 DEF Cancels
    <2> QED
      BY <2>3, <2>4
  <1> QED
    BY <1>1, <1>2, <1>3

(* The timers.                                                             *)
LEMMA TimerEffects ==
    ASSUME TypeInv, NEW p \in Places, TimerStep(p)
    PROVE  Still \/ Times(p) \/ TimesJoining(p) \/ TimesLeaving(p)
  <1>u. ASSUME NEW reason, Abort(reason) PROVE Still
    BY <1>u DEF Abort, Still, ueVars
  <1>1. ASSUME NEW timer \in {"request", "setup", "rejected"}, ConnectionTimersExpire(p, timer)
        PROVE  Still \/ Times(p)
    <2>1. CASE ctx[p].state # TimerState[timer]
      BY <1>1, <2>1, <1>u DEF ConnectionTimersExpire
    <2>2. CASE ctx[p].state = TimerState[timer]
      <3>1. /\ Settled /\ RemoveUe(p) /\ UNCHANGED <<ue, lastRnti, x2, rrc>> /\ mishaps' = mishaps \cup {timer}
        BY <1>1, <2>2 DEF ConnectionTimersExpire, ueVars
      <3>2. /\ ctx[p].state \in {"INITIAL_RANDOM_ACCESS", "CONNECTION_SETUP", "CONNECTION_REJECTED"}
            /\ ctx[p].state = "CONNECTION_SETUP" => timer = "setup"
        BY <2>2 DEF TimerState
      <3>3. Calm /\ Quietly /\ Gone(p)
        BY <3>1, Speaks, Goes
      <3> QED
        BY <3>1, <3>2, <3>3 DEF Times
    <2> QED
      BY <2>1, <2>2
  <1>2. ASSUME HandoverJoiningTimeout(p) PROVE Still \/ TimesJoining(p)
    <2>1. CASE ctx[p].state # TimerState["joining"]
      BY <1>2, <2>1, <1>u DEF HandoverJoiningTimeout
    <2>2. CASE ctx[p].state = TimerState["joining"]
      <3>1. /\ Settled /\ RemoveUe(p) /\ UNCHANGED <<ue, lastRnti, rrc>> /\ Refusal(p)
        BY <1>2, <2>2 DEF HandoverJoiningTimeout, ueVars, Refusal
      <3>2. ctx[p].state = "HANDOVER_JOINING"
        BY <2>2 DEF TimerState
      <3>3. Calm /\ Quietly /\ Gone(p)
        BY <3>1, Speaks, Goes
      <3> QED
        BY <3>1, <3>2, <3>3 DEF TimesJoining
    <2> QED
      BY <2>1, <2>2
  <1>3. ASSUME HandoverLeavingTimeout(p) PROVE Still \/ TimesLeaving(p)
    <2>1. CASE ctx[p].state # TimerState["leaving"]
      BY <1>3, <2>1, <1>u DEF HandoverLeavingTimeout
    <2>2. CASE ctx[p].state = TimerState["leaving"]
      <3>1. /\ Settled /\ RrcConnectionReleased(p) /\ UNCHANGED <<ue, lastRnti>>
            /\ x2' = SendX2(p.cell, ctx[p].target.cell, X2("HandoverCancel", p.rnti, ctx[p].target.rnti, 0))
        BY <1>3, <2>2 DEF HandoverLeavingTimeout, ueVars
      <3>2. ctx[p].state = "HANDOVER_LEAVING"
        BY <2>2 DEF TimerState
      <3>3. Calm /\ Gone(p) /\ Raised(Rrc("Release", p))
        BY <3>1, Speaks, ReleaseEffects
      <3> QED
        BY <3>1, <3>2, <3>3 DEF TimesLeaving
    <2> QED
      BY <2>1, <2>2
  <1> QED
    BY <1>1, <1>2, <1>3 DEF TimerStep

(* The core network.                                                       *)
LEMMA CoreEffects ==
    ASSUME TypeInv, CoreStep
    PROVE  Still \/ \E p \in Places : SetsUp(p) \/ Switches(p)
  <1> DEFINE p == [cell |-> mmeCell, rnti |-> app[mmeCell].imsiRnti]
  <1>c. ctx \in [Places -> Contexts] /\ reply \in Seq(Responses)
    BY DEF TypeInv, CellsTyped, CoreTyped
  <1>u. ASSUME NEW reason, Abort(reason) PROVE Still
    BY <1>u DEF Abort, Still, ueVars
  <1>1. ASSUME MmeRecvCreateSessionResponse PROVE Still \/ \E q \in Places : SetsUp(q)
    <2> DEFINE teid == Head(reply).teid
               good == HasUeManager(p) /\ ctx[p].teid = 0 /\ ctx[p].state = "ATTACH_REQUEST"
    <2>1. CASE ~good
      BY <1>1, <2>1, <1>u DEF MmeRecvCreateSessionResponse
    <2>2. CASE good
      <3>1. /\ Settled /\ reply # <<>>
            /\ ctx' = [ctx EXCEPT ![p].state = "CONNECTION_RECONFIGURATION", ![p].teid = teid]
            /\ rrc' = Put(rrc, Via("down"), Rrc("Reconfiguration", p))
            /\ UNCHANGED <<ue, lastRnti, x2>>
        BY <1>1, <2>2 DEF MmeRecvCreateSessionResponse, ueVars
      <3>2. p \in Places /\ ctx[p].state = "ATTACH_REQUEST"
        BY <2>2 DEF HasUeManager
      <3>3. teid \in Teids \cup {0}
        BY <3>1, <1>c DEF Responses, CoreMsgs
      <3> HIDE DEF p, teid
      <3>4. Turned(ctx, [ctx EXCEPT ![p].state = "CONNECTION_RECONFIGURATION", ![p].teid = teid], p,
                   "CONNECTION_RECONFIGURATION", ctx[p].source, ctx[p].target, ctx[p].timers)
        BY <3>2, <3>3, <1>c, TeidSet DEF ContextStates
      <3>5. Enters(p, {"ATTACH_REQUEST"}, "CONNECTION_RECONFIGURATION", ctx[p].timers)
        BY <3>1, <3>2, <3>4 DEF Enters
      <3>6. Rrc("Reconfiguration", p) \in RrcMsgs /\ Carries(Via("down"), Rrc("Reconfiguration", p))
        BY <3>2, Spoken DEF RrcNames
      <3>7. Calm /\ Said(Rrc("Reconfiguration", p))
        BY <3>1, <3>6, Speaks
      <3> QED
        BY <3>1, <3>2, <3>5, <3>7 DEF SetsUp, Continues
    <2> QED
      BY <2>1, <2>2
  <1>2. ASSUME MmeRecvModifyBearerResponse PROVE Still \/ \E q \in Places : Switches(q)
    <2> DEFINE good == HasUeManager(p) /\ ctx[p].state = "HANDOVER_PATH_SWITCH"
    <2>1. CASE ~good
      BY <1>2, <2>1, <1>u DEF MmeRecvModifyBearerResponse
    <2>2. CASE good
      <3>1. /\ Settled
            /\ x2' = SendX2(p.cell, ctx[p].source.cell, X2("UeContextRelease", ctx[p].source.rnti, p.rnti, 0))
            /\ ctx' = [ctx EXCEPT ![p] = ConnectedNormally(@)]
            /\ rrc' = Reconfigured(rrc, p)
            /\ UNCHANGED <<ue, lastRnti>>
        BY <1>2, <2>2 DEF MmeRecvModifyBearerResponse, ueVars
      <3>2. p \in Places /\ ctx[p].state = "HANDOVER_PATH_SWITCH"
        BY <2>2 DEF HasUeManager
      <3> HIDE DEF p
      <3>4. Quietly \/ Said(Rrc("Reconfiguration", p))
        BY <3>1, <3>2, SaysReconfiguration
      <3>5. Continues(p, {"HANDOVER_PATH_SWITCH"})
        BY <3>1, <3>2, <3>4, Resumes DEF Continues
      <3> QED
        BY <3>1, <3>2, <3>5, Speaks DEF Switches
    <2> QED
      BY <2>1, <2>2
  <1>3. ASSUME SgwRecvFromMme \/ PgwRecvFromSgw \/ MmeRecvDeleteBearerRequest PROVE Still
    BY <1>3 DEF SgwRecvFromMme, PgwRecvFromSgw, MmeRecvDeleteBearerRequest, Still, ueVars
  <1> QED
    BY <1>1, <1>2, <1>3 DEF CoreStep

(* Downlink data.                                                          *)
LEMMA SendDataEffects ==
    ASSUME TypeInv, Settled, NEW p, NEW x \in [Links -> Seq(X2Msgs)], NEW k, SendData(p, x, k),
           x = x2 \/ \E s, d \in Cells : Arrived(s, d, "UeData") /\ x = X2Taken(s, d)
    PROVE  Still \/ Forwards
  <1>u. ASSUME NEW reason, Abort(reason) PROVE Still
    BY <1>u DEF Abort, Still, ueVars
  <1>1. CASE ~HasUeManager(p) \/ ctx[p].state \in {"ATTACH_REQUEST", "CONNECTION_REJECTED"}
    BY <1>1, <1>u DEF SendData
  <1>2. CASE HasUeManager(p) /\ ctx[p].state \notin {"ATTACH_REQUEST", "CONNECTION_REJECTED"}
    <2> DEFINE t == ctx[p].teid
               l == <<p.cell, ctx[p].target.cell>>
    <2>1. /\ (ctx[p].state = "HANDOVER_JOINING" /\ ctx' = [ctx EXCEPT ![p].buffer = @ + 1]) \/ UNCHANGED ctx
          /\ x2' = [x EXCEPT ![l] = Append(@, X2("UeData", 0, 0, t))] \/ x2' = x
          /\ UNCHANGED <<ue, lastRnti, rrc>>
      BY <1>2 DEF SendData, ueVars
    <2>2. p \in Places /\ ctx \in [Places -> Contexts] /\ t \in Teids \cup {0}
      BY <1>2 DEF HasUeManager, TypeInv, CellsTyped, Contexts
    <2>3. UNCHANGED ctx \/ Enters(p, {"HANDOVER_JOINING"}, "HANDOVER_JOINING", ctx[p].timers)
      <3> SUFFICES ASSUME ctx[p].state = "HANDOVER_JOINING", ctx' = [ctx EXCEPT ![p].buffer = @ + 1]
                   PROVE  Enters(p, {"HANDOVER_JOINING"}, "HANDOVER_JOINING", ctx[p].timers)
        BY <2>1
      <3>1. Turned(ctx, [ctx EXCEPT ![p].buffer = @ + 1], p, ctx[p].state, ctx[p].source, ctx[p].target, ctx[p].timers)
        BY <2>2, StateKept
      <3> QED
        BY <3>1, <2>2 DEF Enters
    <2> HIDE DEF l, t
    <2>4. x2' = x \/ \E h \in Links, y \in Teids \cup {0} : x2' = [x EXCEPT ![h] = Append(@, X2("UeData", 0, 0, y))]
      <3>1. CASE l \in Links
        BY <3>1, <2>1, <2>2
      <3>2. CASE l \notin Links
        <4>1. [x EXCEPT ![l] = Append(@, X2("UeData", 0, 0, t))] = x
          BY <3>2
        <4> QED
          BY <4>1, <2>1
      <3> QED
        BY <3>1, <3>2
    <2>5. Calm /\ Quietly
      BY <2>1, Speaks
    <2> QED
      BY <2>1, <2>2, <2>3, <2>4, <2>5 DEF Forwards
  <1> QED
    BY <1>1, <1>2

(* Data that arrives by S1-U, or by X2-U.                                  *)
LEMMA DataEffects ==
    ASSUME TypeInv,
           SendDownlink \/ RecvFromS1u \/ \E s, d \in Cells : <<s, d>> \in Links /\ RecvUeData(s, d)
    PROVE  Still \/ Forwards
  <1>u. ASSUME NEW reason, Abort(reason) PROVE Still
    BY <1>u DEF Abort, Still, ueVars
  <1>x. x2 \in [Links -> Seq(X2Msgs)]
    BY DEF TypeInv, LinksTyped
  <1>1. ASSUME SendDownlink PROVE Still
    BY <1>1 DEF SendDownlink, Still, ueVars
  <1>2. ASSUME RecvFromS1u PROVE Still \/ Forwards
    <2> DEFINE rnti == app[packet.hop].teidRnti[packet.teid]
    <2>1. CASE rnti = 0
      BY <1>2, <2>1 DEF RecvFromS1u, Still, ueVars
    <2>2. CASE rnti # 0
      <3>1. Settled /\ SendData([cell |-> packet.hop, rnti |-> rnti], x2, NoPacket)
        BY <1>2, <2>2 DEF RecvFromS1u
      <3> QED
        BY <3>1, <1>x, SendDataEffects
    <2> QED
      BY <2>1, <2>2
  <1>3. ASSUME NEW s \in Cells, NEW d \in Cells, <<s, d>> \in Links, RecvUeData(s, d) PROVE Still \/ Forwards
    <2> DEFINE rnti == x2uTeidInfo[d][Head(x2[<<s, d>>]).teid]
    <2>1. NextX2(s, d, "UeData")
      BY <1>3 DEF RecvUeData
    <2>2. <<s, d>>[1] = s /\ <<s, d>>[2] = d
      OBVIOUS
    <2>3. /\ X2Taken(s, d) \in [Links -> Seq(X2Msgs)] /\ s # d /\ Settled /\ x2[<<s, d>>] # <<>>
          /\ Head(x2[<<s, d>>]) \in X2Msgs /\ Head(x2[<<s, d>>]).msg = "UeData"
      BY <2>1, <2>2, <1>3, NextX2Types
    <2>4. CASE rnti = 0
      BY <1>3, <2>4, <1>u DEF RecvUeData
    <2>5. CASE rnti # 0
      <3>1. SendData([cell |-> d, rnti |-> rnti], X2Taken(s, d), packet)
        BY <1>3, <2>5 DEF RecvUeData
      <3>2. CASE UNCHANGED ue
        <4>1. Arrived(s, d, "UeData")
          BY <2>3, <3>2, Speaks DEF Arrived
        <4> QED
          BY <3>1, <2>3, <4>1, SendDataEffects
      <3>3. UNCHANGED ue
        BY <3>1 DEF SendData, Abort, ueVars
      <3> QED
        BY <3>2, <3>3
    <2> QED
      BY <2>4, <2>5
  <1> QED
    BY <1>1, <1>2, <1>3

(* What has gone wrong once is not forgotten.                              *)
LEMMA MishapsStay == [Next]_vars => mishaps \subseteq mishaps'
  <1> SUFFICES ASSUME [Next]_vars PROVE mishaps \subseteq mishaps'
    OBVIOUS
  <1>a. ASSUME NEW reason, Abort(reason) PROVE UNCHANGED mishaps
    BY <1>a DEF Abort
  <1>d. ASSUME NEW p, NEW x, NEW k, SendData(p, x, k) PROVE UNCHANGED mishaps
    BY <1>d, <1>a DEF SendData
  <1>k. ASSUME NEW ch, UnknownRnti(ch) PROVE UNCHANGED mishaps
    BY <1>k, <1>a DEF UnknownRnti
  <1>1. CASE UNCHANGED vars \/ Ended
    BY <1>1 DEF vars, Ended
  <1>2. CASE UeStep
    BY <1>2 DEF UeStep, SelectCell, RandomAccess, HandoverRandomAccess, HandoverRandomAccessFailed,
       RadioLinkFailure, ConnectionTimeout
  <1>3. CASE RrcStep
    <2>1. ASSUME NEW ch, \/ RecvRrcConnectionSetup(ch) \/ RecvRrcConnectionReject(ch)
                         \/ RecvHandoverCommand(ch) \/ RecvReconfiguration(ch) \/ LoseInTheAir(ch)
          PROVE  UNCHANGED mishaps
      BY <2>1, <1>a DEF RecvRrcConnectionSetup, RecvRrcConnectionReject, RecvHandoverCommand,
         RecvReconfiguration, LoseInTheAir
    <2>2. ASSUME NEW ch, NEW admit, RecvRrcConnectionRequest(ch, admit) PROVE UNCHANGED mishaps
      BY <2>2, <1>a, <1>k DEF RecvRrcConnectionRequest
    <2>3. ASSUME NEW ch, RecvRrcConnectionSetupCompleted(ch) PROVE UNCHANGED mishaps
      BY <2>3, <1>a, <1>k DEF RecvRrcConnectionSetupCompleted
    <2>4. ASSUME NEW ch, RecvReconfigurationCompleted(ch) PROVE UNCHANGED mishaps
      BY <2>4, <1>a, <1>k DEF RecvReconfigurationCompleted, PathSwitchRequest
    <2>5. RecvRrcConnectionRelease \/ RecvContextRemove => UNCHANGED mishaps
      BY DEF RecvRrcConnectionRelease, RecvContextRemove
    <2> QED
      BY <1>3, <2>1, <2>2, <2>3, <2>4, <2>5 DEF RrcStep
  <1>4. ASSUME NEW p, NEW c, PrepareHandover(p, c) PROVE UNCHANGED mishaps
    BY <1>4 DEF PrepareHandover
  <1>5. ASSUME NEW s, NEW d, X2Step(s, d) PROVE UNCHANGED mishaps
    <2>1. CASE AdmitHandoverRequest(s, d)
      BY <2>1, <1>a DEF AdmitHandoverRequest
    <2>2. CASE RefuseHandoverRequest(s, d)
      BY <2>2 DEF RefuseHandoverRequest
    <2>3. CASE RecvHandoverRequestAck(s, d)
      BY <2>3, <1>a DEF RecvHandoverRequestAck
    <2>4. CASE RecvHandoverPreparationFailure(s, d)
      BY <2>4, <1>a DEF RecvHandoverPreparationFailure
    <2>5. CASE RecvUeContextRelease(s, d)
      BY <2>5, <1>a DEF RecvUeContextRelease
    <2>6. CASE RecvHandoverCancel(s, d)
      BY <2>6, <1>a DEF RecvHandoverCancel
    <2>7. CASE RecvUeData(s, d)
      BY <2>7, <1>a, <1>d DEF RecvUeData
    <2> QED
      BY <1>5, <2>1, <2>2, <2>3, <2>4, <2>5, <2>6, <2>7 DEF X2Step
  <1>6. ASSUME NEW p, TimerStep(p) PROVE mishaps \subseteq mishaps'
    BY <1>6, <1>a DEF TimerStep, ConnectionTimersExpire, HandoverJoiningTimeout, HandoverLeavingTimeout
  <1>7. CASE CoreStep
    BY <1>7, <1>a DEF CoreStep, SgwRecvFromMme, PgwRecvFromSgw, MmeRecvCreateSessionResponse,
       MmeRecvModifyBearerResponse, MmeRecvDeleteBearerRequest
  <1>8. CASE SendDownlink \/ RecvFromS1u
    BY <1>8, <1>d DEF SendDownlink, RecvFromS1u
  <1> QED
    BY <1>1, <1>2, <1>3, <1>4, <1>5, <1>6, <1>7, <1>8 DEF Next

(***************************************************************************)
(* Every step has one of these effects.                                    *)
(***************************************************************************)
UeEffect == Still \/ Selecting \/ (\E p \in Places : Accessing(p)) \/ Arriving \/ Leaves
RrcEffect == \E m \in RrcMsgs :
    \/ Connecting(m) \/ Rejected(m) \/ Commanded(m) \/ Replying(m) \/ Dropping(m)
    \/ Admitting(m) \/ Completing(m) \/ Reconfigures(m) \/ Removed(m)
X2Effect == \E s, d \in Cells :
    \/ \E p \in Places : Admits(s, d, p)
    \/ Refuses(s, d)
    \/ \E p, q \in Places : Commands(s, d, p, q)
    \/ \E p \in Spots : Fails(s, d, p) \/ Ends(s, d, p)
    \/ Cancels(s, d)
PlaceEffect == \E p \in Places :
    \/ \E c \in Cells : Prepares(p, c)
    \/ Times(p) \/ TimesJoining(p) \/ TimesLeaving(p) \/ SetsUp(p) \/ Switches(p)

Effects == UeEffect \/ RrcEffect \/ X2Effect \/ PlaceEffect \/ Forwards

(* Every action of the model, its early returns and its aborts included.   *)
LEMMA StepEffects ==
    ASSUME TypeInv, [Next]_vars
    PROVE  Effects /\ mishaps \subseteq mishaps'
  <1>l. ASSUME NEW l \in Links PROVE l[1] \in Cells /\ l[2] \in Cells /\ <<l[1], l[2]>> \in Links
    BY <1>l DEF Links
  <1>1. UeEffect \/ RrcEffect \/ X2Effect \/ PlaceEffect \/ Forwards
    <2>1. CASE UNCHANGED vars \/ Ended
      BY <2>1 DEF vars, ueVars, Ended, UeEffect, Still
    <2>2. CASE UeStep
      BY <2>2, UeEffects DEF UeEffect
    <2>3. CASE RrcStep
      BY <2>3, DownEffects, UpEffects, EventEffects DEF RrcStep, UeEffect, RrcEffect
    <2>4. CASE \E p \in Places, c \in Cells : PrepareHandover(p, c)
      BY <2>4, PrepareEffects DEF PlaceEffect
    <2>5. CASE \E l \in Links : X2Step(l[1], l[2])
      <3>1. PICK l \in Links : X2Step(l[1], l[2])
        BY <2>5
      <3> DEFINE s == l[1]
                 d == l[2]
      <3>2. s \in Cells /\ d \in Cells /\ <<s, d>> \in Links /\ X2Step(s, d)
        BY <3>1, <1>l
      <3> HIDE DEF s, d
      <3>3. CASE AdmitHandoverRequest(s, d) \/ RefuseHandoverRequest(s, d) \/ RecvHandoverRequestAck(s, d)
        BY <3>2, <3>3, PreparationEffects DEF X2Effect, UeEffect
      <3>4. CASE RecvHandoverPreparationFailure(s, d) \/ RecvUeContextRelease(s, d) \/ RecvHandoverCancel(s, d)
        BY <3>2, <3>4, EndingEffects DEF X2Effect, UeEffect
      <3>5. CASE RecvUeData(s, d)
        BY <3>2, <3>5, DataEffects DEF UeEffect
      <3> QED
        BY <3>2, <3>3, <3>4, <3>5 DEF X2Step
    <2>6. CASE \E p \in Places : TimerStep(p)
      BY <2>6, TimerEffects DEF UeEffect, PlaceEffect
    <2>7. CASE CoreStep
      BY <2>7, CoreEffects DEF UeEffect, PlaceEffect
    <2>8. CASE SendDownlink \/ RecvFromS1u
      BY <2>8, DataEffects DEF UeEffect
    <2> QED
      BY <2>1, <2>2, <2>3, <2>4, <2>5, <2>6, <2>7, <2>8 DEF Next
  <1> QED
    BY <1>1, MishapsStay DEF Effects

(***************************************************************************)
(* What an X2 link carries.                                                *)
(***************************************************************************)

Mail(q) == {m \in X2Msgs : \E i \in 1 .. Len(q) : q[i] = m}
Told(q, msg, r) == \E m \in Mail(q) : m.msg = msg /\ m.old = r
Offers(q, r, n) == \E m \in Mail(q) : m.msg = "HandoverRequestAck" /\ m.old = r /\ m.new = n

(* A message is sent.                                                      *)
LEMMA MailGrows ==
    ASSUME NEW q \in Seq(X2Msgs), NEW n \in X2Msgs
    PROVE  Mail(Append(q, n)) = Mail(q) \cup {n}
  <1>1. /\ Len(q) \in Nat /\ Len(Append(q, n)) = Len(q) + 1
        /\ Append(q, n)[Len(q) + 1] = n
        /\ \A j \in 1 .. Len(q) : Append(q, n)[j] = q[j]
    OBVIOUS
  <1>2. ASSUME NEW m \in Mail(Append(q, n)) PROVE m \in Mail(q) \cup {n}
    <2>1. PICK i \in 1 .. Len(Append(q, n)) : Append(q, n)[i] = m
      BY <1>2 DEF Mail
    <2>2. m \in X2Msgs
      BY <1>2 DEF Mail
    <2>3. m = n \/ (i \in 1 .. Len(q) /\ q[i] = m)
      BY <2>1, <1>1
    <2> QED
      BY <2>2, <2>3 DEF Mail
  <1>3. ASSUME NEW m \in Mail(q) PROVE m \in Mail(Append(q, n))
    <2>1. PICK i \in 1 .. Len(q) : q[i] = m
      BY <1>3 DEF Mail
    <2>2. m \in X2Msgs
      BY <1>3 DEF Mail
    <2>3. i \in 1 .. Len(Append(q, n)) /\ Append(q, n)[i] = m
      BY <2>1, <1>1
    <2> QED
      BY <2>2, <2>3 DEF Mail
  <1>4. n \in Mail(Append(q, n))
    <2>1. Len(q) + 1 \in 1 .. Len(Append(q, n))
      BY <1>1
    <2> QED
      BY <2>1, <1>1 DEF Mail
  <1> QED
    BY <1>2, <1>3, <1>4

(* A message is received.                                                  *)
LEMMA MailShrinks ==
    ASSUME NEW q \in Seq(X2Msgs), q # <<>>
    PROVE  Mail(q) = Mail(Tail(q)) \cup {Head(q)}
  <1>1. /\ Len(q) \in Nat \ {0} /\ Head(q) = q[1] /\ Tail(q) \in Seq(X2Msgs) /\ Head(q) \in X2Msgs
        /\ Len(Tail(q)) = Len(q) - 1
        /\ \A i \in 1 .. Len(Tail(q)) : Tail(q)[i] = q[i + 1]
    OBVIOUS
  <1>2. ASSUME NEW m \in Mail(q) PROVE m \in Mail(Tail(q)) \cup {Head(q)}
    <2>1. PICK i \in 1 .. Len(q) : q[i] = m
      BY <1>2 DEF Mail
    <2>2. m \in X2Msgs
      BY <1>2 DEF Mail
    <2>3. CASE i = 1
      BY <2>1, <2>3, <1>1
    <2>4. CASE i # 1
      <3>1. i - 1 \in 1 .. Len(Tail(q)) /\ (i - 1) + 1 = i
        BY <2>1, <2>4, <1>1
      <3>2. Tail(q)[i - 1] = m
        BY <3>1, <2>1, <1>1
      <3> QED
        BY <3>1, <3>2, <2>2 DEF Mail
    <2> QED
      BY <2>3, <2>4
  <1>3. ASSUME NEW m \in Mail(Tail(q)) PROVE m \in Mail(q)
    <2>1. PICK i \in 1 .. Len(Tail(q)) : Tail(q)[i] = m
      BY <1>3 DEF Mail
    <2>2. m \in X2Msgs
      BY <1>3 DEF Mail
    <2>3. i + 1 \in 1 .. Len(q) /\ q[i + 1] = m
      BY <2>1, <1>1
    <2> QED
      BY <2>2, <2>3 DEF Mail
  <1>4. Head(q) \in Mail(q)
    <2>1. 1 \in 1 .. Len(q)
      BY <1>1
    <2> QED
      BY <2>1, <1>1 DEF Mail
  <1> QED
    BY <1>2, <1>3, <1>4

(* On each link.                                                           *)
LEMMA MailSent ==
    ASSUME NEW x \in [Links -> Seq(X2Msgs)], NEW h, NEW n \in X2Msgs, NEW k \in Links
    PROVE  LET y == [x EXCEPT ![h] = Append(@, n)] IN
           /\ k = h => y[k] = Append(x[k], n) /\ Mail(y[k]) = Mail(x[k]) \cup {n}
           /\ k # h => y[k] = x[k]
  <1>1. x[k] \in Seq(X2Msgs)
    OBVIOUS
  <1>2. Mail(Append(x[k], n)) = Mail(x[k]) \cup {n}
    BY <1>1, MailGrows
  <1> QED
    BY <1>2

(* A message that is taken from a link, and one that answers it.           *)
LEMMA MailTaken ==
    ASSUME x2 \in [Links -> Seq(X2Msgs)], NEW s \in Cells, NEW d \in Cells, s # d, x2[<<s, d>>] # <<>>
    PROVE  /\ X2Taken(s, d) \in [Links -> Seq(X2Msgs)]
           /\ <<s, d>> \in Links /\ <<d, s>> \in Links /\ <<s, d>> # <<d, s>>
           /\ X2Taken(s, d)[<<s, d>>] = Tail(x2[<<s, d>>])
           /\ Mail(x2[<<s, d>>]) = Mail(X2Taken(s, d)[<<s, d>>]) \cup {Head(x2[<<s, d>>])}
           /\ \A k \in Links : k # <<s, d>> => X2Taken(s, d)[k] = x2[k]
           /\ \A k \in Links : Mail(X2Taken(s, d)[k]) \subseteq Mail(x2[k])
           /\ \A n : X2Answered(s, d, n) = [X2Taken(s, d) EXCEPT ![<<d, s>>] = Append(@, n)]
  <1>1. <<s, d>> \in Links /\ <<d, s>> \in Links /\ <<s, d>> # <<d, s>>
    BY DEF Links
  <1>2. x2[<<s, d>>] \in Seq(X2Msgs)
    BY <1>1
  <1>3. Tail(x2[<<s, d>>]) \in Seq(X2Msgs)
    BY <1>2
  <1>4. /\ X2Taken(s, d) \in [Links -> Seq(X2Msgs)]
        /\ X2Taken(s, d)[<<s, d>>] = Tail(x2[<<s, d>>])
        /\ \A k \in Links : k # <<s, d>> => X2Taken(s, d)[k] = x2[k]
    BY <1>1, <1>3 DEF X2Taken
  <1>5. Mail(x2[<<s, d>>]) = Mail(X2Taken(s, d)[<<s, d>>]) \cup {Head(x2[<<s, d>>])}
    BY <1>2, <1>4, MailShrinks
  <1>6. \A k \in Links : Mail(X2Taken(s, d)[k]) \subseteq Mail(x2[k])
    BY <1>4, <1>5
  <1>7. \A n : X2Answered(s, d, n) = [X2Taken(s, d) EXCEPT ![<<d, s>>] = Append(@, n)]
    BY DEF X2Answered
  <1> QED
    BY <1>1, <1>4, <1>5, <1>6, <1>7

(***************************************************************************)
(* What is referred to has been allocated.                                 *)
(***************************************************************************)

KnownAt(c, r) == r \in Rntis /\ r <= lastRnti[c]
Known(p) == p \in Places /\ KnownAt(p.cell, p.rnti)

CtxAllocated == \A p \in Places :
    /\ ctx[p].state # "NONE" => Known(p)
    /\ ctx[p].state \in {"HANDOVER_JOINING", "HANDOVER_PATH_SWITCH"} =>
          Known(ctx[p].source) /\ ctx[p].source.cell # p.cell
    /\ ctx[p].state = "HANDOVER_PREPARATION" => ctx[p].target.cell \in Cells \ {p.cell}
RrcAllocated == \A m \in Msgs(rrc) :
    Known(m.at) /\ (m.msg = "HandoverCommand" => Known(m.target))
UeAllocated == ue.at \in Places => Known(ue.at)
MailAllocated(s, d, m) ==
    /\ m.msg = "HandoverRequest" => KnownAt(s, m.old)
    /\ m.msg \in {"HandoverRequestAck", "PreparationFailure", "UeContextRelease"} => KnownAt(d, m.old)
    /\ m.msg = "HandoverRequestAck" => KnownAt(s, m.new)
X2Allocated == \A s, d \in Cells : s # d => \A m \in Mail(x2[<<s, d>>]) : MailAllocated(s, d, m)
Allocated == CtxAllocated /\ RrcAllocated /\ UeAllocated /\ X2Allocated

\* What is known stays so.
Grows == \A c \in Cells : \A r : KnownAt(c, r) => KnownAt(c, r)'

(* What has been allocated stays so.                                       *)
LEMMA GrowsFacts ==
    ASSUME TypeInv, UNCHANGED lastRnti \/ \E p \in Places : Fresh(p)
    PROVE  Grows /\ \A p : Known(p) => Known(p)'
  <1>1. lastRnti \in [Cells -> Rntis \cup {0}]
    BY DEF TypeInv, CellsTyped
  <1>2. ASSUME NEW c \in Cells PROVE lastRnti[c] \in Nat /\ lastRnti'[c] \in Nat /\ lastRnti[c] <= lastRnti'[c]
    <2>1. lastRnti[c] \in Nat
      BY <1>1, BoundsAssumption DEF Rntis
    <2>2. CASE UNCHANGED lastRnti
      BY <2>1, <2>2
    <2>3. ASSUME NEW p \in Places, Fresh(p) PROVE lastRnti'[c] \in Nat /\ lastRnti[c] <= lastRnti'[c]
      <3>1. lastRnti' = [lastRnti EXCEPT ![p.cell] = p.rnti] /\ p.rnti = lastRnti[p.cell] + 1
        BY <2>3 DEF Fresh
      <3>2. lastRnti'[c] = lastRnti[c] \/ lastRnti'[c] = lastRnti[c] + 1
        BY <3>1, <1>1
      <3> QED
        BY <3>2, <2>1
    <2> QED
      BY <2>1, <2>2, <2>3
  <1>3. ASSUME NEW c \in Cells, NEW r, KnownAt(c, r) PROVE KnownAt(c, r)'
    <2>1. r \in Rntis /\ r \in Nat /\ r <= lastRnti[c]
      BY <1>3, BoundsAssumption DEF KnownAt, Rntis
    <2>2. r <= lastRnti'[c]
      BY <2>1, <1>2
    <2> QED
      BY <2>1, <2>2 DEF KnownAt
  <1> QED
    BY <1>3, PlaceTypes DEF Grows, Known

(* A fresh RNTI was not known and is.                                      *)
LEMMA FreshFacts ==
    ASSUME TypeInv, NEW p, Fresh(p)
    PROVE  p \in Places /\ p.cell \in Cells /\ p.rnti \in Rntis /\ ~KnownAt(p.cell, p.rnti) /\ ~Known(p) /\ Known(p)'
  <1>1. lastRnti \in [Cells -> Rntis \cup {0}] /\ p \in Places /\ p.cell \in Cells /\ p.rnti \in Rntis
    BY PlaceTypes DEF TypeInv, CellsTyped, Fresh
  <1>2. lastRnti[p.cell] \in Nat
    BY <1>1, BoundsAssumption DEF Rntis
  <1>3. p.rnti = lastRnti[p.cell] + 1 /\ lastRnti'[p.cell] = p.rnti
    BY <1>1 DEF Fresh
  <1>4. ~(p.rnti <= lastRnti[p.cell]) /\ p.rnti <= lastRnti'[p.cell]
    BY <1>2, <1>3
  <1> QED
    BY <1>1, <1>4 DEF Known, KnownAt

(* RNTIs are only handed out.                                              *)
LEMMA AllocationGrows ==
    ASSUME TypeInv, Effects
    PROVE  Grows /\ \A p : Known(p) => Known(p)'
  <1>1. UNCHANGED lastRnti \/ \E p \in Places : Fresh(p)
    <2>1. CASE UeEffect
      BY <2>1 DEF UeEffect, Still, Selecting, Accessing, Arriving, Leaves
    <2>2. CASE RrcEffect
      BY <2>2 DEF RrcEffect, Connecting, Rejected, Commanded, Replying, Dropping, Admitting, Completing,
                  Reconfigures, Removed, Continues
    <2>3. CASE X2Effect
      <3>1. PICK s, d \in Cells :
               \/ \E p \in Places : Admits(s, d, p)
               \/ Refuses(s, d)
               \/ \E p, q \in Places : Commands(s, d, p, q)
               \/ \E p \in Spots : Fails(s, d, p) \/ Ends(s, d, p)
               \/ Cancels(s, d)
        BY <2>3 DEF X2Effect
      <3>2. ASSUME Refuses(s, d) PROVE UNCHANGED lastRnti \/ \E p \in Places : Fresh(p)
        BY <3>2 DEF Refuses, Fresh
      <3> QED
        BY <3>1, <3>2 DEF Admits, Commands, Fails, Ends, Cancels
    <2>4. CASE PlaceEffect
      BY <2>4 DEF PlaceEffect, Prepares, Times, TimesJoining, TimesLeaving, SetsUp, Switches, Continues
    <2>5. CASE Forwards
      BY <2>5 DEF Forwards
    <2> QED
      BY <2>1, <2>2, <2>3, <2>4, <2>5 DEF Effects
  <1> QED
    BY <1>1, GrowsFacts

(* A message that arrives was under way, and what it refers to is known.   *)
LEMMA ArrivedFacts ==
    ASSUME TypeInv, Allocated, NEW s, NEW d, NEW msg, Arrived(s, d, msg)
    PROVE  /\ s \in Cells /\ d \in Cells /\ s # d /\ <<s, d>> \in Links /\ <<d, s>> \in Links
           /\ Head(x2[<<s, d>>]) \in Mail(x2[<<s, d>>]) /\ Head(x2[<<s, d>>]).msg = msg
           /\ Head(x2[<<s, d>>]).old = From(s, d) /\ Head(x2[<<s, d>>]) \in X2Msgs
           /\ MailAllocated(s, d, Head(x2[<<s, d>>]))
  <1>1. /\ s \in Cells /\ d \in Cells /\ s # d /\ x2[<<s, d>>] # <<>> /\ Head(x2[<<s, d>>]).msg = msg
        /\ Head(x2[<<s, d>>]) \in X2Msgs
    BY DEF Arrived
  <1>2. x2 \in [Links -> Seq(X2Msgs)]
    BY DEF TypeInv, LinksTyped
  <1>3. /\ Mail(x2[<<s, d>>]) = Mail(X2Taken(s, d)[<<s, d>>]) \cup {Head(x2[<<s, d>>])}
        /\ <<s, d>> \in Links /\ <<d, s>> \in Links
    BY <1>1, <1>2, MailTaken
  <1> QED
    BY <1>1, <1>3 DEF From, Allocated, X2Allocated

(* Contexts are created with fresh RNTIs.                                  *)
LEMMA CtxStaysAllocated ==
    ASSUME TypeInv, Allocated, Effects
    PROVE  CtxAllocated'
  <1>g. \A p : Known(p) => Known(p)'
    BY AllocationGrows
  <1>t. ctx \in [Places -> Contexts] /\ x2 \in [Links -> Seq(X2Msgs)]
    BY DEF TypeInv, CellsTyped, LinksTyped
  <1>u. ASSUME UNCHANGED ctx PROVE CtxAllocated'
    BY <1>u, <1>g DEF Allocated, CtxAllocated
  <1>e. ASSUME NEW p \in Places, NEW states, NEW state, NEW timers, Enters(p, states, state, timers),
               "NONE" \notin states, state # "HANDOVER_PREPARATION",
               state \in {"HANDOVER_JOINING", "HANDOVER_PATH_SWITCH"} => states = {"HANDOVER_JOINING"}
        PROVE  CtxAllocated'
    BY <1>e, <1>g DEF Enters, Turned, Allocated, CtxAllocated
  <1>o. ASSUME NEW p, Gone(p) PROVE CtxAllocated'
    BY <1>o, <1>g DEF Gone, Turned, Allocated, CtxAllocated
  <1>f. ASSUME NEW p, Fresh(p), NEW timers,
               \/ Turned(ctx, ctx', p, "INITIAL_RANDOM_ACCESS", Nowhere, Nowhere, timers)
               \/ \E q : /\ Turned(ctx, ctx', p, "HANDOVER_JOINING", q, Nowhere, timers)
                         /\ Known(q) /\ q.cell # p.cell
        PROVE  CtxAllocated'
    <2>1. Known(p)'
      BY <1>f, FreshFacts
    <2> QED
      BY <2>1, <1>f, <1>g DEF Turned, Allocated, CtxAllocated
  <1>c. ASSUME NEW p, NEW states, "NONE" \notin states, Continues(p, states) PROVE CtxAllocated'
    BY <1>c, <1>e DEF Continues, Enters
  <1>1. CASE UeEffect
    BY <1>1, <1>u, <1>f DEF UeEffect, Still, Selecting, Accessing, Arriving, Leaves
  <1>2. CASE RrcEffect
    BY <1>2, <1>u, <1>e, <1>o, <1>c DEF RrcEffect, Connecting, Rejected, Commanded, Replying, Dropping,
       Admitting, Completing, Reconfigures, Removed, RrcMsgs
  <1>3. CASE X2Effect
    <2>1. ASSUME NEW s \in Cells, NEW d \in Cells, NEW p, Admits(s, d, p) PROVE CtxAllocated'
      <3> DEFINE q == [cell |-> s, rnti |-> From(s, d)]
      <3>1. Arrived(s, d, "HandoverRequest") /\ p.cell = d
        BY <2>1 DEF Admits
      <3>2. KnownAt(s, From(s, d)) /\ s # d
        BY <3>1, ArrivedFacts DEF MailAllocated
      <3>3. Known(q) /\ q.cell = s
        BY <3>2 DEF Known, KnownAt, Places
      <3>4. Fresh(p) /\ Turned(ctx, ctx', p, "HANDOVER_JOINING", q, Nowhere, {"joining"})
        BY <2>1 DEF Admits
      <3> HIDE DEF q
      <3> QED
        BY <3>1, <3>2, <3>3, <3>4, <1>f
    <2>2. ASSUME NEW s \in Cells, NEW d \in Cells, NEW p, NEW q, Commands(s, d, p, q) PROVE CtxAllocated'
      BY <2>2, <1>g DEF Commands, Turned, Allocated, CtxAllocated
    <2>3. ASSUME NEW s \in Cells, NEW d \in Cells, NEW p, Fails(s, d, p) PROVE CtxAllocated'
      BY <2>3, <1>u, <1>o, <1>c DEF Fails
    <2>4. ASSUME NEW s \in Cells, NEW d \in Cells, NEW p, Ends(s, d, p) PROVE CtxAllocated'
      BY <2>4, <1>u, <1>o DEF Ends
    <2>5. ASSUME NEW s \in Cells, NEW d \in Cells, Refuses(s, d) \/ Cancels(s, d) PROVE CtxAllocated'
      BY <2>5, <1>u, <1>e DEF Refuses, Cancels
    <2> QED
      BY <1>3, <2>1, <2>2, <2>3, <2>4, <2>5 DEF X2Effect
  <1>4. CASE PlaceEffect
    <2>1. ASSUME NEW p \in Places, NEW c \in Cells, Prepares(p, c) PROVE CtxAllocated'
      BY <2>1, <1>g DEF Prepares, Turned, Allocated, CtxAllocated
    <2> QED
      BY <1>4, <2>1, <1>o, <1>c DEF PlaceEffect, Times, TimesJoining, TimesLeaving, SetsUp, Switches
  <1>5. CASE Forwards
    BY <1>5, <1>u, <1>e DEF Forwards
  <1> QED
    BY <1>1, <1>2, <1>3, <1>4, <1>5 DEF Effects

(* RRC messages are about RNTIs that have been handed out.                 *)
LEMMA RrcStaysAllocated ==
    ASSUME TypeInv, Allocated, Effects
    PROVE  RrcAllocated'
  <1>g. \A p : Known(p) => Known(p)'
    BY AllocationGrows
  <1>k. /\ \A p \in Places : ctx[p].state # "NONE" => Known(p)
        /\ ue.state \in Connected \cup {"IDLE_CONNECTING"} => Known(ue.at)
        /\ \A m \in Msgs(rrc) : Known(m.at)
    BY DEF Allocated, CtxAllocated, UeAllocated, RrcAllocated, TypeInv, UeTyped, Connected
  <1>q. ASSUME Quietly \/ UNCHANGED rrc PROVE RrcAllocated'
    BY <1>q, <1>g DEF Quietly, Allocated, RrcAllocated, Msgs
  <1>s. ASSUME NEW m, Said(m), Known(m.at)', m.msg = "HandoverCommand" => Known(m.target)'
        PROVE  RrcAllocated'
    BY <1>s, <1>g DEF Said, Allocated, RrcAllocated
  <1>r. ASSUME NEW msg, NEW p, Said(Rrc(msg, p)), Known(p)', msg # "HandoverCommand"
        PROVE  RrcAllocated'
    <2>1. Rrc(msg, p).at = p /\ Rrc(msg, p).msg = msg
      BY DEF Rrc
    <2> QED
      BY <2>1, <1>r, <1>s
  <1>c. ASSUME NEW p, NEW states, "NONE" \notin states, Continues(p, states) PROVE RrcAllocated'
    <2>1. Known(p)'
      BY <1>c, <1>k, <1>g DEF Continues, Enters
    <2> QED
      BY <2>1, <1>c, <1>q, <1>r DEF Continues
  <1>1. CASE UeEffect
    <2>1. ASSUME NEW p, Accessing(p) PROVE RrcAllocated'
      <3>1. Known(p)'
        BY <2>1, FreshFacts DEF Accessing
      <3> QED
        BY <3>1, <2>1, <1>r DEF Accessing
    <2>2. CASE Arriving \/ Leaves
      <3>0. PICK w : w = ue.at
        OBVIOUS
      <3>1. Known(w)'
        BY <2>2, <3>0, <1>k, <1>g DEF Arriving, Leaves, Connected
      <3>2. Said(Rrc("ReconfigurationCompleted", w)) \/ Said(Rrc("ContextRemove", w))
        BY <2>2, <3>0 DEF Arriving, Leaves, Raised
      <3> QED
        BY <3>1, <3>2, <1>r
    <2> QED
      BY <1>1, <2>1, <2>2, <1>q DEF UeEffect, Still, Selecting
  <1>2. CASE RrcEffect
    <2>1. PICK m \in RrcMsgs :
             \/ Connecting(m) \/ Rejected(m) \/ Commanded(m) \/ Replying(m) \/ Dropping(m)
             \/ Admitting(m) \/ Completing(m) \/ Reconfigures(m) \/ Removed(m)
      BY <1>2 DEF RrcEffect
    <2>2. CASE Connecting(m) \/ Replying(m)
      <3>1. Known(ue.at)'
        BY <2>2, <1>k, <1>g DEF Connecting, Replying, Connected
      <3> QED
        BY <3>1, <2>2, <1>r DEF Connecting, Replying
    <2>3. CASE Admitting(m)
      <3>1. Known(m.at)'
        BY <2>3, <1>k, <1>g DEF Admitting, Heard
      <3> QED
        BY <3>1, <2>3, <1>r DEF Admitting
    <2>4. CASE Reconfigures(m)
      BY <2>4, <1>c DEF Reconfigures
    <2> QED
      BY <2>1, <2>2, <2>3, <2>4, <1>q DEF Rejected, Commanded, Dropping, Completing, Removed
  <1>3. CASE X2Effect
    <2>2. ASSUME NEW s \in Cells, NEW d \in Cells, NEW p, NEW q, Commands(s, d, p, q) PROVE RrcAllocated'
      <3>1. /\ Arrived(s, d, "HandoverRequestAck") /\ p \in Places /\ ctx[p].state # "NONE"
            /\ q \in Places /\ q.cell = s /\ q.rnti = Head(x2[<<s, d>>]).new /\ Said(HandoverCommand(p, q))
        BY <2>2 DEF Commands
      <3>2. KnownAt(s, Head(x2[<<s, d>>]).new)
        BY <3>1, ArrivedFacts DEF MailAllocated
      <3>3. Known(p)' /\ Known(q)'
        BY <3>1, <3>2, <1>k, <1>g DEF Known
      <3>4. HandoverCommand(p, q).at = p /\ HandoverCommand(p, q).target = q
        BY DEF HandoverCommand
      <3> QED
        BY <3>1, <3>3, <3>4, <1>s
    <2>3. ASSUME NEW s \in Cells, NEW d \in Cells, NEW p, Fails(s, d, p) PROVE RrcAllocated'
      <3>1. CASE ctx[p].state = "HANDOVER_LEAVING" /\ Gone(p) /\ Raised(Rrc("Release", p))
        <4>1. Known(p)'
          BY <3>1, <1>k, <1>g DEF Gone
        <4> QED
          BY <4>1, <3>1, <1>r DEF Raised
      <3> QED
        BY <3>1, <2>3, <1>q, <1>c DEF Fails
    <2> QED
      BY <1>3, <2>2, <2>3, <1>q DEF X2Effect, Admits, Refuses, Ends, Cancels
  <1>4. CASE PlaceEffect
    <2>1. ASSUME NEW p \in Places, TimesLeaving(p) PROVE RrcAllocated'
      <3>1. Known(p)'
        BY <2>1, <1>k, <1>g DEF TimesLeaving
      <3> QED
        BY <3>1, <2>1, <1>r DEF Raised, TimesLeaving
    <2> QED
      BY <1>4, <2>1, <1>q, <1>c DEF PlaceEffect, Prepares, Times, TimesJoining, SetsUp, Switches
  <1>5. CASE Forwards
    BY <1>5, <1>q DEF Forwards
  <1> QED
    BY <1>1, <1>2, <1>3, <1>4, <1>5 DEF Effects

(* The UE is where it was sent.                                            *)
LEMMA UeStaysAllocated ==
    ASSUME TypeInv, Allocated, Effects
    PROVE  UeAllocated'
  <1>g. \A p : Known(p) => Known(p)'
    BY AllocationGrows
  <1>s. ASSUME ue'.at = ue.at \/ UNCHANGED ue \/ ue'.at \notin Places PROVE UeAllocated'
    BY <1>s, <1>g DEF Allocated, UeAllocated
  <1>1. CASE UeEffect
    <2>1. ASSUME NEW p, Accessing(p) PROVE UeAllocated'
      <3>1. Known(p)'
        BY <2>1, FreshFacts DEF Accessing
      <3> QED
        BY <3>1, <2>1 DEF Accessing, UeAllocated
    <2>2. Idle.at \notin Places
      BY PlaceTypes DEF Idle
    <2> QED
      BY <1>1, <2>1, <2>2, <1>s DEF UeEffect, Still, Selecting, Arriving, Leaves
  <1>2. CASE RrcEffect
    <2>1. PICK m \in RrcMsgs :
             \/ Connecting(m) \/ Rejected(m) \/ Commanded(m) \/ Replying(m) \/ Dropping(m)
             \/ Admitting(m) \/ Completing(m) \/ Reconfigures(m) \/ Removed(m)
      BY <1>2 DEF RrcEffect
    <2>2. CASE Commanded(m)
      <3>1. m \in Msgs(rrc) /\ m.msg = "HandoverCommand" /\ ue'.at = m.target
        BY <2>2 DEF Commanded, Heard
      <3>2. Known(m.target)'
        BY <3>1, <1>g DEF Allocated, RrcAllocated
      <3> QED
        BY <3>1, <3>2 DEF UeAllocated
    <2> QED
      BY <2>1, <2>2, <1>s DEF Connecting, Rejected, Replying, Dropping, Admitting, Completing, Reconfigures,
         Removed, Continues
  <1>3. CASE X2Effect
    <2>1. PICK s, d \in Cells : \E msg : Arrived(s, d, msg)
      <3>1. ASSUME NEW s \in Cells, NEW d \in Cells,
                   \/ \E p \in Places : Admits(s, d, p)
                   \/ Refuses(s, d)
                   \/ \E p, q \in Places : Commands(s, d, p, q)
                   \/ \E p \in Spots : Fails(s, d, p) \/ Ends(s, d, p)
                   \/ Cancels(s, d)
            PROVE  \E msg : Arrived(s, d, msg)
        BY <3>1 DEF Admits, Refuses, Commands, Fails, Ends, Cancels
      <3> QED
        BY <1>3, <3>1 DEF X2Effect
    <2> QED
      BY <2>1, <1>s DEF Arrived
  <1>4. CASE PlaceEffect
    BY <1>4, <1>s DEF PlaceEffect, Prepares, Times, TimesJoining, TimesLeaving, SetsUp, Switches, Continues
  <1>5. CASE Forwards
    BY <1>5, <1>s DEF Forwards
  <1> QED
    BY <1>1, <1>2, <1>3, <1>4, <1>5 DEF Effects

(* X2 messages are about RNTIs that have been handed out.                  *)
LEMMA X2StaysAllocated ==
    ASSUME TypeInv, Allocated, Effects
    PROVE  X2Allocated'
  <1>g. Grows
    BY AllocationGrows
  <1>t. x2 \in [Links -> Seq(X2Msgs)] /\ ctx \in [Places -> Contexts]
    BY DEF TypeInv, LinksTyped, CellsTyped
  <1>m. ASSUME NEW s \in Cells, NEW d \in Cells, s # d, NEW m \in Mail(x2[<<s, d>>])
        PROVE  MailAllocated(s, d, m)'
    BY <1>m, <1>g DEF Grows, Allocated, X2Allocated, MailAllocated
  <1>l. \A s, d \in Cells : s # d => <<s, d>> \in Links
    BY DEF Links
  <1>u. ASSUME \A k \in Links : Mail(x2'[k]) \subseteq Mail(x2[k]) PROVE X2Allocated'
    <2>1. ASSUME NEW s \in Cells, NEW d \in Cells, s # d, NEW m \in Mail(x2'[<<s, d>>])
          PROVE  MailAllocated(s, d, m)'
      BY <2>1, <1>u, <1>m, <1>l
    <2> QED
      BY <2>1 DEF X2Allocated
  <1>s. ASSUME NEW x \in [Links -> Seq(X2Msgs)], \A k \in Links : Mail(x[k]) \subseteq Mail(x2[k]),
               NEW a, NEW b, NEW n \in X2Msgs, x2' = [x EXCEPT ![<<a, b>>] = Append(@, n)],
               MailAllocated(a, b, n)'
        PROVE  X2Allocated'
    <2>1. ASSUME NEW s \in Cells, NEW d \in Cells, s # d, NEW m \in Mail(x2'[<<s, d>>])
          PROVE  MailAllocated(s, d, m)'
      <3>1. <<s, d>> \in Links
        BY <2>1, <1>l
      <3>2. m \in Mail(x[<<s, d>>]) \/ (<<s, d>> = <<a, b>> /\ m = n)
        <4>1. /\ <<s, d>> = <<a, b>> => Mail(x2'[<<s, d>>]) = Mail(x[<<s, d>>]) \cup {n}
              /\ <<s, d>> # <<a, b>> => x2'[<<s, d>>] = x[<<s, d>>]
          BY <3>1, <1>s, MailSent
        <4> QED
          BY <4>1, <2>1
      <3>3. CASE m \in Mail(x[<<s, d>>])
        BY <3>3, <3>1, <1>s, <2>1, <1>m
      <3>4. CASE <<s, d>> = <<a, b>> /\ m = n
        <4>1. s = a /\ d = b
          BY <3>4
        <4> QED
          BY <4>1, <3>4, <1>s
      <3> QED
        BY <3>2, <3>3, <3>4
    <2> QED
      BY <2>1 DEF X2Allocated
  <1>k. ASSUME NEW s, NEW d, NEW msg, Arrived(s, d, msg)
        PROVE  /\ X2Taken(s, d) \in [Links -> Seq(X2Msgs)]
               /\ \A k \in Links : Mail(X2Taken(s, d)[k]) \subseteq Mail(x2[k])
               /\ \A n : X2Answered(s, d, n) = [X2Taken(s, d) EXCEPT ![<<d, s>>] = Append(@, n)]
    BY <1>k, <1>t, MailTaken DEF Arrived
  <1>f. ASSUME NEW p \in Places, ctx[p].state = "HANDOVER_JOINING", Refusal(p) PROVE X2Allocated'
    <2>0. PICK o : o = ctx[p].source
      OBVIOUS
    <2> DEFINE n == X2("PreparationFailure", o.rnti, 0, 0)
    <2>1. o \in Places /\ o.cell \in Cells /\ KnownAt(o.cell, o.rnti) /\ o.rnti \in Rntis
      BY <1>f, <2>0, PlaceTypes DEF Allocated, CtxAllocated, Known
    <2>2. n \in X2Msgs /\ n.msg = "PreparationFailure" /\ n.old = o.rnti
      BY <2>1, X2Types DEF X2Names
    <2>3. x2' = [x2 EXCEPT ![<<p.cell, o.cell>>] = Append(@, n)]
      BY <1>f, <2>0 DEF Refusal, SendX2
    <2> HIDE DEF n
    <2>4. MailAllocated(p.cell, o.cell, n)'
      BY <2>1, <2>2, <1>g DEF Grows, MailAllocated
    <2> QED
      BY <2>2, <2>3, <2>4, <1>t, <1>s
  <1>1. CASE UeEffect
    BY <1>1, <1>u DEF UeEffect, Still, Selecting, Accessing, Arriving, Leaves
  <1>2. CASE RrcEffect
    <2>1. PICK m \in RrcMsgs :
             \/ Connecting(m) \/ Rejected(m) \/ Commanded(m) \/ Replying(m) \/ Dropping(m)
             \/ Admitting(m) \/ Completing(m) \/ Reconfigures(m) \/ Removed(m)
      BY <1>2 DEF RrcEffect
    <2>2. CASE Removed(m)
      <3>1. m.at \in Places
        BY DEF RrcMsgs
      <3> QED
        BY <3>1, <2>2, <1>f, <1>u DEF Removed
    <2> QED
      BY <2>1, <2>2, <1>u DEF Connecting, Rejected, Commanded, Replying, Dropping, Admitting, Completing,
         Reconfigures
  <1>3. CASE X2Effect
    <2>1. ASSUME NEW s \in Cells, NEW d \in Cells, NEW p, Admits(s, d, p) PROVE X2Allocated'
      <3> DEFINE n == X2("HandoverRequestAck", From(s, d), p.rnti, 0)
      <3>1. Arrived(s, d, "HandoverRequest") /\ x2' = X2Answered(s, d, n) /\ Fresh(p) /\ p.cell = d
        BY <2>1 DEF Admits
      <3>2. KnownAt(s, From(s, d))
        BY <3>1, ArrivedFacts DEF MailAllocated
      <3>3. p.rnti \in Rntis /\ KnownAt(d, p.rnti)'
        BY <3>1, FreshFacts DEF Known
      <3>4. n \in X2Msgs /\ n.msg = "HandoverRequestAck" /\ n.old = From(s, d) /\ n.new = p.rnti
        BY <3>2, <3>3, X2Types DEF X2Names, KnownAt
      <3>5. PICK o : o = From(s, d)
        OBVIOUS
      <3> HIDE DEF n
      <3>6. PICK w : w = n
        OBVIOUS
      <3>7. KnownAt(s, o)'
        BY <3>2, <3>5, <1>g DEF Grows
      <3>8. MailAllocated(d, s, w)'
        BY <3>3, <3>4, <3>5, <3>6, <3>7 DEF MailAllocated
      <3>9. x2' = [X2Taken(s, d) EXCEPT ![<<d, s>>] = Append(@, w)]
        BY <3>1, <3>6, <1>k
      <3> QED
        BY <3>1, <3>4, <3>6, <3>8, <3>9, <1>k, <1>s
    <2>2. ASSUME NEW s \in Cells, NEW d \in Cells, Refuses(s, d) PROVE X2Allocated'
      <3> DEFINE n == X2("PreparationFailure", From(s, d), 0, 0)
      <3>1. Arrived(s, d, "HandoverRequest") /\ x2' = X2Answered(s, d, n)
        BY <2>2 DEF Refuses
      <3>2. KnownAt(s, From(s, d))
        BY <3>1, ArrivedFacts DEF MailAllocated
      <3>4. n \in X2Msgs /\ n.msg = "PreparationFailure" /\ n.old = From(s, d)
        BY <3>2, X2Types DEF X2Names, KnownAt
      <3>5. PICK o : o = From(s, d)
        OBVIOUS
      <3> HIDE DEF n
      <3>6. PICK w : w = n
        OBVIOUS
      <3>7. KnownAt(s, o)'
        BY <3>2, <3>5, <1>g DEF Grows
      <3>8. MailAllocated(d, s, w)'
        BY <3>4, <3>5, <3>6, <3>7 DEF MailAllocated
      <3>9. x2' = [X2Taken(s, d) EXCEPT ![<<d, s>>] = Append(@, w)]
        BY <3>1, <3>6, <1>k
      <3> QED
        BY <3>1, <3>4, <3>6, <3>8, <3>9, <1>k, <1>s
    <2>3. ASSUME NEW s \in Cells, NEW d \in Cells, NEW msg, Arrived(s, d, msg), x2' = X2Taken(s, d)
          PROVE  X2Allocated'
      BY <2>3, <1>k, <1>u
    <2>4. ASSUME NEW s \in Cells, NEW d \in Cells, NEW p, NEW q,
                 Commands(s, d, p, q) \/ Fails(s, d, p) \/ Ends(s, d, p) \/ Cancels(s, d)
          PROVE  X2Allocated'
      BY <2>4, <2>3 DEF Commands, Fails, Ends, Cancels
    <2> QED
      BY <1>3, <2>1, <2>2, <2>4 DEF X2Effect
  <1>4. CASE PlaceEffect
    <2>1. ASSUME NEW p \in Places, NEW c \in Cells, Prepares(p, c) PROVE X2Allocated'
      <3>0. PICK t : t = ctx[p].teid
        OBVIOUS
      <3> DEFINE n == X2("HandoverRequest", p.rnti, 0, t)
      <3>1. x2' = [x2 EXCEPT ![<<p.cell, c>>] = Append(@, n)] /\ Known(p) /\ t \in Teids \cup {0}
        BY <2>1, <3>0, <1>t DEF Prepares, SendX2, Allocated, CtxAllocated, Contexts
      <3>2. p.rnti \in Rntis /\ p.cell \in Cells /\ KnownAt(p.cell, p.rnti)'
        BY <3>1, <1>g, PlaceTypes DEF Known, Grows
      <3>3. n \in X2Msgs /\ n.msg = "HandoverRequest" /\ n.old = p.rnti
        BY <3>1, <3>2 DEF X2, X2Msgs, X2Names
      <3> HIDE DEF n
      <3>4. MailAllocated(p.cell, c, n)'
        BY <3>2, <3>3 DEF MailAllocated
      <3> QED
        BY <3>1, <3>3, <3>4, <1>t, <1>s
    <2>2. ASSUME NEW p \in Places, TimesLeaving(p) PROVE X2Allocated'
      <3>0. PICK o : o = ctx[p].target
        OBVIOUS
      <3> DEFINE n == X2("HandoverCancel", p.rnti, o.rnti, 0)
      <3>1. x2' = [x2 EXCEPT ![<<p.cell, o.cell>>] = Append(@, n)] /\ o.rnti \in Rntis \cup {0}
        BY <2>2, <3>0, <1>t DEF TimesLeaving, SendX2, Contexts, Spots
      <3>3. n \in X2Msgs /\ n.msg = "HandoverCancel"
        BY <3>1, X2Types, PlaceTypes DEF X2Names
      <3> HIDE DEF n
      <3>4. MailAllocated(p.cell, o.cell, n)'
        BY <3>3 DEF MailAllocated
      <3> QED
        BY <3>1, <3>3, <3>4, <1>t, <1>s
    <2>3. ASSUME NEW p \in Places, Switches(p) PROVE X2Allocated'
      <3>0. PICK o : o = ctx[p].source
        OBVIOUS
      <3> DEFINE n == X2("UeContextRelease", o.rnti, p.rnti, 0)
      <3>1. /\ x2' = [x2 EXCEPT ![<<p.cell, o.cell>>] = Append(@, n)]
            /\ ctx[p].state = "HANDOVER_PATH_SWITCH"
        BY <2>3, <3>0 DEF Switches, SendX2, Continues, Enters
      <3>2. o \in Places /\ o.cell \in Cells /\ KnownAt(o.cell, o.rnti) /\ o.rnti \in Rntis
        BY <3>0, <3>1, PlaceTypes DEF Allocated, CtxAllocated, Known
      <3>3. n \in X2Msgs /\ n.msg = "UeContextRelease" /\ n.old = o.rnti
        BY <3>2, X2Types, PlaceTypes DEF X2Names
      <3> HIDE DEF n
      <3>4. MailAllocated(p.cell, o.cell, n)'
        BY <3>2, <3>3, <1>g DEF Grows, MailAllocated
      <3> QED
        BY <3>1, <3>3, <3>4, <1>t, <1>s
    <2> QED
      BY <1>4, <2>1, <2>2, <2>3, <1>u, <1>f DEF PlaceEffect, Times, TimesJoining, SetsUp
  <1>5. CASE Forwards
    <2>1. PICK x \in [Links -> Seq(X2Msgs)] :
             /\ \/ x = x2
                \/ \E s, d \in Cells : Arrived(s, d, "UeData") /\ x = X2Taken(s, d)
             /\ \/ x2' = x
                \/ \E l \in Links, t \in Teids \cup {0} : x2' = [x EXCEPT ![l] = Append(@, X2("UeData", 0, 0, t))]
      BY <1>5 DEF Forwards
    <2>2. \A k \in Links : Mail(x[k]) \subseteq Mail(x2[k])
      BY <2>1, <1>k
    <2>3. ASSUME NEW l \in Links, NEW t \in Teids \cup {0}, x2' = [x EXCEPT ![l] = Append(@, X2("UeData", 0, 0, t))]
          PROVE  X2Allocated'
      <3>0. PICK n : n = X2("UeData", 0, 0, t)
        OBVIOUS
      <3>1. n \in X2Msgs /\ n.msg = "UeData"
        BY <3>0 DEF X2, X2Msgs, X2Names
      <3>2. l = <<l[1], l[2]>>
        BY DEF Links
      <3>3. MailAllocated(l[1], l[2], n)'
        BY <3>1 DEF MailAllocated
      <3> QED
        BY <3>0, <3>1, <3>2, <3>3, <2>2, <2>3, <1>s
    <2> QED
      BY <2>1, <2>2, <2>3, <1>u
  <1> QED
    BY <1>1, <1>2, <1>3, <1>4, <1>5 DEF Effects

(* Everything that is referred to was handed out.                          *)
LEMMA AllocatedInit == Init => Allocated
  <1> SUFFICES ASSUME Init PROVE Allocated
    OBVIOUS
  <1>1. /\ ue = Idle /\ ctx = [p \in Places |-> NoContext] /\ x2 = [l \in Links |-> <<>>]
        /\ rrc = [channel \in {"now", "down", "up"} |-> <<>>]
    BY DEF Init
  <1>2. CtxAllocated
    BY <1>1 DEF CtxAllocated, NoContext
  <1>3. RrcAllocated
    BY <1>1 DEF RrcAllocated, Msgs, Channels
  <1>4. UeAllocated
    BY <1>1, PlaceTypes DEF UeAllocated, Idle
  <1>5. X2Allocated
    <2>1. \A l \in Links : x2[l] = <<>>
      BY <1>1
    <2>2. Mail(<<>>) = {}
      BY DEF Mail
    <2>3. \A s, d \in Cells : s # d => <<s, d>> \in Links
      BY DEF Links
    <2> QED
      BY <2>1, <2>2, <2>3 DEF X2Allocated
  <1> QED
    BY <1>2, <1>3, <1>4, <1>5 DEF Allocated

(* Every step keeps it so.                                                 *)
LEMMA StaysAllocated ==
    ASSUME TypeInv, Allocated, [Next]_vars
    PROVE  Allocated'
  BY StepEffects, CtxStaysAllocated, RrcStaysAllocated, UeStaysAllocated, X2StaysAllocated DEF Allocated

(***************************************************************************)
(* X2 answers each handover request, in order: a context that asks has one *)
(* request under way, or its answer, or an acknowledgement that a failure  *)
(* of the target follows.                                                  *)
(***************************************************************************)

IsAsk(m, r) == m.msg = "HandoverRequest" /\ m.old = r
IsAck(m, r) == m.msg = "HandoverRequestAck" /\ m.old = r
IsNo(m, r) == m.msg = "PreparationFailure" /\ m.old = r
IsAnswer(m, r) == IsAck(m, r) \/ IsNo(m, r)

Asked(q, r) == \E m \in Mail(q) : IsAsk(m, r)
Accepted(q, r) == \E m \in Mail(q) : IsAck(m, r)
Refused(q, r) == \E m \in Mail(q) : IsNo(m, r)
OneAsk(q, r) == \A i, j \in 1 .. Len(q) : IsAsk(q[i], r) /\ IsAsk(q[j], r) => i = j
InOrder(q, r) == \A i, j \in 1 .. Len(q) :
    i < j /\ IsAnswer(q[i], r) /\ IsAnswer(q[j], r) => IsAck(q[i], r) /\ IsNo(q[j], r)

\* Two queues that say the same of an RNTI.
SameAsks(a, b, r) == (Asked(a, r) <=> Asked(b, r)) /\ (OneAsk(a, r) => OneAsk(b, r))
SameAnswers(a, b, r) ==
    /\ Accepted(a, r) <=> Accepted(b, r)
    /\ Refused(a, r) <=> Refused(b, r)
    /\ InOrder(a, r) => InOrder(b, r)

(* A message of a queue is at some index of it.                            *)
LEMMA QueueIndex ==
    ASSUME NEW q \in Seq(X2Msgs), NEW r
    PROVE  /\ \A i \in 1 .. Len(q) : q[i] \in Mail(q)
           /\ ~Asked(q, r) => OneAsk(q, r) /\ \A i \in 1 .. Len(q) : ~IsAsk(q[i], r)
           /\ ~Refused(q, r) => \A i \in 1 .. Len(q) : ~IsNo(q[i], r)
           /\ ~Accepted(q, r) => \A i \in 1 .. Len(q) : ~IsAck(q[i], r)
           /\ ~Accepted(q, r) /\ ~Refused(q, r) => InOrder(q, r)
  <1>1. \A i \in 1 .. Len(q) : q[i] \in X2Msgs /\ q[i] \in Mail(q)
    BY DEF Mail
  <1>2. /\ ~Asked(q, r) => \A i \in 1 .. Len(q) : ~IsAsk(q[i], r)
        /\ ~Refused(q, r) => \A i \in 1 .. Len(q) : ~IsNo(q[i], r)
        /\ ~Accepted(q, r) => \A i \in 1 .. Len(q) : ~IsAck(q[i], r)
    BY <1>1 DEF Asked, Refused, Accepted
  <1> QED
    BY <1>1, <1>2 DEF OneAsk, InOrder, IsAnswer

(* A message is sent.                                                      *)
LEMMA QueueGrows ==
    ASSUME NEW q \in Seq(X2Msgs), NEW n \in X2Msgs, NEW r
    PROVE  LET b == Append(q, n) IN
           /\ Asked(b, r) <=> Asked(q, r) \/ IsAsk(n, r)
           /\ Accepted(b, r) <=> Accepted(q, r) \/ IsAck(n, r)
           /\ Refused(b, r) <=> Refused(q, r) \/ IsNo(n, r)
           /\ ~IsAsk(n, r) => SameAsks(q, b, r)
           /\ ~IsAnswer(n, r) => SameAnswers(q, b, r)
           /\ ~Asked(q, r) => OneAsk(b, r)
           /\ ~Accepted(q, r) /\ ~Refused(q, r) => InOrder(b, r)
           /\ IsNo(n, r) /\ InOrder(q, r) /\ ~Refused(q, r) => InOrder(b, r)
  <1> DEFINE b == Append(q, n)
  <1>1. Mail(b) = Mail(q) \cup {n}
    BY MailGrows
  <1>2. /\ Len(q) \in Nat /\ Len(b) = Len(q) + 1 /\ b[Len(q) + 1] = n
        /\ \A j \in 1 .. Len(q) : b[j] = q[j]
    OBVIOUS
  <1>3. \A i \in 1 .. Len(b) : i = Len(q) + 1 \/ (i \in 1 .. Len(q) /\ i < Len(q) + 1)
    BY <1>2
  <1> HIDE DEF b
  <1>4. /\ Asked(b, r) <=> Asked(q, r) \/ IsAsk(n, r)
        /\ Accepted(b, r) <=> Accepted(q, r) \/ IsAck(n, r)
        /\ Refused(b, r) <=> Refused(q, r) \/ IsNo(n, r)
    BY <1>1 DEF Asked, Accepted, Refused
  <1>5. ASSUME ~IsAsk(n, r), OneAsk(q, r) PROVE OneAsk(b, r)
    BY <1>5, <1>2, <1>3 DEF OneAsk
  <1>6. ASSUME ~Asked(q, r) PROVE OneAsk(b, r)
    BY <1>6, <1>2, <1>3, QueueIndex DEF OneAsk
  <1>7. ASSUME NEW i \in 1 .. Len(b), NEW j \in 1 .. Len(b), i < j
        PROVE  i \in 1 .. Len(q) /\ b[i] = q[i] /\ (b[j] = n \/ (j \in 1 .. Len(q) /\ b[j] = q[j]))
    <2>1. j \in 1 .. Len(q) + 1 /\ i \in 1 .. Len(q) + 1
      BY <1>7, <1>2
    <2>2. i \in 1 .. Len(q)
      BY <2>1, <1>7, <1>2
    <2>3. j = Len(q) + 1 \/ j \in 1 .. Len(q)
      BY <1>3
    <2>4. b[i] = q[i]
      BY <2>2, <1>2
    <2>5. b[j] = n \/ (j \in 1 .. Len(q) /\ b[j] = q[j])
      BY <2>3, <1>2
    <2> QED
      BY <2>2, <2>4, <2>5
  <1>8. ASSUME ~IsAnswer(n, r), InOrder(q, r) PROVE InOrder(b, r)
    BY <1>7, <1>8 DEF InOrder
  <1>9. ASSUME ~Accepted(q, r), ~Refused(q, r) PROVE InOrder(b, r)
    BY <1>7, <1>9, QueueIndex DEF InOrder, IsAnswer
  <1>10. ASSUME IsNo(n, r), InOrder(q, r), ~Refused(q, r) PROVE InOrder(b, r)
    BY <1>7, <1>10, QueueIndex DEF InOrder, IsAnswer
  <1> QED
    BY <1>4, <1>5, <1>6, <1>8, <1>9, <1>10 DEF SameAsks, SameAnswers, IsAnswer, b

(* A message is received.                                                  *)
LEMMA QueueShrinks ==
    ASSUME NEW q \in Seq(X2Msgs), q # <<>>, NEW r
    PROVE  LET b == Tail(q)
               h == Head(q)
           IN
           /\ Asked(q, r) <=> Asked(b, r) \/ IsAsk(h, r)
           /\ Accepted(q, r) <=> Accepted(b, r) \/ IsAck(h, r)
           /\ Refused(q, r) <=> Refused(b, r) \/ IsNo(h, r)
           /\ ~IsAsk(h, r) => SameAsks(q, b, r)
           /\ ~IsAnswer(h, r) => SameAnswers(q, b, r)
           /\ IsAsk(h, r) /\ OneAsk(q, r) => ~Asked(b, r)
           /\ InOrder(q, r) => InOrder(b, r)
           /\ IsAck(h, r) /\ InOrder(q, r) => ~Accepted(b, r)
           /\ IsNo(h, r) /\ InOrder(q, r) => ~Accepted(b, r) /\ ~Refused(b, r)
  <1> DEFINE b == Tail(q)
             h == Head(q)
  <1>1. Mail(q) = Mail(b) \cup {h}
    BY MailShrinks
  <1>2. /\ Len(q) \in Nat \ {0} /\ h = q[1] /\ b \in Seq(X2Msgs) /\ Len(b) = Len(q) - 1
        /\ \A i \in 1 .. Len(b) : b[i] = q[i + 1]
    OBVIOUS
  <1>3. /\ 1 \in 1 .. Len(q)
        /\ \A i \in 1 .. Len(b) : i + 1 \in 1 .. Len(q) /\ 1 < i + 1 /\ i + 1 # 1
        /\ \A i, j \in 1 .. Len(b) : (i < j => i + 1 < j + 1) /\ (i + 1 = j + 1 => i = j)
    BY <1>2
  <1> HIDE DEF b, h
  <1>4. /\ Asked(q, r) <=> Asked(b, r) \/ IsAsk(h, r)
        /\ Accepted(q, r) <=> Accepted(b, r) \/ IsAck(h, r)
        /\ Refused(q, r) <=> Refused(b, r) \/ IsNo(h, r)
    BY <1>1 DEF Asked, Accepted, Refused
  <1>5. ASSUME OneAsk(q, r) PROVE OneAsk(b, r)
    BY <1>5, <1>2, <1>3 DEF OneAsk
  <1>6. ASSUME InOrder(q, r) PROVE InOrder(b, r)
    BY <1>6, <1>2, <1>3 DEF InOrder
  <1>7. ASSUME NEW m \in Mail(b) PROVE \E i \in 1 .. Len(b) : q[i + 1] = m
    BY <1>7, <1>2 DEF Mail
  <1>8. ASSUME IsAsk(h, r), OneAsk(q, r) PROVE ~Asked(b, r)
    BY <1>8, <1>7, <1>2, <1>3 DEF Asked, OneAsk
  <1>9. ASSUME IsAck(h, r), InOrder(q, r) PROVE ~Accepted(b, r)
    <2>1. ASSUME NEW i \in 1 .. Len(b), IsAck(q[i + 1], r) PROVE FALSE
      <3>1. IsNo(q[i + 1], r)
        BY <2>1, <1>9, <1>2, <1>3 DEF InOrder, IsAnswer
      <3> QED
        BY <2>1, <3>1 DEF IsAck, IsNo
    <2> QED
      BY <2>1, <1>7 DEF Accepted
  <1>10. ASSUME IsNo(h, r), InOrder(q, r) PROVE ~Accepted(b, r) /\ ~Refused(b, r)
    <2>1. ASSUME NEW i \in 1 .. Len(b), IsAnswer(q[i + 1], r) PROVE FALSE
      <3>1. IsAck(q[1], r)
        BY <2>1, <1>10, <1>2, <1>3 DEF InOrder, IsAnswer
      <3> QED
        BY <1>10, <1>2, <3>1 DEF IsAck, IsNo
    <2> QED
      BY <2>1, <1>7 DEF Accepted, Refused, IsAnswer
  <1> QED
    BY <1>4, <1>5, <1>6, <1>8, <1>9, <1>10 DEF SameAsks, SameAnswers, IsAnswer, b, h

Left == {"NONE", "HANDOVER_LEAVING"}
QuietStates == ContextStates \ {"NONE", "HANDOVER_PREPARATION", "HANDOVER_LEAVING"}

Preparing(p, s) == ctx[p].state = "HANDOVER_PREPARATION" /\ ctx[p].target.cell = s
\* What a context and the eNB of cell s have under way for each other.
Agreed(p, s) ==
    LET out == x2[<<p.cell, s>>]
        in == x2[<<s, p.cell>>]
    IN /\ Asked(out, p.rnti) => /\ Preparing(p, s) /\ OneAsk(out, p.rnti)
                                /\ ~Accepted(in, p.rnti) /\ ~Refused(in, p.rnti)
       /\ Accepted(in, p.rnti) => Preparing(p, s)
       /\ Refused(in, p.rnti) => Preparing(p, s) \/ ctx[p].state = "HANDOVER_LEAVING"
       /\ Preparing(p, s) => InOrder(in, p.rnti)
\* A context that expects the UE to come from p: p is still to hear of it.
Expected(q, p) ==
    ctx[p].state \notin Left =>
        /\ Preparing(p, q.cell)
        /\ Accepted(x2[<<q.cell, p.cell>>], p.rnti) /\ ~Refused(x2[<<q.cell, p.cell>>], p.rnti)
        /\ \A o \in Places : ctx[o].state = "HANDOVER_JOINING" /\ ctx[o].source = p => o = q
Protocol ==
    /\ \A p \in Places : ctx[p].state # "NONE" => \A s \in Cells \ {p.cell} : Agreed(p, s)
    /\ \A q \in Places : ctx[q].state = "HANDOVER_JOINING" => Expected(q, ctx[q].source)

\* A context that has nothing to do with a handover it asked for, stays as it
\* is, or goes.
Kept(p) ==
    \/ ctx'[p].state = "NONE"
    \/ ctx'[p].state = ctx[p].state /\ ctx'[p].target = ctx[p].target
    \/ ctx[p].state \in QuietStates /\ ctx'[p].state \in QuietStates
    \/ ~Known(p) /\ ctx'[p].state \in QuietStates

(* What is under way about a context is about one that is known.           *)
LEMMA NothingIfUnknown ==
    ASSUME Allocated, NEW p \in Places, ~Known(p), NEW s \in Cells \ {p.cell}
    PROVE  /\ ~Asked(x2[<<p.cell, s>>], p.rnti)
           /\ ~Accepted(x2[<<s, p.cell>>], p.rnti) /\ ~Refused(x2[<<s, p.cell>>], p.rnti)
  <1>1. p.cell \in Cells /\ p.cell # s /\ ~KnownAt(p.cell, p.rnti)
    BY PlaceTypes DEF Known
  <1>2. /\ \A m \in Mail(x2[<<p.cell, s>>]) : MailAllocated(p.cell, s, m)
        /\ \A m \in Mail(x2[<<s, p.cell>>]) : MailAllocated(s, p.cell, m)
    BY <1>1 DEF Allocated, X2Allocated
  <1> QED
    BY <1>1, <1>2 DEF MailAllocated, Asked, Accepted, Refused, IsAsk, IsAck, IsNo

(* All contexts but e go on as before; e is looked at on its own.          *)
LEMMA ProtocolFrame ==
    ASSUME Allocated, Protocol, NEW e,
           \A p \in Places \ {e} : Kept(p) /\ \A s \in Cells \ {p.cell} :
              /\ SameAsks(x2[<<p.cell, s>>], x2'[<<p.cell, s>>], p.rnti)
              /\ SameAnswers(x2[<<s, p.cell>>], x2'[<<s, p.cell>>], p.rnti),
           \A q \in Places : ctx'[q].state = "HANDOVER_JOINING" /\ ctx'[q].source # e =>
              ctx[q].state = "HANDOVER_JOINING" /\ ctx'[q].source = ctx[q].source,
           e \in Places /\ ctx'[e].state # "NONE" => \A s \in Cells \ {e.cell} : Agreed(e, s)',
           \A q \in Places : ctx'[q].state = "HANDOVER_JOINING" /\ ctx'[q].source = e => Expected(q, e)'
    PROVE  Protocol'
  <1>1. ASSUME NEW p \in Places, p # e, ctx'[p].state # "NONE", NEW s \in Cells \ {p.cell}
        PROVE  Agreed(p, s)'
    <2>1. /\ Kept(p)
          /\ SameAsks(x2[<<p.cell, s>>], x2'[<<p.cell, s>>], p.rnti)
          /\ SameAnswers(x2[<<s, p.cell>>], x2'[<<s, p.cell>>], p.rnti)
      BY <1>1
    <2>2. CASE ~Known(p) /\ ctx'[p].state \in QuietStates
      <3>1. /\ ~Asked(x2[<<p.cell, s>>], p.rnti)
            /\ ~Accepted(x2[<<s, p.cell>>], p.rnti) /\ ~Refused(x2[<<s, p.cell>>], p.rnti)
        BY <2>2, NothingIfUnknown
      <3> QED
        BY <3>1, <2>1, <2>2 DEF Agreed, Preparing, SameAsks, SameAnswers, QuietStates
    <2>3. CASE ctx[p].state \in QuietStates /\ ctx'[p].state \in QuietStates
      <3>1. Agreed(p, s)
        BY <2>3 DEF Protocol, QuietStates
      <3> QED
        BY <3>1, <2>1, <2>3 DEF Agreed, Preparing, SameAsks, SameAnswers, QuietStates
    <2>4. CASE ctx'[p].state = ctx[p].state /\ ctx'[p].target = ctx[p].target
      <3>1. Agreed(p, s)
        BY <2>4, <1>1 DEF Protocol
      <3> QED
        BY <3>1, <2>1, <2>4 DEF Agreed, Preparing, SameAsks, SameAnswers
    <2> QED
      BY <1>1, <2>1, <2>2, <2>3, <2>4 DEF Kept
  <1>2. ASSUME NEW q \in Places, ctx'[q].state = "HANDOVER_JOINING", NEW p, p = ctx'[q].source, p # e
        PROVE  Expected(q, p)'
    <2>1. ctx[q].state = "HANDOVER_JOINING" /\ ctx[q].source = p
      BY <1>2
    <2>2. p \in Places /\ Known(p) /\ p.cell # q.cell /\ Expected(q, p)
      BY <2>1 DEF Allocated, CtxAllocated, Known, Protocol
    <2>3. /\ Kept(p) /\ q.cell \in Cells \ {p.cell}
          /\ SameAnswers(x2[<<q.cell, p.cell>>], x2'[<<q.cell, p.cell>>], p.rnti)
      BY <2>2, <1>2, PlaceTypes
    <2>4. CASE ctx[p].state \in Left
      BY <2>2, <2>3, <2>4 DEF Kept, Left, QuietStates, Expected
    <2>5. CASE ctx[p].state \notin Left
      <3>1. /\ ctx[p].state = "HANDOVER_PREPARATION" /\ ctx[p].target.cell = q.cell
            /\ Accepted(x2[<<q.cell, p.cell>>], p.rnti) /\ ~Refused(x2[<<q.cell, p.cell>>], p.rnti)
            /\ \A o \in Places : ctx[o].state = "HANDOVER_JOINING" /\ ctx[o].source = p => o = q
        BY <2>2, <2>5 DEF Expected, Preparing
      <3>2. CASE ctx'[p].state = "NONE"
        BY <3>2 DEF Expected, Left
      <3>3. CASE ctx'[p].state = ctx[p].state /\ ctx'[p].target = ctx[p].target
        <4>1. \A o \in Places : ctx'[o].state = "HANDOVER_JOINING" /\ ctx'[o].source = p => o = q
          BY <3>1, <1>2
        <4> QED
          BY <3>1, <3>3, <4>1, <2>3 DEF Expected, Preparing, SameAnswers
      <3> QED
        BY <3>1, <3>2, <3>3, <2>2, <2>3 DEF Kept, QuietStates
    <2> QED
      BY <2>4, <2>5
  <1> QED
    BY <1>1, <1>2 DEF Protocol

\* Two states of the links that say the same of all handovers.
Neutral(x, y) == \A k \in Links : \A r : SameAsks(x[k], y[k], r) /\ SameAnswers(x[k], y[k], r)
Others == {"UeContextRelease", "HandoverCancel", "UeData"}

(* Messages that are no part of the preparation.                           *)
LEMMA NeutralSent ==
    ASSUME NEW x \in [Links -> Seq(X2Msgs)], NEW h, NEW n \in X2Msgs, n.msg \in Others
    PROVE  Neutral(x, [x EXCEPT ![h] = Append(@, n)])
  <1> DEFINE y == [x EXCEPT ![h] = Append(@, n)]
  <1> SUFFICES ASSUME NEW k \in Links, NEW r PROVE SameAsks(x[k], y[k], r) /\ SameAnswers(x[k], y[k], r)
    BY DEF Neutral
  <1>1. (k = h => y[k] = Append(x[k], n)) /\ (k # h => y[k] = x[k])
    BY MailSent
  <1>2. ~IsAsk(n, r) /\ ~IsAnswer(n, r)
    BY DEF IsAsk, IsAnswer, IsAck, IsNo, Others
  <1>3. x[k] \in Seq(X2Msgs)
    OBVIOUS
  <1>4. SameAsks(x[k], Append(x[k], n), r) /\ SameAnswers(x[k], Append(x[k], n), r)
    BY <1>2, <1>3, QueueGrows
  <1>5. SameAsks(x[k], x[k], r) /\ SameAnswers(x[k], x[k], r)
    BY DEF SameAsks, SameAnswers
  <1> HIDE DEF y
  <1> QED
    BY <1>1, <1>4, <1>5

(* A message that is taken and is no part of a preparation.                *)
LEMMA NeutralTaken ==
    ASSUME TypeInv, NEW s, NEW d, NEW msg \in Others, Arrived(s, d, msg)
    PROVE  X2Taken(s, d) \in [Links -> Seq(X2Msgs)] /\ Neutral(x2, X2Taken(s, d))
  <1>1. /\ s \in Cells /\ d \in Cells /\ s # d /\ x2[<<s, d>>] # <<>> /\ Head(x2[<<s, d>>]).msg = msg
        /\ x2 \in [Links -> Seq(X2Msgs)]
    BY DEF Arrived, TypeInv, LinksTyped
  <1>2. /\ X2Taken(s, d) \in [Links -> Seq(X2Msgs)] /\ <<s, d>> \in Links
        /\ X2Taken(s, d)[<<s, d>>] = Tail(x2[<<s, d>>])
        /\ \A k \in Links : k # <<s, d>> => X2Taken(s, d)[k] = x2[k]
    BY <1>1, MailTaken
  <1>3. ASSUME NEW k \in Links, NEW r
        PROVE  SameAsks(x2[k], X2Taken(s, d)[k], r) /\ SameAnswers(x2[k], X2Taken(s, d)[k], r)
    <2>1. CASE k # <<s, d>>
      BY <2>1, <1>2 DEF SameAsks, SameAnswers
    <2>2. CASE k = <<s, d>>
      <3>1. ~IsAsk(Head(x2[k]), r) /\ ~IsAnswer(Head(x2[k]), r)
        BY <1>1, <2>2 DEF IsAsk, IsAnswer, IsAck, IsNo, Others
      <3>2. x2[k] \in Seq(X2Msgs) /\ x2[k] # <<>>
        BY <1>1, <2>2
      <3>3. SameAsks(x2[k], Tail(x2[k]), r) /\ SameAnswers(x2[k], Tail(x2[k]), r)
        BY <3>1, <3>2, QueueShrinks
      <3> QED
        BY <3>3, <2>2, <1>2
    <2> QED
      BY <2>1, <2>2
  <1> QED
    BY <1>2, <1>3 DEF Neutral

(* Steps that are no part of a preparation.                                *)
LEMMA ProtocolQuiet ==
    ASSUME Allocated, Protocol, Neutral(x2, x2'), \A p \in Places : Kept(p),
           \A q \in Places : ctx'[q].state = "HANDOVER_JOINING" =>
              ctx[q].state = "HANDOVER_JOINING" /\ ctx'[q].source = ctx[q].source
    PROVE  Protocol'
  <1>1. \A s, d \in Cells : s # d => <<s, d>> \in Links
    BY DEF Links
  <1>2. \A p \in Places \ {Nowhere} : Kept(p) /\ \A s \in Cells \ {p.cell} :
              /\ SameAsks(x2[<<p.cell, s>>], x2'[<<p.cell, s>>], p.rnti)
              /\ SameAnswers(x2[<<s, p.cell>>], x2'[<<s, p.cell>>], p.rnti)
    BY <1>1, PlaceTypes DEF Neutral
  <1>3. Nowhere \notin Places
    BY PlaceTypes
  <1>4. \A q \in Places : ctx'[q].state = "HANDOVER_JOINING" => ctx'[q].source # Nowhere
    BY <1>3 DEF Allocated, CtxAllocated, Known
  <1> QED
    BY <1>2, <1>3, <1>4, ProtocolFrame

\* Steps that are no part of a preparation.
QuietStep ==
    /\ \/ UNCHANGED ctx
       \/ \E p : Gone(p)
       \/ \E p, states, state, timers :
             /\ Enters(p, states, state, timers) /\ states \subseteq QuietStates /\ state \in QuietStates
             /\ state = "HANDOVER_JOINING" => states = {"HANDOVER_JOINING"}
       \/ \E p : Fresh(p) /\ Turned(ctx, ctx', p, "INITIAL_RANDOM_ACCESS", Nowhere, Nowhere, {"request"})
    /\ Neutral(x2, x2')

(* They keep the protocol.                                                 *)
LEMMA QuietStepKeeps ==
    ASSUME TypeInv, Allocated, Protocol, QuietStep
    PROVE  Protocol'
  <1>1. CASE UNCHANGED ctx
    BY <1>1, ProtocolQuiet DEF Kept, QuietStep
  <1>2. ASSUME NEW p, Gone(p) PROVE Protocol'
    BY <1>2, ProtocolQuiet DEF Kept, QuietStep, Gone, Turned
  <1>3. ASSUME NEW p, NEW states, NEW state, NEW timers, Enters(p, states, state, timers),
               states \subseteq QuietStates, state \in QuietStates,
               state = "HANDOVER_JOINING" => states = {"HANDOVER_JOINING"}
        PROVE  Protocol'
    <2>1. /\ p \in Places /\ ctx[p].state \in states /\ \A q \in Places \ {p} : ctx'[q] = ctx[q]
          /\ ctx'[p].state = state /\ ctx'[p].source = ctx[p].source
      BY <1>3 DEF Enters, Turned
    <2> QED
      BY <2>1, <1>3, ProtocolQuiet DEF Kept, QuietStep
  <1>4. ASSUME NEW p, Fresh(p), Turned(ctx, ctx', p, "INITIAL_RANDOM_ACCESS", Nowhere, Nowhere, {"request"})
        PROVE  Protocol'
    <2>1. p \in Places /\ ~Known(p)
      BY <1>4, FreshFacts
    <2>2. (\A q \in Places \ {p} : ctx'[q] = ctx[q]) /\ ctx'[p].state = "INITIAL_RANDOM_ACCESS"
      BY <1>4 DEF Turned
    <2> QED
      BY <2>1, <2>2, ProtocolQuiet DEF Kept, QuietStep, QuietStates, ContextStates
  <1> QED
    BY <1>1, <1>2, <1>3, <1>4 DEF QuietStep

\* A message on the link from a to b is about the context e, if about any.
About(a, b, n, e) ==
    /\ n.msg = "HandoverRequest" => e = [cell |-> a, rnti |-> n.old]
    /\ n.msg \in {"HandoverRequestAck", "PreparationFailure"} => e = [cell |-> b, rnti |-> n.old]
\* Two states of the links that say the same of all handovers but that of e.
Apart(x, y, e) ==
    \A p \in Places \ {e} : \A s \in Cells \ {p.cell} :
       /\ SameAsks(x[<<p.cell, s>>], y[<<p.cell, s>>], p.rnti)
       /\ SameAnswers(x[<<s, p.cell>>], y[<<s, p.cell>>], p.rnti)

(* Links between a place and another cell.                                 *)
LEMMA PlaceLinks ==
    \A p \in Places : \A s \in Cells \ {p.cell} : <<p.cell, s>> \in Links /\ <<s, p.cell>> \in Links
  BY PlaceTypes DEF Links

(* A message about e is sent.                                              *)
LEMMA ApartSent ==
    ASSUME NEW x \in [Links -> Seq(X2Msgs)], NEW a, NEW b, NEW n \in X2Msgs, NEW e, About(a, b, n, e)
    PROVE  Apart(x, [x EXCEPT ![<<a, b>>] = Append(@, n)], e)
  <1> DEFINE y == [x EXCEPT ![<<a, b>>] = Append(@, n)]
  <1>1. \A k \in Links : (k = <<a, b>> => y[k] = Append(x[k], n)) /\ (k # <<a, b>> => y[k] = x[k])
    OBVIOUS
  <1>2. \A k \in Links : x[k] \in Seq(X2Msgs)
    OBVIOUS
  <1> HIDE DEF y
  <1>3. ASSUME NEW p \in Places \ {e}, NEW s \in Cells \ {p.cell}
        PROVE  /\ SameAsks(x[<<p.cell, s>>], y[<<p.cell, s>>], p.rnti)
               /\ SameAnswers(x[<<s, p.cell>>], y[<<s, p.cell>>], p.rnti)
    <2>1. <<p.cell, s>> \in Links /\ <<s, p.cell>> \in Links /\ p = [cell |-> p.cell, rnti |-> p.rnti]
      BY PlaceLinks, PlaceTypes
    <2>2. CASE <<p.cell, s>> = <<a, b>>
      <3>1. ~IsAsk(n, p.rnti)
        BY <2>1, <2>2 DEF About, IsAsk
      <3>2. SameAsks(x[<<p.cell, s>>], Append(x[<<p.cell, s>>], n), p.rnti)
        BY <3>1, <2>1, <1>2, QueueGrows
      <3>3. <<s, p.cell>> # <<a, b>>
        BY <2>2
      <3> QED
        BY <3>2, <3>3, <2>1, <2>2, <1>1 DEF SameAnswers
    <2>3. CASE <<s, p.cell>> = <<a, b>>
      <3>1. ~IsAnswer(n, p.rnti)
        BY <2>1, <2>3 DEF About, IsAnswer, IsAck, IsNo
      <3>2. SameAnswers(x[<<s, p.cell>>], Append(x[<<s, p.cell>>], n), p.rnti)
        BY <3>1, <2>1, <1>2, QueueGrows
      <3>3. <<p.cell, s>> # <<a, b>>
        BY <2>3
      <3> QED
        BY <3>2, <3>3, <2>1, <2>3, <1>1 DEF SameAsks
    <2>4. CASE <<p.cell, s>> # <<a, b>> /\ <<s, p.cell>> # <<a, b>>
      BY <2>4, <2>1, <1>1 DEF SameAsks, SameAnswers
    <2> QED
      BY <2>2, <2>3, <2>4
  <1> QED
    BY <1>3 DEF Apart, y

(* A message about e is received.                                          *)
LEMMA ApartTaken ==
    ASSUME TypeInv, NEW s, NEW d, NEW msg, Arrived(s, d, msg), NEW e, About(s, d, Head(x2[<<s, d>>]), e)
    PROVE  Apart(x2, X2Taken(s, d), e)
  <1> DEFINE y == X2Taken(s, d)
             h == Head(x2[<<s, d>>])
  <1>0. /\ s \in Cells /\ d \in Cells /\ s # d /\ x2[<<s, d>>] # <<>>
        /\ x2 \in [Links -> Seq(X2Msgs)]
    BY DEF Arrived, TypeInv, LinksTyped
  <1>1. \A k \in Links : (k = <<s, d>> => y[k] = Tail(x2[k])) /\ (k # <<s, d>> => y[k] = x2[k])
    <2>1. y[<<s, d>>] = Tail(x2[<<s, d>>]) /\ \A k \in Links : k # <<s, d>> => y[k] = x2[k]
      BY <1>0, MailTaken
    <2> HIDE DEF y
    <2> QED
      BY <2>1
  <1>2. \A k \in Links : x2[k] \in Seq(X2Msgs)
    BY <1>0
  <1> HIDE DEF y
  <1>3. ASSUME NEW p \in Places \ {e}, NEW c \in Cells \ {p.cell}
        PROVE  /\ SameAsks(x2[<<p.cell, c>>], y[<<p.cell, c>>], p.rnti)
               /\ SameAnswers(x2[<<c, p.cell>>], y[<<c, p.cell>>], p.rnti)
    <2>1. <<p.cell, c>> \in Links /\ <<c, p.cell>> \in Links /\ p = [cell |-> p.cell, rnti |-> p.rnti]
      BY PlaceLinks, PlaceTypes
    <2>2. CASE <<p.cell, c>> = <<s, d>>
      <3>1. ~IsAsk(h, p.rnti)
        BY <2>1, <2>2 DEF About, IsAsk
      <3>2. SameAsks(x2[<<p.cell, c>>], Tail(x2[<<p.cell, c>>]), p.rnti)
        BY <3>1, <2>1, <2>2, <1>0, <1>2, QueueShrinks
      <3>3. <<c, p.cell>> # <<s, d>>
        BY <2>2
      <3> QED
        BY <3>2, <3>3, <2>1, <2>2, <1>1 DEF SameAnswers
    <2>3. CASE <<c, p.cell>> = <<s, d>>
      <3>1. ~IsAnswer(h, p.rnti)
        BY <2>1, <2>3 DEF About, IsAnswer, IsAck, IsNo
      <3>2. SameAnswers(x2[<<c, p.cell>>], Tail(x2[<<c, p.cell>>]), p.rnti)
        BY <3>1, <2>1, <2>3, <1>0, <1>2, QueueShrinks
      <3>3. <<p.cell, c>> # <<s, d>>
        BY <2>3
      <3> QED
        BY <3>2, <3>3, <2>1, <2>3, <1>1 DEF SameAsks
    <2>4. CASE <<p.cell, c>> # <<s, d>> /\ <<c, p.cell>> # <<s, d>>
      BY <2>4, <2>1, <1>1 DEF SameAsks, SameAnswers
    <2> QED
      BY <2>2, <2>3, <2>4
  <1> QED
    BY <1>3 DEF Apart, y

(* A request is answered.                                                  *)
LEMMA ApartAnswered ==
    ASSUME TypeInv, Allocated, NEW s, NEW d, Arrived(s, d, "HandoverRequest"), NEW e,
           e = [cell |-> s, rnti |-> From(s, d)],
           NEW n \in X2Msgs, n.msg \in {"HandoverRequestAck", "PreparationFailure"}, n.old = From(s, d),
           x2' = X2Answered(s, d, n)
    PROVE  /\ e \in Places /\ Known(e) /\ e.cell = s /\ e.rnti = From(s, d) /\ Apart(x2, x2', e)
           /\ x2'[<<s, d>>] = Tail(x2[<<s, d>>]) /\ x2'[<<d, s>>] = Append(x2[<<d, s>>], n)
           /\ \A k \in Links : k # <<s, d>> /\ k # <<d, s>> => x2'[k] = x2[k]
           /\ IsAsk(Head(x2[<<s, d>>]), e.rnti) /\ x2[<<s, d>>] # <<>>
           /\ x2[<<s, d>>] \in Seq(X2Msgs) /\ x2[<<d, s>>] \in Seq(X2Msgs)
  <1>0. /\ s \in Cells /\ d \in Cells /\ s # d /\ x2[<<s, d>>] # <<>> /\ <<s, d>> \in Links /\ <<d, s>> \in Links
        /\ x2 \in [Links -> Seq(X2Msgs)] /\ Head(x2[<<s, d>>]).msg = "HandoverRequest"
        /\ Head(x2[<<s, d>>]).old = From(s, d) /\ MailAllocated(s, d, Head(x2[<<s, d>>]))
    BY ArrivedFacts DEF Arrived, TypeInv, LinksTyped
  <1>1. e \in Places /\ Known(e) /\ e.cell = s /\ e.rnti = From(s, d)
    BY <1>0 DEF MailAllocated, KnownAt, Known, Places
  <1>2. /\ X2Taken(s, d) \in [Links -> Seq(X2Msgs)]
        /\ <<s, d>> # <<d, s>> /\ X2Taken(s, d)[<<s, d>>] = Tail(x2[<<s, d>>])
        /\ \A k \in Links : k # <<s, d>> => X2Taken(s, d)[k] = x2[k]
        /\ \A w : X2Answered(s, d, w) = [X2Taken(s, d) EXCEPT ![<<d, s>>] = Append(@, w)]
    BY <1>0, MailTaken
  <1>a. x2' = [X2Taken(s, d) EXCEPT ![<<d, s>>] = Append(@, n)]
    BY <1>2
  <1>3. /\ x2'[<<s, d>>] = Tail(x2[<<s, d>>]) /\ x2'[<<d, s>>] = Append(x2[<<d, s>>], n)
        /\ \A k \in Links : k # <<s, d>> /\ k # <<d, s>> => x2'[k] = x2[k]
    BY <1>0, <1>2, <1>a
  <1>4. Apart(x2, X2Taken(s, d), e)
    BY <1>0, <1>1, ApartTaken DEF About
  <1>5. Apart(X2Taken(s, d), x2', e)
    <2>1. About(d, s, n, e)
      BY DEF About
    <2>2. PICK x : x = X2Taken(s, d)
      OBVIOUS
    <2>3. x \in [Links -> Seq(X2Msgs)]
      BY <2>2, <1>2
    <2>4. Apart(x, [x EXCEPT ![<<d, s>>] = Append(@, n)], e)
      BY <2>1, <2>3, ApartSent
    <2> QED
      BY <2>2, <2>4, <1>a
  <1>6. Apart(x2, x2', e)
    BY <1>4, <1>5 DEF Apart, SameAsks, SameAnswers
  <1>7. x2[<<s, d>>] \in Seq(X2Msgs) /\ x2[<<d, s>>] \in Seq(X2Msgs)
    BY <1>0
  <1> QED
    BY <1>0, <1>1, <1>3, <1>6, <1>7 DEF IsAsk

(* A target removes the context it admitted and tells the source.          *)
LEMMA RefusalKeeps ==
    ASSUME TypeInv, Allocated, Protocol, NEW w \in Places, ctx[w].state = "HANDOVER_JOINING",
           Gone(w), Refusal(w)
    PROVE  Protocol'
  <1>0. PICK o : o = ctx[w].source
    OBVIOUS
  <1> DEFINE n == X2("PreparationFailure", o.rnti, 0, 0)
  <1>1. /\ o \in Places /\ o.cell # w.cell /\ Expected(w, o) /\ w.cell \in Cells /\ o.cell \in Cells /\ o.rnti \in Rntis
        /\ o = [cell |-> o.cell, rnti |-> o.rnti]
    BY <1>0, PlaceTypes DEF Allocated, CtxAllocated, Known, Protocol
  <1>2. n \in X2Msgs /\ n.msg = "PreparationFailure" /\ n.old = o.rnti
    BY <1>1, X2Types DEF X2Names
  <1>3. x2' = [x2 EXCEPT ![<<w.cell, o.cell>>] = Append(@, n)] /\ x2 \in [Links -> Seq(X2Msgs)]
    BY <1>0 DEF Refusal, SendX2, TypeInv, LinksTyped
  <1> HIDE DEF n
  <1>4. Apart(x2, x2', o)
    BY <1>1, <1>2, <1>3, ApartSent DEF About
  <1>5. /\ <<w.cell, o.cell>> \in Links /\ x2'[<<w.cell, o.cell>>] = Append(x2[<<w.cell, o.cell>>], n)
        /\ \A k \in Links : k # <<w.cell, o.cell>> => x2'[k] = x2[k]
        /\ x2[<<w.cell, o.cell>>] \in Seq(X2Msgs)
    BY <1>1, <1>3 DEF Links
  <1>6. ctx'[w].state = "NONE" /\ \A p \in Places \ {w} : ctx'[p] = ctx[p]
    BY DEF Gone, Turned
  <1>7. ctx'[o] = ctx[o]
    BY <1>1, <1>6
  <1>8. ASSUME ctx'[o].state # "NONE", NEW s \in Cells \ {o.cell} PROVE Agreed(o, s)'
    <2>1. Agreed(o, s) /\ <<o.cell, s>> \in Links /\ <<s, o.cell>> \in Links /\ <<o.cell, s>> # <<w.cell, o.cell>>
      BY <1>1, <1>7, <1>8, PlaceLinks DEF Protocol
    <2>2. CASE s # w.cell
      <3>1. x2'[<<o.cell, s>>] = x2[<<o.cell, s>>] /\ x2'[<<s, o.cell>>] = x2[<<s, o.cell>>]
        BY <2>1, <2>2, <1>5
      <3> QED
        BY <3>1, <2>1, <1>7 DEF Agreed, Preparing
    <2>3. CASE s = w.cell
      <3>1. x2'[<<o.cell, s>>] = x2[<<o.cell, s>>] /\ x2'[<<s, o.cell>>] = Append(x2[<<s, o.cell>>], n)
        BY <2>1, <2>3, <1>5
      <3>2. IsNo(n, o.rnti) /\ ~IsAck(n, o.rnti)
        BY <1>2 DEF IsNo, IsAck
      <3>3. /\ Accepted(x2'[<<s, o.cell>>], o.rnti) <=> Accepted(x2[<<s, o.cell>>], o.rnti)
            /\ InOrder(x2[<<s, o.cell>>], o.rnti) /\ ~Refused(x2[<<s, o.cell>>], o.rnti) =>
                  InOrder(x2'[<<s, o.cell>>], o.rnti)
        BY <3>1, <3>2, <1>2, <1>5, <2>3, QueueGrows
      <3>4. CASE ctx[o].state = "HANDOVER_LEAVING"
        BY <3>1, <3>3, <3>4, <2>1, <1>7 DEF Agreed, Preparing
      <3>5. CASE ctx[o].state \notin Left
        BY <3>1, <3>3, <3>5, <2>1, <2>3, <1>1, <1>7 DEF Agreed, Preparing, Expected
      <3> QED
        BY <3>4, <3>5, <1>7, <1>8 DEF Left
    <2> QED
      BY <2>2, <2>3
  <1>9. ASSUME NEW q \in Places, ctx'[q].state = "HANDOVER_JOINING", ctx'[q].source = o PROVE Expected(q, o)'
    <2>1. q # w /\ ctx[q] = ctx'[q]
      BY <1>6, <1>9
    <2>2. ctx[o].state \in Left
      BY <2>1, <1>9, <1>1 DEF Expected
    <2> QED
      BY <2>2, <1>7 DEF Expected
  <1>10. \A p \in Places \ {o} : Kept(p)
    BY <1>6 DEF Kept
  <1>11. \A q \in Places : ctx'[q].state = "HANDOVER_JOINING" =>
              ctx[q].state = "HANDOVER_JOINING" /\ ctx'[q].source = ctx[q].source
    BY <1>6
  <1> QED
    BY <1>4, <1>8, <1>9, <1>10, <1>11, ProtocolFrame DEF Apart

(* A handover is requested.                                                *)
LEMMA PreparesKeeps ==
    ASSUME TypeInv, Allocated, Protocol, NEW p \in Places, NEW c \in Cells, Prepares(p, c)
    PROVE  Protocol'
  <1>0. PICK t : t = ctx[p].teid
    OBVIOUS
  <1> DEFINE n == X2("HandoverRequest", p.rnti, 0, t)
  <1>1. /\ ctx \in [Places -> Contexts] /\ x2 \in [Links -> Seq(X2Msgs)]
        /\ p.cell \in Cells /\ p.rnti \in Rntis /\ p = [cell |-> p.cell, rnti |-> p.rnti] /\ c # p.cell
    BY PlaceTypes DEF Prepares, TypeInv, CellsTyped, LinksTyped
  <1>2. n \in X2Msgs /\ n.msg = "HandoverRequest" /\ n.old = p.rnti
    BY <1>0, <1>1 DEF X2, X2Msgs, X2Names, Contexts
  <1>3. x2' = [x2 EXCEPT ![<<p.cell, c>>] = Append(@, n)]
    BY <1>0 DEF Prepares, SendX2
  <1> HIDE DEF n
  <1>4. Apart(x2, x2', p)
    BY <1>1, <1>2, <1>3, ApartSent DEF About
  <1>5. /\ <<p.cell, c>> \in Links /\ x2'[<<p.cell, c>>] = Append(x2[<<p.cell, c>>], n)
        /\ \A k \in Links : k # <<p.cell, c>> => x2'[k] = x2[k]
        /\ x2[<<p.cell, c>>] \in Seq(X2Msgs)
    BY <1>1, <1>3 DEF Links
  <1>6. /\ ctx[p].state = "CONNECTED_NORMALLY" /\ ctx'[p].state = "HANDOVER_PREPARATION"
        /\ ctx'[p].target = [cell |-> c, rnti |-> 0] /\ \A q \in Places \ {p} : ctx'[q] = ctx[q]
    BY DEF Prepares, Turned
  <1>7. ctx'[p].target.cell = c
    BY <1>6
  <1>8. ASSUME NEW s \in Cells \ {p.cell} PROVE Agreed(p, s)'
    <2>1. Agreed(p, s) /\ <<p.cell, s>> \in Links /\ <<s, p.cell>> \in Links /\ <<s, p.cell>> # <<p.cell, c>>
      BY <1>1, <1>6, PlaceLinks DEF Protocol
    <2>2. /\ ~Asked(x2[<<p.cell, s>>], p.rnti)
          /\ ~Accepted(x2[<<s, p.cell>>], p.rnti) /\ ~Refused(x2[<<s, p.cell>>], p.rnti)
      BY <2>1, <1>6 DEF Agreed, Preparing
    <2>3. x2'[<<s, p.cell>>] = x2[<<s, p.cell>>] /\ InOrder(x2[<<s, p.cell>>], p.rnti)
      BY <2>1, <2>2, <1>1, <1>5, QueueIndex
    <2>4. CASE s # c
      <3>1. x2'[<<p.cell, s>>] = x2[<<p.cell, s>>]
        BY <2>1, <2>4, <1>5
      <3> QED
        BY <3>1, <2>2, <2>3 DEF Agreed
    <2>5. CASE s = c
      <3>1. OneAsk(x2'[<<p.cell, s>>], p.rnti)
        BY <2>2, <2>5, <1>2, <1>5, QueueGrows
      <3> QED
        BY <3>1, <2>2, <2>3, <2>5, <1>6, <1>7 DEF Agreed, Preparing
    <2> QED
      BY <2>4, <2>5
  <1>9. ASSUME NEW q \in Places, ctx'[q].state = "HANDOVER_JOINING" PROVE ctx'[q].source # p /\ ctx'[q] = ctx[q]
    <2>1. q # p /\ ctx'[q] = ctx[q] /\ Expected(q, ctx[q].source)
      BY <1>6, <1>9 DEF Protocol
    <2> QED
      BY <2>1, <1>6 DEF Expected, Left, Preparing
  <1>10. \A q \in Places \ {p} : Kept(q)
    BY <1>6 DEF Kept
  <1> QED
    BY <1>4, <1>8, <1>9, <1>10, ProtocolFrame DEF Apart

(* A handover is admitted.                                                 *)
LEMMA AdmitsKeeps ==
    ASSUME TypeInv, Allocated, Protocol, NEW s, NEW d, NEW w, Admits(s, d, w)
    PROVE  Protocol'
  <1> DEFINE n == X2("HandoverRequestAck", From(s, d), w.rnti, 0)
  <1>0. PICK e : e = [cell |-> s, rnti |-> From(s, d)]
    OBVIOUS
  <1>1. /\ Arrived(s, d, "HandoverRequest") /\ Fresh(w) /\ w.cell = d /\ x2' = X2Answered(s, d, n)
        /\ s \in Cells /\ d \in Cells /\ s # d
        /\ Turned(ctx, ctx', w, "HANDOVER_JOINING", e, Nowhere, {"joining"})
    BY <1>0 DEF Admits, Arrived
  <1>2. w \in Places /\ ~Known(w) /\ w.rnti \in Rntis
    BY <1>1, FreshFacts
  <1>3. From(s, d) \in Rntis
    <2>1. /\ MailAllocated(s, d, Head(x2[<<s, d>>])) /\ Head(x2[<<s, d>>]).msg = "HandoverRequest"
          /\ Head(x2[<<s, d>>]).old = From(s, d)
      BY <1>1, ArrivedFacts
    <2> QED
      BY <2>1 DEF MailAllocated, KnownAt
  <1>4. n \in X2Msgs /\ n.msg = "HandoverRequestAck" /\ n.old = From(s, d)
    BY <1>2, <1>3, X2Types DEF X2Names
  <1> HIDE DEF n
  <1>5. /\ e \in Places /\ Known(e) /\ e.cell = s /\ e.rnti = From(s, d) /\ Apart(x2, x2', e)
        /\ x2'[<<s, d>>] = Tail(x2[<<s, d>>]) /\ x2'[<<d, s>>] = Append(x2[<<d, s>>], n)
        /\ \A k \in Links : k # <<s, d>> /\ k # <<d, s>> => x2'[k] = x2[k]
        /\ IsAsk(Head(x2[<<s, d>>]), e.rnti) /\ x2[<<s, d>>] # <<>>
        /\ x2[<<s, d>>] \in Seq(X2Msgs) /\ x2[<<d, s>>] \in Seq(X2Msgs)
    BY <1>0, <1>1, <1>4, ApartAnswered
  <1>6. /\ w # e /\ ctx'[e] = ctx[e] /\ \A q \in Places \ {w} : ctx'[q] = ctx[q]
        /\ ctx'[w].state = "HANDOVER_JOINING" /\ ctx'[w].source = e
    BY <1>1, <1>2, <1>5 DEF Turned
  <1>7. Asked(x2[<<s, d>>], e.rnti)
    BY <1>5, QueueShrinks
  <1>8. ASSUME ctx[e].state # "NONE"
        PROVE  /\ Preparing(e, d) /\ ~Asked(x2'[<<s, d>>], e.rnti)
               /\ ~Accepted(x2[<<d, s>>], e.rnti)
               /\ Accepted(x2'[<<d, s>>], e.rnti) /\ ~Refused(x2'[<<d, s>>], e.rnti)
               /\ InOrder(x2'[<<d, s>>], e.rnti)
    <2>1. /\ Preparing(e, d) /\ OneAsk(x2[<<s, d>>], e.rnti)
          /\ ~Accepted(x2[<<d, s>>], e.rnti) /\ ~Refused(x2[<<d, s>>], e.rnti)
      BY <1>1, <1>5, <1>7, <1>8 DEF Protocol, Agreed
    <2>2. ~Asked(x2'[<<s, d>>], e.rnti)
      BY <2>1, <1>5, QueueShrinks
    <2>3. IsAck(n, e.rnti) /\ ~IsNo(n, e.rnti)
      BY <1>4, <1>5 DEF IsAck, IsNo
    <2>4. Accepted(x2'[<<d, s>>], e.rnti) /\ ~Refused(x2'[<<d, s>>], e.rnti) /\ InOrder(x2'[<<d, s>>], e.rnti)
      BY <2>1, <2>3, <1>4, <1>5, QueueGrows
    <2> QED
      BY <2>1, <2>2, <2>4
  <1>9. ASSUME ctx'[e].state # "NONE", NEW c \in Cells \ {e.cell} PROVE Agreed(e, c)'
    <2>1. Agreed(e, c) /\ ctx[e].state # "NONE"
      BY <1>5, <1>6, <1>9 DEF Protocol
    <2>2. CASE c = d
      BY <2>1, <2>2, <1>5, <1>6, <1>8 DEF Agreed, Preparing
    <2>3. CASE c # d
      <3>1. /\ <<s, c>> \in Links /\ <<c, s>> \in Links /\ <<s, c>> # <<s, d>> /\ <<s, c>> # <<d, s>>
            /\ <<c, s>> # <<s, d>> /\ <<c, s>> # <<d, s>>
        BY <2>3, <1>1, <1>5, <1>9 DEF Links
      <3>2. x2'[<<s, c>>] = x2[<<s, c>>] /\ x2'[<<c, s>>] = x2[<<c, s>>]
        BY <3>1, <1>5
      <3> QED
        BY <3>2, <2>1, <1>5, <1>6 DEF Agreed, Preparing
    <2> QED
      BY <2>2, <2>3
  <1>10. ASSUME NEW q \in Places, ctx'[q].state = "HANDOVER_JOINING", ctx'[q].source = e PROVE Expected(q, e)'
    <2>1. ASSUME NEW o \in Places, o # w, ctx'[o].state = "HANDOVER_JOINING", ctx'[o].source = e,
                 ctx[e].state \notin Left
          PROVE  FALSE
      <3>1. ctx[o].state = "HANDOVER_JOINING" /\ ctx[o].source = e
        BY <2>1, <1>6
      <3>2. Preparing(e, o.cell) /\ Accepted(x2[<<o.cell, e.cell>>], e.rnti)
        BY <3>1, <2>1 DEF Protocol, Expected
      <3>3. Preparing(e, d) /\ ~Accepted(x2[<<d, s>>], e.rnti)
        BY <2>1, <1>8 DEF Left
      <3> QED
        BY <3>2, <3>3, <1>5 DEF Preparing
    <2>2. CASE ctx[e].state \in Left
      BY <2>2, <1>6 DEF Expected
    <2>3. CASE ctx[e].state \notin Left
      <3>1. q = w /\ \A o \in Places : ctx'[o].state = "HANDOVER_JOINING" /\ ctx'[o].source = e => o = w
        BY <2>1, <2>3, <1>10
      <3> QED
        BY <3>1, <2>3, <1>1, <1>5, <1>6, <1>8 DEF Expected, Preparing, Left
    <2> QED
      BY <2>2, <2>3
  <1>11. \A p \in Places \ {e} : Kept(p)
    BY <1>2, <1>6 DEF Kept, QuietStates, ContextStates
  <1>12. \A q \in Places : ctx'[q].state = "HANDOVER_JOINING" /\ ctx'[q].source # e =>
              ctx[q].state = "HANDOVER_JOINING" /\ ctx'[q].source = ctx[q].source
    BY <1>6
  <1> QED
    BY <1>5, <1>9, <1>10, <1>11, <1>12, ProtocolFrame DEF Apart

(* A handover is refused.                                                  *)
LEMMA RefusesKeeps ==
    ASSUME TypeInv, Allocated, Protocol, NEW s, NEW d, Refuses(s, d)
    PROVE  Protocol'
  <1> DEFINE n == X2("PreparationFailure", From(s, d), 0, 0)
  <1>0. PICK e : e = [cell |-> s, rnti |-> From(s, d)]
    OBVIOUS
  <1>1. /\ Arrived(s, d, "HandoverRequest") /\ x2' = X2Answered(s, d, n) /\ UNCHANGED ctx
        /\ s \in Cells /\ d \in Cells /\ s # d
    BY DEF Refuses, Arrived
  <1>3. From(s, d) \in Rntis
    <2>1. /\ MailAllocated(s, d, Head(x2[<<s, d>>])) /\ Head(x2[<<s, d>>]).msg = "HandoverRequest"
          /\ Head(x2[<<s, d>>]).old = From(s, d)
      BY <1>1, ArrivedFacts
    <2> QED
      BY <2>1 DEF MailAllocated, KnownAt
  <1>4. n \in X2Msgs /\ n.msg = "PreparationFailure" /\ n.old = From(s, d)
    BY <1>3, X2Types DEF X2Names
  <1> HIDE DEF n
  <1>5. /\ e \in Places /\ e.cell = s /\ e.rnti = From(s, d) /\ Apart(x2, x2', e)
        /\ x2'[<<s, d>>] = Tail(x2[<<s, d>>]) /\ x2'[<<d, s>>] = Append(x2[<<d, s>>], n)
        /\ \A k \in Links : k # <<s, d>> /\ k # <<d, s>> => x2'[k] = x2[k]
        /\ IsAsk(Head(x2[<<s, d>>]), e.rnti) /\ x2[<<s, d>>] # <<>>
        /\ x2[<<s, d>>] \in Seq(X2Msgs) /\ x2[<<d, s>>] \in Seq(X2Msgs)
    BY <1>0, <1>1, <1>4, ApartAnswered
  <1>7. Asked(x2[<<s, d>>], e.rnti)
    BY <1>5, QueueShrinks
  <1>8. ASSUME ctx[e].state # "NONE"
        PROVE  /\ Preparing(e, d) /\ ~Asked(x2'[<<s, d>>], e.rnti)
               /\ ~Accepted(x2[<<d, s>>], e.rnti)
               /\ ~Accepted(x2'[<<d, s>>], e.rnti) /\ InOrder(x2'[<<d, s>>], e.rnti)
    <2>1. /\ Preparing(e, d) /\ OneAsk(x2[<<s, d>>], e.rnti)
          /\ ~Accepted(x2[<<d, s>>], e.rnti) /\ ~Refused(x2[<<d, s>>], e.rnti)
      BY <1>1, <1>5, <1>7, <1>8 DEF Protocol, Agreed
    <2>2. ~Asked(x2'[<<s, d>>], e.rnti)
      BY <2>1, <1>5, QueueShrinks
    <2>3. ~IsAck(n, e.rnti)
      BY <1>4 DEF IsAck
    <2>4. ~Accepted(x2'[<<d, s>>], e.rnti) /\ InOrder(x2'[<<d, s>>], e.rnti)
      BY <2>1, <2>3, <1>4, <1>5, QueueGrows
    <2> QED
      BY <2>1, <2>2, <2>4
  <1>9. ASSUME ctx'[e].state # "NONE", NEW c \in Cells \ {e.cell} PROVE Agreed(e, c)'
    <2>1. Agreed(e, c) /\ ctx[e].state # "NONE"
      BY <1>1, <1>5, <1>9 DEF Protocol
    <2>2. CASE c = d
      BY <2>1, <2>2, <1>1, <1>5, <1>8 DEF Agreed, Preparing
    <2>3. CASE c # d
      <3>1. /\ <<s, c>> \in Links /\ <<c, s>> \in Links /\ <<s, c>> # <<s, d>> /\ <<s, c>> # <<d, s>>
            /\ <<c, s>> # <<s, d>> /\ <<c, s>> # <<d, s>>
        BY <2>3, <1>1, <1>5, <1>9 DEF Links
      <3>2. x2'[<<s, c>>] = x2[<<s, c>>] /\ x2'[<<c, s>>] = x2[<<c, s>>]
        BY <3>1, <1>5
      <3> QED
        BY <3>2, <2>1, <1>1, <1>5 DEF Agreed, Preparing
    <2> QED
      BY <2>2, <2>3
  <1>10. ASSUME NEW q \in Places, ctx'[q].state = "HANDOVER_JOINING", ctx'[q].source = e PROVE Expected(q, e)'
    <2>1. ASSUME ctx[e].state \notin Left PROVE FALSE
      <3>2. Preparing(e, q.cell) /\ Accepted(x2[<<q.cell, e.cell>>], e.rnti)
        BY <1>1, <1>10, <2>1 DEF Protocol, Expected
      <3>3. Preparing(e, d) /\ ~Accepted(x2[<<d, s>>], e.rnti)
        BY <2>1, <1>8 DEF Left
      <3> QED
        BY <3>2, <3>3, <1>5 DEF Preparing
    <2> QED
      BY <2>1, <1>1 DEF Expected
  <1>11. /\ \A p \in Places \ {e} : Kept(p)
         /\ \A q \in Places : ctx'[q].state = ctx[q].state /\ ctx'[q].source = ctx[q].source
    BY <1>1 DEF Kept
  <1> QED
    BY <1>5, <1>9, <1>10, <1>11, ProtocolFrame DEF Apart

(* An answer is taken from a link.                                         *)
LEMMA AnswerTaken ==
    ASSUME TypeInv, Allocated, NEW s, NEW d, NEW msg, Arrived(s, d, msg),
           msg \in {"HandoverRequestAck", "PreparationFailure"},
           NEW p, p.cell = d, p.rnti = From(s, d), p \in Places, x2' = X2Taken(s, d)
    PROVE  /\ Apart(x2, x2', p) /\ s \in Cells \ {d}
           /\ x2'[<<s, d>>] = Tail(x2[<<s, d>>]) /\ \A k \in Links : k # <<s, d>> => x2'[k] = x2[k]
           /\ x2[<<s, d>>] \in Seq(X2Msgs) /\ x2[<<s, d>>] # <<>>
           /\ \A c \in Cells \ {d} : /\ x2'[<<d, c>>] = x2[<<d, c>>]
                                     /\ c # s => x2'[<<c, d>>] = x2[<<c, d>>]
           /\ msg = "HandoverRequestAck" => IsAck(Head(x2[<<s, d>>]), p.rnti)
           /\ msg = "PreparationFailure" => IsNo(Head(x2[<<s, d>>]), p.rnti)
  <1>1. /\ s \in Cells /\ d \in Cells /\ s # d /\ <<s, d>> \in Links /\ Head(x2[<<s, d>>]).msg = msg
        /\ Head(x2[<<s, d>>]).old = From(s, d)
    BY ArrivedFacts
  <1>2. x2[<<s, d>>] # <<>> /\ x2 \in [Links -> Seq(X2Msgs)] /\ p = [cell |-> d, rnti |-> From(s, d)]
    BY PlaceTypes DEF Arrived, TypeInv, LinksTyped
  <1>3. x2'[<<s, d>>] = Tail(x2[<<s, d>>]) /\ \A k \in Links : k # <<s, d>> => x2'[k] = x2[k]
    <2>1. /\ X2Taken(s, d)[<<s, d>>] = Tail(x2[<<s, d>>])
          /\ \A k \in Links : k # <<s, d>> => X2Taken(s, d)[k] = x2[k]
      BY <1>1, <1>2, MailTaken
    <2> QED
      BY <2>1
  <1>4. About(s, d, Head(x2[<<s, d>>]), p)
    BY <1>1, <1>2 DEF About
  <1>5. Apart(x2, x2', p)
    BY <1>4, ApartTaken
  <1>6. ASSUME NEW c \in Cells \ {d}
        PROVE  x2'[<<d, c>>] = x2[<<d, c>>] /\ (c # s => x2'[<<c, d>>] = x2[<<c, d>>])
    <2>1. <<d, c>> \in Links /\ <<c, d>> \in Links /\ <<d, c>> # <<s, d>> /\ (c # s => <<c, d>> # <<s, d>>)
      BY <1>1, <1>6 DEF Links
    <2> QED
      BY <2>1, <1>3
  <1>7. x2[<<s, d>>] \in Seq(X2Msgs)
    BY <1>1, <1>2
  <1> QED
    BY <1>1, <1>2, <1>3, <1>5, <1>6, <1>7 DEF IsAck, IsNo

(* The source hears that its handover was admitted.                        *)
LEMMA CommandsKeeps ==
    ASSUME TypeInv, Allocated, Protocol, NEW s, NEW d, NEW p, NEW q, Commands(s, d, p, q)
    PROVE  Protocol' /\ Preparing(p, s)
  <1>1. /\ Arrived(s, d, "HandoverRequestAck") /\ x2' = X2Taken(s, d)
        /\ p \in Places /\ p.cell = d /\ p.rnti = From(s, d) /\ ctx[p].state # "NONE"
        /\ ctx'[p].state = "HANDOVER_LEAVING" /\ \A o \in Places \ {p} : ctx'[o] = ctx[o]
    BY DEF Commands, Turned
  <1>2. /\ Apart(x2, x2', p) /\ s \in Cells \ {d}
        /\ x2'[<<s, d>>] = Tail(x2[<<s, d>>])
        /\ x2[<<s, d>>] \in Seq(X2Msgs) /\ x2[<<s, d>>] # <<>>
        /\ \A c \in Cells \ {d} : x2'[<<d, c>>] = x2[<<d, c>>] /\ (c # s => x2'[<<c, d>>] = x2[<<c, d>>])
        /\ IsAck(Head(x2[<<s, d>>]), p.rnti)
    BY <1>1, AnswerTaken
  <1>3. \A c \in Cells \ {d} : Agreed(p, c)
    BY <1>1 DEF Protocol
  <1>4. Accepted(x2[<<s, d>>], p.rnti)
    BY <1>2, QueueShrinks
  <1>5. Preparing(p, s) /\ InOrder(x2[<<s, d>>], p.rnti) /\ ~Asked(x2[<<d, s>>], p.rnti)
    BY <1>1, <1>2, <1>3, <1>4 DEF Agreed
  <1>6. ~Accepted(x2'[<<s, d>>], p.rnti)
    BY <1>2, <1>5, QueueShrinks
  <1>7. ASSUME NEW c \in Cells \ {p.cell} PROVE Agreed(p, c)'
    <2>1. CASE c = s
      BY <2>1, <1>1, <1>2, <1>5, <1>6 DEF Agreed, Preparing
    <2>2. CASE c # s
      <3>1. Agreed(p, c) /\ ~Preparing(p, c)
        BY <1>1, <1>3, <1>5, <1>7, <2>2 DEF Preparing
      <3>2. x2'[<<d, c>>] = x2[<<d, c>>] /\ x2'[<<c, d>>] = x2[<<c, d>>]
        BY <2>2, <1>1, <1>2, <1>7
      <3> QED
        BY <3>1, <3>2, <1>1 DEF Agreed, Preparing
    <2> QED
      BY <2>1, <2>2
  <1>8. \A o \in Places : Expected(o, p)'
    BY <1>1 DEF Expected, Left
  <1>9. /\ \A o \in Places \ {p} : Kept(o)
        /\ \A o \in Places : ctx'[o].state = "HANDOVER_JOINING" =>
              ctx[o].state = "HANDOVER_JOINING" /\ ctx'[o].source = ctx[o].source
    BY <1>1 DEF Kept
  <1>10. Protocol'
    BY <1>1, <1>2, <1>7, <1>8, <1>9, ProtocolFrame DEF Apart
  <1> QED
    BY <1>5, <1>10

(* The source hears that its handover was refused, or failed.              *)
LEMMA FailsKeeps ==
    ASSUME TypeInv, Allocated, Protocol, NEW s, NEW d, NEW p \in Spots, Fails(s, d, p)
    PROVE  Protocol'
  <1>0. /\ Arrived(s, d, "PreparationFailure") /\ x2' = X2Taken(s, d) /\ p.cell = d /\ p.rnti = From(s, d)
    BY DEF Fails
  <1>1. p \in Places
    <2>0. Arrived(s, d, "PreparationFailure")
      BY <1>0
    <2>1. /\ MailAllocated(s, d, Head(x2[<<s, d>>])) /\ Head(x2[<<s, d>>]).msg = "PreparationFailure"
          /\ Head(x2[<<s, d>>]).old = From(s, d) /\ d \in Cells
      BY <2>0, ArrivedFacts
    <2> QED
      BY <2>1, <1>0 DEF MailAllocated, KnownAt, Places, Spots
  <1>2. /\ Apart(x2, x2', p) /\ s \in Cells \ {d}
        /\ x2'[<<s, d>>] = Tail(x2[<<s, d>>])
        /\ x2[<<s, d>>] \in Seq(X2Msgs) /\ x2[<<s, d>>] # <<>>
        /\ \A c \in Cells \ {d} : x2'[<<d, c>>] = x2[<<d, c>>] /\ (c # s => x2'[<<c, d>>] = x2[<<c, d>>])
        /\ IsNo(Head(x2[<<s, d>>]), p.rnti)
    BY <1>0, <1>1, AnswerTaken
  <1>3. Refused(x2[<<s, d>>], p.rnti)
    BY <1>2, QueueShrinks
  <1>4. \/ ctx'[p].state = "NONE" /\ \A o \in Places \ {p} : ctx'[o] = ctx[o]
        \/ Preparing(p, s) /\ ctx'[p].state \in QuietStates \ {"HANDOVER_JOINING"} /\ \A o \in Places \ {p} : ctx'[o] = ctx[o]
    <2>1. CASE ctx[p].state = "NONE" /\ UNCHANGED ctx
      BY <2>1
    <2>2. CASE Gone(p)
      BY <2>2 DEF Gone, Turned
    <2>3. CASE ctx[p].target.cell = s /\ Continues(p, {"HANDOVER_PREPARATION"})
      BY <2>3 DEF Continues, Enters, Turned, Preparing, QuietStates, ContextStates
    <2> QED
      BY <2>1, <2>2, <2>3, <1>1 DEF Fails
  <1>5. CASE ctx'[p].state = "NONE" /\ \A o \in Places \ {p} : ctx'[o] = ctx[o]
    <2>1. \A o \in Places : Expected(o, p)'
      BY <1>5 DEF Expected, Left
    <2>2. /\ \A o \in Places \ {p} : Kept(o)
          /\ \A o \in Places : ctx'[o].state = "HANDOVER_JOINING" =>
                ctx[o].state = "HANDOVER_JOINING" /\ ctx'[o].source = ctx[o].source
      BY <1>5 DEF Kept
    <2> QED
      BY <2>1, <2>2, <1>2, <1>5, ProtocolFrame DEF Apart
  <1>6. CASE /\ Preparing(p, s) /\ ctx'[p].state \in QuietStates \ {"HANDOVER_JOINING"}
             /\ \A o \in Places \ {p} : ctx'[o] = ctx[o]
    <2>1. \A c \in Cells \ {d} : Agreed(p, c)
      BY <1>0, <1>1, <1>6 DEF Protocol, Preparing
    <2>2. InOrder(x2[<<s, d>>], p.rnti) /\ ~Asked(x2[<<d, s>>], p.rnti)
      BY <2>1, <1>0, <1>2, <1>3, <1>6 DEF Agreed
    <2>3. ~Accepted(x2'[<<s, d>>], p.rnti) /\ ~Refused(x2'[<<s, d>>], p.rnti)
      BY <2>2, <1>2, QueueShrinks
    <2>4. ASSUME NEW c \in Cells \ {p.cell} PROVE Agreed(p, c)'
      <3>1. CASE c = s
        BY <3>1, <2>2, <2>3, <1>0, <1>2, <1>6 DEF Agreed, Preparing, QuietStates
      <3>2. CASE c # s
        <4>1. Agreed(p, c) /\ ~Preparing(p, c) /\ ctx[p].state # "HANDOVER_LEAVING"
          BY <1>0, <2>1, <1>6, <2>4, <3>2 DEF Preparing
        <4>2. x2'[<<d, c>>] = x2[<<d, c>>] /\ x2'[<<c, d>>] = x2[<<c, d>>]
          BY <3>2, <1>0, <1>2, <2>4
        <4> QED
          BY <4>1, <4>2, <1>0, <1>6 DEF Agreed, Preparing, QuietStates
      <3> QED
        BY <3>1, <3>2
    <2>5. ASSUME NEW o \in Places, ctx'[o].state = "HANDOVER_JOINING"
          PROVE  ctx[o] = ctx'[o] /\ ctx[o].source # p
      <3>1. o # p /\ ctx[o] = ctx'[o]
        BY <1>6, <2>5
      <3>2. ASSUME ctx[o].source = p PROVE FALSE
        <4>1. Expected(o, p) /\ ctx[p].state \notin Left
          BY <3>1, <3>2, <2>5, <1>6 DEF Protocol, Preparing, Left
        <4> QED
          BY <4>1, <1>0, <1>3, <1>6 DEF Expected, Preparing
      <3> QED
        BY <3>1, <3>2
    <2>6. \A o \in Places \ {p} : Kept(o)
      BY <1>6 DEF Kept
    <2> QED
      BY <2>4, <2>5, <2>6, <1>1, <1>2, ProtocolFrame DEF Apart
  <1> QED
    BY <1>4, <1>5, <1>6

(* The protocol of a preparation is kept by every step.                    *)
LEMMA ProtocolStep ==
    ASSUME TypeInv, Allocated, Protocol, Effects
    PROVE  Protocol'
  <1>n. UNCHANGED x2 => Neutral(x2, x2')
    BY DEF Neutral, SameAsks, SameAnswers
  <1>t. x2 \in [Links -> Seq(X2Msgs)] /\ ctx \in [Places -> Contexts]
    BY DEF TypeInv, LinksTyped, CellsTyped
  <1>q. /\ {"INITIAL_RANDOM_ACCESS"} \subseteq QuietStates /\ {"CONNECTION_SETUP"} \subseteq QuietStates
        /\ {"HANDOVER_JOINING"} \subseteq QuietStates /\ {"ATTACH_REQUEST"} \subseteq QuietStates
        /\ {"CONNECTION_RECONFIGURATION"} \subseteq QuietStates /\ {"HANDOVER_PATH_SWITCH"} \subseteq QuietStates
        /\ {"CONNECTION_REJECTED"} \subseteq QuietStates /\ {"CONNECTED_NORMALLY"} \subseteq QuietStates
    BY DEF QuietStates, ContextStates
  <1>g. ASSUME NEW p, Gone(p), Neutral(x2, x2') PROVE Protocol'
    BY <1>g, QuietStepKeeps DEF QuietStep
  <1>u. ASSUME UNCHANGED ctx, Neutral(x2, x2') PROVE Protocol'
    BY <1>u, QuietStepKeeps DEF QuietStep
  <1>e. ASSUME NEW p, NEW states, NEW state, NEW timers, Enters(p, states, state, timers), states \subseteq QuietStates,
               {state} \subseteq QuietStates, state = "HANDOVER_JOINING" => states = {"HANDOVER_JOINING"},
               Neutral(x2, x2')
        PROVE  Protocol'
    BY <1>e, QuietStepKeeps DEF QuietStep
  <1>f. ASSUME NEW p, Fresh(p), Turned(ctx, ctx', p, "INITIAL_RANDOM_ACCESS", Nowhere, Nowhere, {"request"}),
               Neutral(x2, x2')
        PROVE  Protocol'
    BY <1>f, QuietStepKeeps DEF QuietStep
  <1>c. ASSUME NEW p, NEW states, states \subseteq QuietStates, Continues(p, states), Neutral(x2, x2')
        PROVE  Protocol'
    <2>1. \/ Enters(p, states, "CONNECTED_NORMALLY", ctx[p].timers)
          \/ Enters(p, states, "CONNECTION_RECONFIGURATION", ctx[p].timers)
      BY <1>c DEF Continues
    <2> QED
      BY <2>1, <1>c, <1>e, <1>q
  <1>1. CASE UeEffect
    BY <1>1, <1>n, <1>u, <1>f DEF UeEffect, Still, Selecting, Accessing, Arriving, Leaves
  <1>2. CASE RrcEffect
    <2>1. PICK m \in RrcMsgs :
             \/ Connecting(m) \/ Rejected(m) \/ Commanded(m) \/ Replying(m) \/ Dropping(m)
             \/ Admitting(m) \/ Completing(m) \/ Reconfigures(m) \/ Removed(m)
      BY <1>2 DEF RrcEffect
    <2>2. CASE Removed(m)
      <3>1. m.at \in Places /\ Gone(m.at)
        BY <2>2 DEF RrcMsgs, Removed
      <3> QED
        BY <3>1, <2>2, <1>n, <1>g, RefusalKeeps DEF Removed
    <2>3. CASE Admitting(m)
      BY <2>3, <1>n, <1>q, <1>e DEF Admitting
    <2>4. CASE Completing(m)
      BY <2>4, <1>n, <1>q, <1>e DEF Completing
    <2>5. CASE Reconfigures(m)
      BY <2>5, <1>n, <1>q, <1>c DEF Reconfigures
    <2> QED
      BY <2>1, <2>2, <2>3, <2>4, <2>5, <1>n, <1>u DEF Connecting, Rejected, Commanded, Replying, Dropping
  <1>3. CASE X2Effect
    <2>1. PICK s, d \in Cells :
             \/ \E p \in Places : Admits(s, d, p)
             \/ Refuses(s, d)
             \/ \E p, q \in Places : Commands(s, d, p, q)
             \/ \E p \in Spots : Fails(s, d, p) \/ Ends(s, d, p)
             \/ Cancels(s, d)
      BY <1>3 DEF X2Effect
    <2>2. ASSUME NEW p, Ends(s, d, p) PROVE Protocol'
      <3>1. Neutral(x2, x2')
        BY <2>2, NeutralTaken DEF Ends, Others
      <3> QED
        BY <3>1, <2>2, <1>u, <1>g DEF Ends
    <2>3. CASE Cancels(s, d)
      <3>1. Neutral(x2, x2')
        BY <2>3, NeutralTaken DEF Cancels, Others
      <3>2. \/ UNCHANGED ctx
            \/ \E p \in Places : Enters(p, {"HANDOVER_JOINING"}, "HANDOVER_JOINING", ctx[p].timers \ {"joining"})
        BY <2>3 DEF Cancels
      <3>3. ASSUME NEW p \in Places, Enters(p, {"HANDOVER_JOINING"}, "HANDOVER_JOINING", ctx[p].timers \ {"joining"})
            PROVE  Protocol'
        <4>1. PICK timers : Enters(p, {"HANDOVER_JOINING"}, "HANDOVER_JOINING", timers)
          BY <3>3
        <4> QED
          BY <4>1, <3>1, <1>e, <1>q
      <3> QED
        BY <3>1, <3>2, <3>3, <1>u
    <2> QED
      BY <2>1, <2>2, <2>3, AdmitsKeeps, RefusesKeeps, CommandsKeeps, FailsKeeps
  <1>4. CASE PlaceEffect
    <2>1. PICK p \in Places :
             \/ \E c \in Cells : Prepares(p, c)
             \/ Times(p) \/ TimesJoining(p) \/ TimesLeaving(p) \/ SetsUp(p) \/ Switches(p)
      BY <1>4 DEF PlaceEffect
    <2>2. CASE Times(p)
      BY <2>2, <1>n, <1>g DEF Times
    <2>3. CASE TimesJoining(p)
      BY <2>3, RefusalKeeps DEF TimesJoining
    <2>4. CASE TimesLeaving(p)
      <3> DEFINE n == X2("HandoverCancel", p.rnti, ctx[p].target.rnti, 0)
      <3>1. n \in X2Msgs /\ n.msg \in Others
        BY <1>t, PlaceTypes DEF X2, X2Msgs, X2Names, Others, Contexts, Spots
      <3>2. x2' = [x2 EXCEPT ![<<p.cell, ctx[p].target.cell>>] = Append(@, n)]
        BY <2>4 DEF TimesLeaving, SendX2
      <3> HIDE DEF n
      <3>3. Neutral(x2, x2')
        BY <3>1, <3>2, <1>t, NeutralSent
      <3> QED
        BY <3>3, <2>4, <1>g DEF TimesLeaving
    <2>5. CASE SetsUp(p)
      BY <2>5, <1>n, <1>q, <1>c DEF SetsUp
    <2>6. CASE Switches(p)
      <3> DEFINE n == X2("UeContextRelease", ctx[p].source.rnti, p.rnti, 0)
      <3>1. n \in X2Msgs /\ n.msg \in Others
        BY <1>t, PlaceTypes DEF X2, X2Msgs, X2Names, Others, Contexts, Spots
      <3>2. x2' = [x2 EXCEPT ![<<p.cell, ctx[p].source.cell>>] = Append(@, n)]
        BY <2>6 DEF Switches, SendX2
      <3> HIDE DEF n
      <3>3. Neutral(x2, x2')
        BY <3>1, <3>2, <1>t, NeutralSent
      <3> QED
        BY <3>3, <2>6, <1>c, <1>q DEF Switches
    <2> QED
      BY <2>1, <2>2, <2>3, <2>4, <2>5, <2>6, PreparesKeeps
  <1>5. CASE Forwards
    <2>1. PICK x \in [Links -> Seq(X2Msgs)] :
             /\ \/ x = x2
                \/ \E s, d \in Cells : Arrived(s, d, "UeData") /\ x = X2Taken(s, d)
             /\ \/ x2' = x
                \/ \E l \in Links, t \in Teids \cup {0} : x2' = [x EXCEPT ![l] = Append(@, X2("UeData", 0, 0, t))]
      BY <1>5 DEF Forwards
    <2>2. Neutral(x2, x)
      <3>1. ASSUME NEW s \in Cells, NEW d \in Cells, Arrived(s, d, "UeData") PROVE Neutral(x2, X2Taken(s, d))
        BY <3>1, NeutralTaken DEF Others
      <3>2. Neutral(x2, x2)
        BY DEF Neutral, SameAsks, SameAnswers
      <3> QED
        BY <2>1, <3>1, <3>2
    <2>3. Neutral(x, x2')
      <3>1. ASSUME NEW l \in Links, NEW t \in Teids \cup {0}
            PROVE  Neutral(x, [x EXCEPT ![l] = Append(@, X2("UeData", 0, 0, t))])
        <4>1. X2("UeData", 0, 0, t) \in X2Msgs /\ X2("UeData", 0, 0, t).msg \in Others
          BY DEF X2, X2Msgs, X2Names, Others
        <4> QED
          BY <4>1, NeutralSent
      <3>2. Neutral(x, x)
        BY DEF Neutral, SameAsks, SameAnswers
      <3> QED
        BY <2>1, <3>1, <3>2
    <2>4. Neutral(x2, x2')
      BY <2>2, <2>3 DEF Neutral, SameAsks, SameAnswers
    <2> QED
      BY <2>4, <1>5, <1>u, <1>e, <1>q DEF Forwards
  <1> QED
    BY <1>1, <1>2, <1>3, <1>4, <1>5 DEF Effects

(* Nothing is prepared at first.                                           *)
LEMMA ProtocolInit == Init => Protocol
  BY DEF Init, Protocol, NoContext

(***************************************************************************)
(* The eNB that serves the UE is the one the UE is at.                     *)
(***************************************************************************)

Here(p) == ue.state = "CONNECTED_NORMALLY" /\ ue.at = p
Removing(p) == Due("ContextRemove", p)
Completed == {"ConnectionSetupCompleted", "ReconfigurationCompleted"}

\* The UE is on its way to q, has been told to go there, or will be.
Offering(p, q) ==
    /\ ctx[p].state = "HANDOVER_PREPARATION" /\ p.cell # q.cell
    /\ Offers(x2[<<q.cell, p.cell>>], p.rnti, q.rnti)
Dest(q) ==
    \/ ue.state = "CONNECTED_HANDOVER" /\ ue.at = q
    \/ \E m \in Msgs(rrc) : m.msg = "HandoverCommand" /\ m.target = q /\ m.at = ue.at
    \/ \E p \in Places : Offering(p, q)

Served == \A p \in Places : ctx[p].state \in ServingStates => Here(p) \/ Removing(p)
Addressed == \A m \in RrcMsgs : rrc["now"] = <<m>> =>
    /\ m.msg \notin {"Release", "ContextRemove"} => m.at = ue.at
    /\ m.msg = "ContextRemove" => ue = Idle
Rightly(m) ==
    /\ m.msg \in Completed => ctx[m.at].state \in Left \/ Here(m.at) \/ Removing(m.at)
    /\ m.msg = "HandoverCommand" =>
          /\ ctx[m.at].state \in Left /\ ~Dest(m.at) /\ m.at.cell # m.target.cell
          /\ ue.at = m.at => ue.state = "CONNECTED_NORMALLY"
    /\ m.msg = "ConnectionRequest" =>
          (ctx[m.at].state = "INITIAL_RANDOM_ACCESS" /\ ue.at = m.at => ue.state = "IDLE_CONNECTING")
    /\ m.msg = "ConnectionSetup" => ctx[m.at].state # "INITIAL_RANDOM_ACCESS"
    /\ m.msg = "ConnectionReject" =>
          /\ ctx[m.at].state \in {"NONE", "CONNECTION_REJECTED"} /\ ~Dest(m.at)
          /\ ue.at = m.at => ue.state = "IDLE_CONNECTING"
          /\ \A n \in Msgs(rrc) : n.msg = "ConnectionSetup" => n.at # m.at
NewIsNoTarget == \A p \in Places :
    ctx[p].state = "INITIAL_RANDOM_ACCESS" \/ Here(p) => ~Dest(p)
Serving ==
    /\ Served /\ Addressed
    /\ \A m \in Msgs(rrc) : Rightly(m)
    /\ NewIsNoTarget

\* The types and the first three invariants.
Base == TypeInv /\ Allocated /\ Protocol /\ Serving

(* A removal that is due is what happens next.                             *)
LEMMA RemovalIsNext ==
    ASSUME TypeInv, Effects, NEW p \in Places, Removing(p)
    PROVE  UNCHANGED ue /\ (Removing(p)' \/ ctx'[p].state = "NONE")
  <1>1. PICK m \in RrcMsgs : rrc["now"] = <<m>> /\ m.msg = "ContextRemove" /\ m.at = p
    BY DEF Removing, Due
  <1>2. ~Calm /\ \A n : (rrc["now"] = <<n>> => n = m) /\ (Heard(n) => n = m)
    BY <1>1 DEF Calm, Heard
  <1>3. ASSUME NEW q, Due("Release", q) PROVE FALSE
    BY <1>1, <1>2, <1>3 DEF Due
  <1>4. CASE UeEffect
    <2>1. Still
      BY <1>2, <1>3, <1>4 DEF UeEffect, Selecting, Accessing, Arriving, Leaves
    <2> QED
      BY <2>1 DEF Still, Removing, Due
  <1>5. CASE RrcEffect
    <2>1. PICK n \in RrcMsgs :
             \/ Connecting(n) \/ Rejected(n) \/ Commanded(n) \/ Replying(n) \/ Dropping(n)
             \/ Admitting(n) \/ Completing(n) \/ Reconfigures(n) \/ Removed(n)
      BY <1>5 DEF RrcEffect
    <2>2. n = m
      BY <2>1, <1>2 DEF Connecting, Rejected, Commanded, Replying, Dropping, Admitting, Completing,
         Reconfigures, Removed
    <2>3. Dropping(n) \/ Removed(n)
      BY <2>1, <2>2, <1>1 DEF Connecting, Rejected, Commanded, Replying, Admitting, Completing, Reconfigures
    <2>4. CASE Dropping(n)
      BY <2>2, <2>4, <1>1, <1>2 DEF Dropping
    <2>5. CASE Removed(n)
      BY <2>2, <2>5, <1>1 DEF Removed, Gone, Turned
    <2> QED
      BY <2>3, <2>4, <2>5
  <1>6. CASE X2Effect
    <2>1. Calm
      <3>1. ASSUME NEW s \in Cells, NEW d \in Cells,
                   \/ \E q \in Places : Admits(s, d, q)
                   \/ Refuses(s, d)
                   \/ \E q, o \in Places : Commands(s, d, q, o)
                   \/ \E q \in Spots : Fails(s, d, q) \/ Ends(s, d, q)
                   \/ Cancels(s, d)
            PROVE  \E msg : Arrived(s, d, msg)
        BY <3>1 DEF Admits, Refuses, Commands, Fails, Ends, Cancels
      <3> QED
        BY <1>6, <3>1 DEF X2Effect, Arrived
    <2> QED
      BY <2>1, <1>2
  <1>7. CASE PlaceEffect
    BY <1>2, <1>7 DEF PlaceEffect, Prepares, Times, TimesJoining, TimesLeaving, SetsUp, Switches
  <1>8. CASE Forwards
    BY <1>2, <1>8 DEF Forwards
  <1> QED
    BY <1>4, <1>5, <1>6, <1>7, <1>8 DEF Effects

(* A context that serves and goes on is the one the UE is at.              *)
LEMMA ServedHere ==
    ASSUME Serving, NEW p \in Places, ctx[p].state \in ServingStates,
           Calm \/ \E m \in RrcMsgs : rrc["now"] = <<m>> /\ m.msg # "ContextRemove"
    PROVE  Here(p)
  <1>1. ASSUME Removing(p) PROVE FALSE
    <2>1. PICK n \in RrcMsgs : rrc["now"] = <<n>> /\ n.msg = "ContextRemove"
      BY <1>1 DEF Removing, Due
    <2>2. ~Calm /\ \A m : rrc["now"] = <<m>> => m = n
      BY <2>1 DEF Calm
    <2> QED
      BY <2>1, <2>2
  <1> QED
    BY <1>1 DEF Serving, Served

\* What the contexts that are known do.
ContextMoves ==
    /\ \A p \in Places : Known(p) =>
          /\ ctx[p].state \in Left => ctx'[p].state \in Left
          /\ ctx'[p].state = "INITIAL_RANDOM_ACCESS" => ctx[p].state = "INITIAL_RANDOM_ACCESS"
          /\ ctx[p].state \in {"NONE", "CONNECTION_REJECTED"} => ctx'[p].state \in {"NONE", "CONNECTION_REJECTED"}
    /\ \A p \in Places : ctx'[p].state \in ServingStates =>
          ctx[p].state \in ServingStates \/ (Here(p) /\ UNCHANGED ue)
    /\ \A p \in Places : ctx'[p].state = "HANDOVER_PREPARATION" =>
          ctx[p].state = "HANDOVER_PREPARATION" \/ \E c \in Cells : Prepares(p, c)

(* A message heard is not a removal.                                       *)
LEMMA HeardFacts ==
    ASSUME NEW m \in RrcMsgs, Heard(m), m.msg # "ContextRemove"
    PROVE  /\ m \in Msgs(rrc) /\ m.at \in Places
           /\ Calm \/ \E n \in RrcMsgs : rrc["now"] = <<n>> /\ n.msg # "ContextRemove"
           /\ \A p : ~Removing(p)
  <1>1. m \in Msgs(rrc) /\ m.at \in Places
    BY DEF Heard, RrcMsgs
  <1>2. Calm \/ \E n \in RrcMsgs : rrc["now"] = <<n>> /\ n.msg # "ContextRemove"
    BY DEF Heard
  <1>3. ASSUME NEW p, Removing(p) PROVE FALSE
    <2>1. PICK n \in RrcMsgs : rrc["now"] = <<n>> /\ n.msg = "ContextRemove"
      BY <1>3 DEF Removing, Due
    <2>2. ~Calm /\ (rrc["now"] = <<m>> => m = n)
      BY <2>1 DEF Calm
    <2> QED
      BY <2>1, <2>2 DEF Heard
  <1> QED
    BY <1>1, <1>2, <1>3

(* No event is due: none is a removal.                                     *)
LEMMA CalmFacts == Calm => \A p : ~Removing(p)
  BY DEF Calm, Removing, Due

(* Contexts: one that was left is not used again, and one that begins to   *)
(* serve the UE has just heard from it.                                    *)
LEMMA ContextsMove ==
    ASSUME Base, Effects
    PROVE  ContextMoves
  <1>t. ctx \in [Places -> Contexts]
    BY DEF Base, TypeInv, CellsTyped
  <1>u. ASSUME UNCHANGED ctx PROVE ContextMoves
    BY <1>u DEF ContextMoves
  <1>g. ASSUME NEW p, Gone(p) PROVE ContextMoves
    BY <1>g DEF Gone, Turned, ContextMoves, Left, ServingStates
  <1>e. ASSUME NEW p, NEW states, NEW state, NEW timers, Enters(p, states, state, timers),
               states \cap (Left \cup {"CONNECTION_REJECTED"}) = {}, state # "INITIAL_RANDOM_ACCESS",
               state # "HANDOVER_PREPARATION",
               state \in ServingStates => states \subseteq ServingStates \/ (Here(p) /\ UNCHANGED ue)
        PROVE  ContextMoves
    <2>1. /\ p \in Places /\ ctx[p].state \in states /\ \A q \in Places \ {p} : ctx'[q] = ctx[q]
          /\ ctx'[p].state = state
      BY <1>e DEF Enters, Turned
    <2> QED
      BY <2>1, <1>e DEF ContextMoves, Left
  <1>c. ASSUME NEW p, NEW states, Continues(p, states), states \subseteq ServingStates PROVE ContextMoves
    <2>1. PICK timers : \/ Enters(p, states, "CONNECTED_NORMALLY", timers)
                        \/ Enters(p, states, "CONNECTION_RECONFIGURATION", timers)
      BY <1>c DEF Continues
    <2>2. states \cap (Left \cup {"CONNECTION_REJECTED"}) = {}
      BY <1>c DEF Left, ServingStates
    <2> QED
      BY <2>1, <2>2, <1>c, <1>e
  <1>f. ASSUME NEW p, NEW state, NEW q, NEW timers, Fresh(p), Turned(ctx, ctx', p, state, q, Nowhere, timers),
               state \in {"INITIAL_RANDOM_ACCESS", "HANDOVER_JOINING"}
        PROVE  ContextMoves
    <2>1. p \in Places /\ ~Known(p)
      BY <1>f, FreshFacts DEF Base
    <2>2. (\A o \in Places \ {p} : ctx'[o] = ctx[o]) /\ ctx'[p].state = state
      BY <1>f DEF Turned
    <2> QED
      BY <2>1, <2>2, <1>f DEF ContextMoves, ServingStates
  <1>1. CASE UeEffect
    BY <1>1, <1>u, <1>f DEF UeEffect, Still, Selecting, Accessing, Arriving, Leaves
  <1>2. CASE RrcEffect
    <2>1. PICK m \in RrcMsgs :
             \/ Connecting(m) \/ Rejected(m) \/ Commanded(m) \/ Replying(m) \/ Dropping(m)
             \/ Admitting(m) \/ Completing(m) \/ Reconfigures(m) \/ Removed(m)
      BY <1>2 DEF RrcEffect
    <2>2. CASE Admitting(m)
      <3>1. {"INITIAL_RANDOM_ACCESS"} \cap (Left \cup {"CONNECTION_REJECTED"}) = {}
        BY DEF Left
      <3>2. "CONNECTION_SETUP" \notin ServingStates /\ "CONNECTION_REJECTED" \notin ServingStates
        BY DEF ServingStates
      <3> QED
        BY <3>1, <3>2, <2>2, <1>e DEF Admitting
    <2>3. CASE Completing(m)
      <3>1. PICK states, state : Enters(m.at, states, state, {}) /\ UNCHANGED ue /\ Heard(m) /\ m.msg \in Completed
                /\ states \in {{"CONNECTION_SETUP"}, {"HANDOVER_JOINING"}}
                /\ state \in {"ATTACH_REQUEST", "HANDOVER_PATH_SWITCH"}
        BY <2>3 DEF Completing, Completed
      <3>2. m \in Msgs(rrc) /\ ~Removing(m.at)
        BY <3>1, HeardFacts DEF Completed
      <3>3. ctx[m.at].state \notin Left
        BY <3>1 DEF Enters, Left
      <3>4. Here(m.at)
        BY <3>1, <3>2, <3>3 DEF Base, Serving, Rightly
      <3>5. states \cap (Left \cup {"CONNECTION_REJECTED"}) = {}
        BY <3>1 DEF Left
      <3> QED
        BY <3>1, <3>4, <3>5, <1>e
    <2>4. CASE Reconfigures(m)
      BY <2>4, <1>c DEF Reconfigures, ServingStates
    <2>5. CASE Removed(m)
      BY <2>5, <1>g DEF Removed
    <2> QED
      BY <2>1, <2>2, <2>3, <2>4, <2>5, <1>u DEF Connecting, Rejected, Commanded, Replying, Dropping
  <1>3. CASE X2Effect
    <2>1. PICK s, d \in Cells :
             \/ \E p \in Places : Admits(s, d, p)
             \/ Refuses(s, d)
             \/ \E p, q \in Places : Commands(s, d, p, q)
             \/ \E p \in Spots : Fails(s, d, p) \/ Ends(s, d, p)
             \/ Cancels(s, d)
      BY <1>3 DEF X2Effect
    <2>2. ASSUME NEW p, Admits(s, d, p) PROVE ContextMoves
      BY <2>2, <1>f DEF Admits
    <2>3. ASSUME NEW p, NEW q, Commands(s, d, p, q) PROVE ContextMoves
      <3>1. ctx[p].state = "HANDOVER_PREPARATION"
        BY <2>3, CommandsKeeps DEF Base, Preparing
      <3>2. p \in Places /\ ctx'[p].state = "HANDOVER_LEAVING" /\ \A o \in Places \ {p} : ctx'[o] = ctx[o]
        BY <2>3 DEF Commands, Turned
      <3> QED
        BY <3>1, <3>2 DEF ContextMoves, Left, ServingStates
    <2>4. ASSUME NEW p, Fails(s, d, p) \/ Ends(s, d, p) PROVE ContextMoves
      BY <2>4, <1>u, <1>g, <1>c DEF Fails, Ends, ServingStates
    <2>5. CASE Cancels(s, d)
      <3>1. ASSUME NEW p, Enters(p, {"HANDOVER_JOINING"}, "HANDOVER_JOINING", ctx[p].timers \ {"joining"})
            PROVE  ContextMoves
        <4>1. PICK timers : Enters(p, {"HANDOVER_JOINING"}, "HANDOVER_JOINING", timers)
          BY <3>1
        <4>2. "HANDOVER_JOINING" \notin ServingStates /\ {"HANDOVER_JOINING"} \cap (Left \cup {"CONNECTION_REJECTED"}) = {}
          BY DEF ServingStates, Left
        <4> QED
          BY <4>1, <4>2, <1>e
      <3> QED
        BY <3>1, <2>5, <1>u DEF Cancels
    <2>6. CASE Refuses(s, d)
      BY <2>6, <1>u DEF Refuses
    <2> QED
      BY <2>1, <2>2, <2>3, <2>4, <2>5, <2>6
  <1>4. CASE PlaceEffect
    <2>1. PICK p \in Places :
             \/ \E c \in Cells : Prepares(p, c)
             \/ Times(p) \/ TimesJoining(p) \/ TimesLeaving(p) \/ SetsUp(p) \/ Switches(p)
      BY <1>4 DEF PlaceEffect
    <2>2. ASSUME NEW c \in Cells, Prepares(p, c) PROVE ContextMoves
      <3>1. /\ ctx[p].state = "CONNECTED_NORMALLY" /\ ctx'[p].state = "HANDOVER_PREPARATION"
            /\ \A o \in Places \ {p} : ctx'[o] = ctx[o]
        BY <2>2 DEF Prepares, Turned
      <3> QED
        BY <3>1, <2>2 DEF ContextMoves, Left, ServingStates
    <2>3. CASE SetsUp(p)
      BY <2>3, <1>c DEF SetsUp, ServingStates
    <2>4. CASE Switches(p)
      BY <2>4, <1>c DEF Switches, ServingStates
    <2> QED
      BY <2>1, <2>2, <2>3, <2>4, <1>g DEF Times, TimesJoining, TimesLeaving
  <1>5. CASE Forwards
    <2>1. ASSUME NEW p, Enters(p, {"HANDOVER_JOINING"}, "HANDOVER_JOINING", ctx[p].timers)
          PROVE  ContextMoves
      <3>1. PICK timers : Enters(p, {"HANDOVER_JOINING"}, "HANDOVER_JOINING", timers)
        BY <2>1
      <3>2. "HANDOVER_JOINING" \notin ServingStates /\ {"HANDOVER_JOINING"} \cap (Left \cup {"CONNECTION_REJECTED"}) = {}
        BY DEF ServingStates, Left
      <3> QED
        BY <3>1, <3>2, <1>e
    <2> QED
      BY <2>1, <1>5, <1>u DEF Forwards
  <1> QED
    BY <1>1, <1>2, <1>3, <1>4, <1>5 DEF Effects

\* A message that is sent over X2: an acknowledgement offers a new context, and
\* the context that releases another has switched the path.
NewMail(s, d, m) ==
    /\ m.msg = "HandoverRequestAck" =>
          \E p \in Places : p.cell = s /\ p.rnti = m.new /\ ~Known(p) /\ ctx'[p].state = "HANDOVER_JOINING"
    /\ m.msg = "UeContextRelease" =>
          \E p \in Places : Switches(p) /\ ctx[p].source.cell = d /\ ctx[p].source.rnti = m.old
MailMoves == \A s, d \in Cells : s # d =>
    \A m \in Mail(x2'[<<s, d>>]) : m \in Mail(x2[<<s, d>>]) \/ NewMail(s, d, m)

(* X2 messages: nothing else is sent.                                      *)
LEMMA MailsMove ==
    ASSUME TypeInv, Allocated, Effects
    PROVE  MailMoves
  <1>t. x2 \in [Links -> Seq(X2Msgs)] /\ ctx \in [Places -> Contexts]
    BY DEF TypeInv, LinksTyped, CellsTyped
  <1>l. \A s, d \in Cells : s # d => <<s, d>> \in Links
    BY DEF Links
  <1>u. ASSUME \A k \in Links : Mail(x2'[k]) \subseteq Mail(x2[k]) PROVE MailMoves
    BY <1>u, <1>l DEF MailMoves
  <1>s. ASSUME NEW x \in [Links -> Seq(X2Msgs)], \A k \in Links : Mail(x[k]) \subseteq Mail(x2[k]),
               NEW a, NEW b, NEW n \in X2Msgs, x2' = [x EXCEPT ![<<a, b>>] = Append(@, n)],
               NewMail(a, b, n)
        PROVE  MailMoves
    <2>1. ASSUME NEW s \in Cells, NEW d \in Cells, s # d, NEW m \in Mail(x2'[<<s, d>>])
          PROVE  m \in Mail(x2[<<s, d>>]) \/ NewMail(s, d, m)
      <3>1. <<s, d>> \in Links
        BY <2>1, <1>l
      <3>2. m \in Mail(x[<<s, d>>]) \/ (<<s, d>> = <<a, b>> /\ m = n)
        <4>1. /\ <<s, d>> = <<a, b>> => Mail(x2'[<<s, d>>]) = Mail(x[<<s, d>>]) \cup {n}
              /\ <<s, d>> # <<a, b>> => x2'[<<s, d>>] = x[<<s, d>>]
          BY <3>1, <1>s, MailSent
        <4> QED
          BY <4>1, <2>1
      <3>3. CASE m \in Mail(x[<<s, d>>])
        BY <3>3, <3>1, <1>s
      <3>4. CASE <<s, d>> = <<a, b>> /\ m = n
        <4>1. s = a /\ d = b
          BY <3>4
        <4> QED
          BY <4>1, <3>4, <1>s
      <3> QED
        BY <3>2, <3>3, <3>4
    <2> QED
      BY <2>1 DEF MailMoves
  <1>k. ASSUME NEW s, NEW d, NEW msg, Arrived(s, d, msg)
        PROVE  /\ X2Taken(s, d) \in [Links -> Seq(X2Msgs)]
               /\ \A k \in Links : Mail(X2Taken(s, d)[k]) \subseteq Mail(x2[k])
               /\ \A n : X2Answered(s, d, n) = [X2Taken(s, d) EXCEPT ![<<d, s>>] = Append(@, n)]
    BY <1>k, <1>t, MailTaken DEF Arrived
  <1>n. ASSUME NEW s, NEW d, NEW m, m.msg \notin {"HandoverRequestAck", "UeContextRelease"}
        PROVE  NewMail(s, d, m)
    BY <1>n DEF NewMail
  <1>f. ASSUME NEW p \in Places, ctx[p].state = "HANDOVER_JOINING", Refusal(p) PROVE MailMoves
    <2>0. PICK o : o = ctx[p].source
      OBVIOUS
    <2> DEFINE n == X2("PreparationFailure", o.rnti, 0, 0)
    <2>1. o \in Places /\ o.rnti \in Rntis
      BY <1>f, <2>0, PlaceTypes DEF Allocated, CtxAllocated, Known
    <2>2. n \in X2Msgs /\ n.msg = "PreparationFailure"
      BY <2>1, X2Types DEF X2Names
    <2>3. x2' = [x2 EXCEPT ![<<p.cell, o.cell>>] = Append(@, n)]
      BY <1>f, <2>0 DEF Refusal, SendX2
    <2> HIDE DEF n
    <2>4. NewMail(p.cell, o.cell, n)
      BY <2>2, <1>n
    <2> QED
      BY <2>2, <2>3, <2>4, <1>t, <1>s
  <1>1. CASE UeEffect
    BY <1>1, <1>u DEF UeEffect, Still, Selecting, Accessing, Arriving, Leaves
  <1>2. CASE RrcEffect
    <2>1. PICK m \in RrcMsgs :
             \/ Connecting(m) \/ Rejected(m) \/ Commanded(m) \/ Replying(m) \/ Dropping(m)
             \/ Admitting(m) \/ Completing(m) \/ Reconfigures(m) \/ Removed(m)
      BY <1>2 DEF RrcEffect
    <2>2. CASE Removed(m)
      <3>1. m.at \in Places
        BY DEF RrcMsgs
      <3> QED
        BY <3>1, <2>2, <1>f, <1>u DEF Removed
    <2> QED
      BY <2>1, <2>2, <1>u DEF Connecting, Rejected, Commanded, Replying, Dropping, Admitting, Completing,
         Reconfigures
  <1>3. CASE X2Effect
    <2>1. ASSUME NEW s \in Cells, NEW d \in Cells, NEW p, Admits(s, d, p) PROVE MailMoves
      <3>0. PICK n : n = X2("HandoverRequestAck", From(s, d), p.rnti, 0)
        OBVIOUS
      <3>1. /\ Arrived(s, d, "HandoverRequest") /\ x2' = X2Answered(s, d, n) /\ Fresh(p) /\ p.cell = d
            /\ ctx'[p].state = "HANDOVER_JOINING"
        BY <2>1, <3>0 DEF Admits, Turned
      <3>2. KnownAt(s, From(s, d))
        BY <3>1, ArrivedFacts DEF MailAllocated
      <3>3. p \in Places /\ p.rnti \in Rntis /\ ~Known(p)
        BY <3>1, FreshFacts
      <3>4. n \in X2Msgs /\ n.msg = "HandoverRequestAck" /\ n.new = p.rnti
        BY <3>0, <3>2, <3>3, X2Types DEF X2Names, KnownAt
      <3>8. NewMail(d, s, n)
        BY <3>1, <3>3, <3>4 DEF NewMail
      <3>9. x2' = [X2Taken(s, d) EXCEPT ![<<d, s>>] = Append(@, n)]
        BY <3>1, <1>k
      <3> QED
        BY <3>1, <3>4, <3>8, <3>9, <1>k, <1>s
    <2>2. ASSUME NEW s \in Cells, NEW d \in Cells, Refuses(s, d) PROVE MailMoves
      <3>0. PICK n : n = X2("PreparationFailure", From(s, d), 0, 0)
        OBVIOUS
      <3>1. Arrived(s, d, "HandoverRequest") /\ x2' = X2Answered(s, d, n)
        BY <2>2, <3>0 DEF Refuses
      <3>2. KnownAt(s, From(s, d))
        BY <3>1, ArrivedFacts DEF MailAllocated
      <3>4. n \in X2Msgs /\ n.msg = "PreparationFailure"
        BY <3>0, <3>2, X2Types DEF X2Names, KnownAt
      <3>8. NewMail(d, s, n)
        BY <3>4, <1>n
      <3>9. x2' = [X2Taken(s, d) EXCEPT ![<<d, s>>] = Append(@, n)]
        BY <3>1, <1>k
      <3> QED
        BY <3>1, <3>4, <3>8, <3>9, <1>k, <1>s
    <2>3. ASSUME NEW s \in Cells, NEW d \in Cells, NEW msg, Arrived(s, d, msg), x2' = X2Taken(s, d)
          PROVE  MailMoves
      BY <2>3, <1>k, <1>u
    <2>4. ASSUME NEW s \in Cells, NEW d \in Cells, NEW p, NEW q,
                 Commands(s, d, p, q) \/ Fails(s, d, p) \/ Ends(s, d, p) \/ Cancels(s, d)
          PROVE  MailMoves
      BY <2>4, <2>3 DEF Commands, Fails, Ends, Cancels
    <2> QED
      BY <1>3, <2>1, <2>2, <2>4 DEF X2Effect
  <1>4. CASE PlaceEffect
    <2>1. ASSUME NEW p \in Places, NEW c \in Cells, Prepares(p, c) PROVE MailMoves
      <3>0. PICK n : n = X2("HandoverRequest", p.rnti, 0, ctx[p].teid)
        OBVIOUS
      <3>1. x2' = [x2 EXCEPT ![<<p.cell, c>>] = Append(@, n)] /\ ctx[p].teid \in Teids \cup {0}
        BY <2>1, <3>0, <1>t DEF Prepares, SendX2, Contexts
      <3>2. p.rnti \in Rntis
        BY PlaceTypes
      <3>3. n \in X2Msgs /\ n.msg = "HandoverRequest"
        BY <3>0, <3>1, <3>2 DEF X2, X2Msgs, X2Names
      <3>4. NewMail(p.cell, c, n)
        BY <3>3, <1>n
      <3> QED
        BY <3>1, <3>3, <3>4, <1>t, <1>s
    <2>2. ASSUME NEW p \in Places, TimesLeaving(p) PROVE MailMoves
      <3>0. PICK o : o = ctx[p].target
        OBVIOUS
      <3>00. PICK n : n = X2("HandoverCancel", p.rnti, o.rnti, 0)
        OBVIOUS
      <3>1. x2' = [x2 EXCEPT ![<<p.cell, o.cell>>] = Append(@, n)] /\ o.rnti \in Rntis \cup {0}
        BY <2>2, <3>0, <3>00, <1>t DEF TimesLeaving, SendX2, Contexts, Spots
      <3>3. n \in X2Msgs /\ n.msg = "HandoverCancel"
        BY <3>1, <3>00, X2Types, PlaceTypes DEF X2Names
      <3>4. NewMail(p.cell, o.cell, n)
        BY <3>3, <1>n
      <3> QED
        BY <3>1, <3>3, <3>4, <1>t, <1>s
    <2>3. ASSUME NEW p \in Places, Switches(p) PROVE MailMoves
      <3>0. PICK o : o = ctx[p].source
        OBVIOUS
      <3>00. PICK n : n = X2("UeContextRelease", o.rnti, p.rnti, 0)
        OBVIOUS
      <3>1. /\ x2' = [x2 EXCEPT ![<<p.cell, o.cell>>] = Append(@, n)]
            /\ ctx[p].state = "HANDOVER_PATH_SWITCH"
        BY <2>3, <3>0, <3>00 DEF Switches, SendX2, Continues, Enters
      <3>2. o \in Places /\ o.rnti \in Rntis
        BY <3>0, <3>1, PlaceTypes DEF Allocated, CtxAllocated, Known
      <3>3. n \in X2Msgs /\ n.msg = "UeContextRelease" /\ n.old = o.rnti
        BY <3>2, <3>00, X2Types, PlaceTypes DEF X2Names
      <3>4. NewMail(p.cell, o.cell, n)
        BY <3>0, <3>3, <2>3 DEF NewMail
      <3> QED
        BY <3>1, <3>3, <3>4, <1>t, <1>s
    <2> QED
      BY <1>4, <2>1, <2>2, <2>3, <1>u, <1>f DEF PlaceEffect, Times, TimesJoining, SetsUp
  <1>5. CASE Forwards
    <2>1. PICK x \in [Links -> Seq(X2Msgs)] :
             /\ \/ x = x2
                \/ \E s, d \in Cells : Arrived(s, d, "UeData") /\ x = X2Taken(s, d)
             /\ \/ x2' = x
                \/ \E l \in Links, t \in Teids \cup {0} : x2' = [x EXCEPT ![l] = Append(@, X2("UeData", 0, 0, t))]
      BY <1>5 DEF Forwards
    <2>2. \A k \in Links : Mail(x[k]) \subseteq Mail(x2[k])
      BY <2>1, <1>k
    <2>3. ASSUME NEW l \in Links, NEW t \in Teids \cup {0}, x2' = [x EXCEPT ![l] = Append(@, X2("UeData", 0, 0, t))]
          PROVE  MailMoves
      <3>0. PICK n : n = X2("UeData", 0, 0, t)
        OBVIOUS
      <3>1. n \in X2Msgs /\ n.msg = "UeData"
        BY <3>0 DEF X2, X2Msgs, X2Names
      <3>2. l = <<l[1], l[2]>>
        BY DEF Links
      <3>3. NewMail(l[1], l[2], n)
        BY <3>1, <1>n
      <3> QED
        BY <3>0, <3>1, <3>2, <3>3, <2>2, <2>3, <1>s
    <2> QED
      BY <2>1, <2>2, <2>3, <1>u
  <1> QED
    BY <1>1, <1>2, <1>3, <1>4, <1>5 DEF Effects

\* What the UE does: it loses or refuses what it does not have yet, leaves the
\* context it is at to be removed, or changes its state or place.
UeMoves ==
    \/ UNCHANGED ue
    \/ ue.state \notin Connected /\ ue'.state \notin Connected /\ ue'.at \notin Places
    \/ ue.state \in Connected /\ ue' = Idle /\ \E w \in Places : w = ue.at /\ Removing(w)'
    \/ \E p \in Places : Accessing(p)
    \/ Arriving
    \/ \E m \in Msgs(rrc) : Connecting(m)
    \/ \E m \in Msgs(rrc) : Commanded(m) /\ m.at = ue.at

(* The UE: nothing else.                                                   *)
LEMMA UesMove ==
    ASSUME Base, Effects
    PROVE  UeMoves
  <1>1. CASE UeEffect
    <2>1. ASSUME Leaves PROVE UeMoves
      <3>1. PICK w : w = ue.at
        OBVIOUS
      <3>2. w \in Places
        BY <3>1, <2>1 DEF Leaves, Connected, Base, TypeInv, UeTyped
      <3>3. PICK n : n = Rrc("ContextRemove", w)
        OBVIOUS
      <3>4. rrc'["now"] = <<n>> /\ n \in RrcMsgs /\ ue.state \in Connected /\ ue' = Idle
        BY <3>1, <3>3, <2>1 DEF Leaves, Raised, Said
      <3>5. n.msg = "ContextRemove" /\ n.at = w
        BY <3>3 DEF Rrc
      <3>6. Removing(w)'
        BY <3>4, <3>5 DEF Removing, Due
      <3> QED
        BY <3>1, <3>2, <3>4, <3>6 DEF UeMoves
    <2>2. ASSUME Selecting PROVE UeMoves
      BY <2>2 DEF Selecting, UeMoves, Connected
    <2> QED
      BY <1>1, <2>1, <2>2 DEF UeEffect, Still, UeMoves
  <1>2. CASE RrcEffect
    <2>1. PICK m \in RrcMsgs :
             \/ Connecting(m) \/ Rejected(m) \/ Commanded(m) \/ Replying(m) \/ Dropping(m)
             \/ Admitting(m) \/ Completing(m) \/ Reconfigures(m) \/ Removed(m)
      BY <1>2 DEF RrcEffect
    <2>2. CASE Rejected(m)
      <3>1. m \in Msgs(rrc) /\ m.msg = "ConnectionReject" /\ m.at = ue.at
        BY <2>2 DEF Rejected, Heard
      <3>2. ue.state = "IDLE_CONNECTING"
        BY <3>1 DEF Base, Serving, Rightly
      <3> QED
        BY <2>2, <3>2 DEF Rejected, UeMoves, Connected
    <2>3. CASE Commanded(m)
      <3>1. m \in Msgs(rrc) /\ m.msg = "HandoverCommand" /\ (Calm => m.at = ue.at) /\ (Calm \/ rrc["now"] = <<m>>)
        BY <2>3 DEF Commanded, Heard
      <3>2. m.at = ue.at
        BY <3>1, <2>1 DEF Base, Serving, Addressed
      <3> QED
        BY <2>3, <3>1, <3>2 DEF UeMoves
    <2>4. CASE Connecting(m)
      BY <2>4 DEF Connecting, Heard, UeMoves
    <2> QED
      BY <2>1, <2>2, <2>3, <2>4 DEF Replying, Dropping, Admitting, Completing, Reconfigures, Removed, Continues,
         UeMoves
  <1>3. CASE X2Effect
    <2>1. PICK s, d \in Cells : \E msg : Arrived(s, d, msg)
      <3>1. ASSUME NEW s \in Cells, NEW d \in Cells,
                   \/ \E p \in Places : Admits(s, d, p)
                   \/ Refuses(s, d)
                   \/ \E p, q \in Places : Commands(s, d, p, q)
                   \/ \E p \in Spots : Fails(s, d, p) \/ Ends(s, d, p)
                   \/ Cancels(s, d)
            PROVE  \E msg : Arrived(s, d, msg)
        BY <3>1 DEF Admits, Refuses, Commands, Fails, Ends, Cancels
      <3> QED
        BY <1>3, <3>1 DEF X2Effect
    <2> QED
      BY <2>1 DEF Arrived, UeMoves
  <1>4. CASE PlaceEffect
    BY <1>4 DEF PlaceEffect, Prepares, Times, TimesJoining, TimesLeaving, SetsUp, Switches, Continues, UeMoves
  <1>5. CASE Forwards
    BY <1>5 DEF Forwards, UeMoves
  <1> QED
    BY <1>1, <1>2, <1>3, <1>4, <1>5 DEF Effects

\* An RRC message that is sent: by the UE from where it then is, a command by
\* the context it is at, an answer by one that has just been asked.
NewRrc(m) ==
    /\ m.msg \in Completed => ue'.state = "CONNECTED_NORMALLY" /\ ue'.at = m.at
    /\ m.msg = "HandoverCommand" =>
          /\ UNCHANGED ue /\ Here(m.at) /\ Offering(m.at, m.target)
          /\ ctx'[m.at].state = "HANDOVER_LEAVING" /\ ctx'[m.at].target = m.target
          /\ "leaving" \in ctx'[m.at].timers
    /\ m.msg = "ConnectionRequest" => ue'.state = "IDLE_CONNECTING"
    /\ m.msg = "ConnectionSetup" =>
          ctx[m.at].state = "INITIAL_RANDOM_ACCESS" /\ ctx'[m.at].state = "CONNECTION_SETUP"
    /\ m.msg = "ConnectionReject" =>
          /\ UNCHANGED ue
          /\ ctx[m.at].state = "INITIAL_RANDOM_ACCESS" /\ ctx'[m.at].state = "CONNECTION_REJECTED"
          /\ \E n \in Msgs(rrc) : n.msg = "ConnectionRequest" /\ n.at = m.at
NewEvent(m) ==
    /\ m.msg \notin {"Release", "ContextRemove"} => Asking(m) \/ ue'.at = m.at
    /\ m.msg = "ContextRemove" => ue' = Idle
RrcMoves ==
    /\ \A m \in Msgs(rrc') : m \in Msgs(rrc) \/ NewRrc(m)
    /\ \A m \in RrcMsgs : rrc'["now"] = <<m>> => (UNCHANGED <<rrc, ue>>) \/ NewEvent(m)

(* RRC messages: nothing else is sent.                                     *)
LEMMA RrcsMove ==
    ASSUME Base, Effects
    PROVE  RrcMoves
  <1>q. ASSUME Quietly PROVE RrcMoves
    BY <1>q DEF Quietly, RrcMoves
  <1>s. ASSUME NEW m, Said(m), NewRrc(m), NewEvent(m) PROVE RrcMoves
    <2>1. \A n : rrc'["now"] = <<n>> => n = m
      BY <1>s DEF Said
    <2> QED
      BY <2>1, <1>s DEF Said, RrcMoves
  <1>o. ASSUME NEW m, m.msg \in {"Release", "Reconfiguration", "ContextRemove"} PROVE NewRrc(m)
    BY <1>o DEF NewRrc, Completed
  <1>c. ASSUME NEW p \in Places, Here(p), UNCHANGED ue, Quietly \/ Said(Rrc("Reconfiguration", p)) PROVE RrcMoves
    <2>1. PICK m : m = Rrc("Reconfiguration", p)
      OBVIOUS
    <2>2. m.msg = "Reconfiguration" /\ m.at = p
      BY <2>1 DEF Rrc
    <2>3. NewEvent(m)
      BY <2>2, <1>c DEF NewEvent, Here
    <2> QED
      BY <2>1, <2>2, <2>3, <1>c, <1>o, <1>q, <1>s
  <1>d. ASSUME NEW p, NEW states, Continues(p, states), states \subseteq ServingStates,
               Calm \/ \E m \in RrcMsgs : rrc["now"] = <<m>> /\ m.msg # "ContextRemove"
        PROVE  RrcMoves
    <2>1. p \in Places /\ ctx[p].state \in ServingStates /\ UNCHANGED ue
      BY <1>d DEF Continues, Enters
    <2>2. Here(p)
      BY <2>1, <1>d, ServedHere DEF Base
    <2> QED
      BY <2>1, <2>2, <1>c, <1>d DEF Continues
  <1>h. ASSUME NEW msg \in Completed, NEW w, ue'.state = "CONNECTED_NORMALLY", ue'.at = w, Said(Rrc(msg, w))
        PROVE  RrcMoves
    <2>1. PICK m : m = Rrc(msg, w)
      OBVIOUS
    <2>2. m.msg = msg /\ m.at = w
      BY <2>1 DEF Rrc
    <2>3. NewRrc(m) /\ NewEvent(m)
      BY <2>2, <1>h DEF NewRrc, NewEvent, Completed
    <2> QED
      BY <2>1, <2>3, <1>h, <1>s
  <1>r. ASSUME NEW p, UNCHANGED ue, Raised(Rrc("Release", p)) PROVE RrcMoves
    <2>1. PICK m : m = Rrc("Release", p)
      OBVIOUS
    <2>2. m.msg = "Release" /\ m.at = p
      BY <2>1 DEF Rrc
    <2>3. NewEvent(m)
      BY <2>2 DEF NewEvent
    <2> QED
      BY <2>1, <2>2, <2>3, <1>r, <1>o, <1>s DEF Raised
  <1>1. CASE UeEffect
    <2>1. ASSUME NEW p \in Places, Accessing(p) PROVE RrcMoves
      <3>1. CASE ue'.state = "IDLE_CONNECTING" /\ Said(Rrc("ConnectionRequest", p))
        <4>1. PICK m : m = Rrc("ConnectionRequest", p)
          OBVIOUS
        <4>2. m.msg = "ConnectionRequest" /\ m.at = p
          BY <4>1 DEF Rrc
        <4>3. NewRrc(m) /\ NewEvent(m)
          BY <4>2, <3>1 DEF NewRrc, NewEvent, Completed, Asking
        <4> QED
          BY <4>1, <4>3, <3>1, <1>s
      <3>2. CASE ue'.state = "CONNECTED_NORMALLY" /\ Said(Rrc("ReconfigurationCompleted", p))
        BY <2>1, <3>2, <1>h DEF Completed, Accessing
      <3> QED
        BY <2>1, <3>1, <3>2 DEF Accessing
    <2>2. CASE Arriving
      BY <2>2, <1>h DEF Arriving, Completed
    <2>3. CASE Leaves
      <3>1. PICK m : m = Rrc("ContextRemove", ue.at)
        OBVIOUS
      <3>2. m.msg = "ContextRemove" /\ ue' = Idle /\ Said(m)
        BY <3>1, <2>3 DEF Rrc, Leaves, Raised
      <3>3. NewEvent(m)
        BY <3>2 DEF NewEvent
      <3> QED
        BY <3>2, <3>3, <1>o, <1>s
    <2>4. CASE Still
      BY <2>4 DEF Still, RrcMoves
    <2> QED
      BY <1>1, <2>1, <2>2, <2>3, <2>4, <1>q DEF UeEffect, Selecting
  <1>2. CASE RrcEffect
    <2>1. PICK m \in RrcMsgs :
             \/ Connecting(m) \/ Rejected(m) \/ Commanded(m) \/ Replying(m) \/ Dropping(m)
             \/ Admitting(m) \/ Completing(m) \/ Reconfigures(m) \/ Removed(m)
      BY <1>2 DEF RrcEffect
    <2>2. CASE Connecting(m) \/ Replying(m)
      BY <2>2, <1>h DEF Connecting, Replying, Completed
    <2>3. CASE Admitting(m)
      <3>1. m \in Msgs(rrc) /\ m.msg = "ConnectionRequest" /\ UNCHANGED ue
        BY <2>3 DEF Admitting, Heard
      <3>2. ASSUME NEW msg, NEW state, NEW timers, Said(Rrc(msg, m.at)), Enters(m.at, {"INITIAL_RANDOM_ACCESS"}, state, timers),
                   \/ msg = "ConnectionSetup" /\ state = "CONNECTION_SETUP"
                   \/ msg = "ConnectionReject" /\ state = "CONNECTION_REJECTED"
            PROVE  RrcMoves
        <4>1. PICK n : n = Rrc(msg, m.at)
          OBVIOUS
        <4>2. n.msg = msg /\ n.at = m.at
          BY <4>1 DEF Rrc
        <4>3. ctx[m.at].state = "INITIAL_RANDOM_ACCESS" /\ ctx'[m.at].state = state
          BY <3>2 DEF Enters, Turned
        <4>4. NewRrc(n) /\ NewEvent(n)
          BY <4>2, <4>3, <3>1, <3>2 DEF NewRrc, NewEvent, Completed, Asking
        <4> QED
          BY <4>1, <4>4, <3>2, <1>s
      <3> QED
        BY <2>3, <3>2 DEF Admitting
    <2>4. CASE Reconfigures(m)
      <3>1. Calm \/ \E n \in RrcMsgs : rrc["now"] = <<n>> /\ n.msg # "ContextRemove"
        BY <2>4, HeardFacts DEF Reconfigures
      <3> QED
        BY <3>1, <2>4, <1>d DEF Reconfigures, ServingStates
    <2> QED
      BY <2>1, <2>2, <2>3, <2>4, <1>q DEF Rejected, Commanded, Dropping, Completing, Removed
  <1>3. CASE X2Effect
    <2>1. PICK s, d \in Cells :
             \/ \E p \in Places : Admits(s, d, p)
             \/ Refuses(s, d)
             \/ \E p, q \in Places : Commands(s, d, p, q)
             \/ \E p \in Spots : Fails(s, d, p) \/ Ends(s, d, p)
             \/ Cancels(s, d)
      BY <1>3 DEF X2Effect
    <2>2. ASSUME NEW p, NEW q, Commands(s, d, p, q) PROVE RrcMoves
      <3>1. ctx[p].state = "HANDOVER_PREPARATION"
        BY <2>2, CommandsKeeps DEF Base, Preparing
      <3>2. /\ p \in Places /\ ctx'[p].state = "HANDOVER_LEAVING" /\ ctx'[p].target = q
            /\ "leaving" \in ctx'[p].timers /\ Said(HandoverCommand(p, q))
            /\ Arrived(s, d, "HandoverRequestAck") /\ p.cell = d /\ p.rnti = From(s, d)
            /\ q.cell = s /\ q.rnti = Head(x2[<<s, d>>]).new
        BY <2>2 DEF Commands, Turned
      <3>3. Calm /\ UNCHANGED ue
        BY <3>2 DEF Arrived
      <3>4. Here(p)
        BY <3>1, <3>2, <3>3, ServedHere DEF Base, ServingStates
      <3>t. TypeInv /\ Allocated /\ Arrived(s, d, "HandoverRequestAck")
        BY <3>2 DEF Base
      <3>5. /\ s # d /\ Head(x2[<<s, d>>]) \in Mail(x2[<<s, d>>])
            /\ Head(x2[<<s, d>>]).msg = "HandoverRequestAck" /\ Head(x2[<<s, d>>]).old = From(s, d)
        BY <3>t, ArrivedFacts
      <3>6. Offering(p, q)
        BY <3>1, <3>2, <3>5 DEF Offering, Offers
      <3>7. PICK m : m = HandoverCommand(p, q)
        OBVIOUS
      <3>8. m.msg = "HandoverCommand" /\ m.at = p /\ m.target = q
        BY <3>7 DEF HandoverCommand
      <3>9. NewRrc(m) /\ NewEvent(m)
        BY <3>2, <3>3, <3>4, <3>6, <3>8 DEF NewRrc, NewEvent, Completed, Here
      <3> QED
        BY <3>2, <3>7, <3>9, <1>s
    <2>3. ASSUME NEW p, Fails(s, d, p) PROVE RrcMoves
      <3>1. Calm /\ UNCHANGED ue
        BY <2>3 DEF Fails, Arrived
      <3> QED
        BY <3>1, <2>3, <1>q, <1>d, <1>r DEF Fails, ServingStates
    <2> QED
      BY <2>1, <2>2, <2>3, <1>q DEF Admits, Refuses, Ends, Cancels
  <1>4. CASE PlaceEffect
    BY <1>4, <1>q, <1>r, <1>d DEF PlaceEffect, Prepares, Times, TimesJoining, TimesLeaving, SetsUp, Switches,
       ServingStates
  <1>5. CASE Forwards
    BY <1>5, <1>q DEF Forwards
  <1> QED
    BY <1>1, <1>2, <1>3, <1>4, <1>5 DEF Effects

(* A context that is offered is known, as is one the UE was sent to.       *)
LEMMA DestKnown ==
    ASSUME Base, NEW q \in Places, Dest(q)
    PROVE  Known(q)
  <1>1. CASE ue.state = "CONNECTED_HANDOVER" /\ ue.at = q
    BY <1>1 DEF Base, Allocated, UeAllocated
  <1>2. ASSUME NEW m \in Msgs(rrc), m.msg = "HandoverCommand", m.target = q PROVE Known(q)
    BY <1>2 DEF Base, Allocated, RrcAllocated
  <1>3. ASSUME NEW p \in Places, Offering(p, q) PROVE Known(q)
    <2>1. p.cell # q.cell /\ p.cell \in Cells /\ q.cell \in Cells
      BY <1>3, PlaceTypes DEF Offering
    <2>2. PICK m \in Mail(x2[<<q.cell, p.cell>>]) : m.msg = "HandoverRequestAck" /\ m.new = q.rnti
      BY <1>3 DEF Offering, Offers
    <2>3. MailAllocated(q.cell, p.cell, m)
      BY <2>1, <2>2 DEF Base, Allocated, X2Allocated
    <2> QED
      BY <2>2, <2>3 DEF MailAllocated, Known
  <1> QED
    BY <1>1, <1>2, <1>3 DEF Dest

(* An offer is made of a new context only.                                 *)
LEMMA OffersMove ==
    ASSUME Base, Effects, NEW p \in Places, NEW q \in Places, Offering(p, q)'
    PROVE  Offering(p, q) \/ (~Known(q) /\ ctx'[q].state = "HANDOVER_JOINING")
  <1>1. /\ ctx'[p].state = "HANDOVER_PREPARATION" /\ p.cell # q.cell /\ p.cell \in Cells /\ q.cell \in Cells
        /\ \E m \in Mail(x2'[<<q.cell, p.cell>>]) :
              m.msg = "HandoverRequestAck" /\ m.old = p.rnti /\ m.new = q.rnti
    BY PlaceTypes DEF Offering, Offers
  <1>2. PICK m \in Mail(x2'[<<q.cell, p.cell>>]) :
              m.msg = "HandoverRequestAck" /\ m.old = p.rnti /\ m.new = q.rnti
    BY <1>1
  <1>3. MailMoves
    BY MailsMove DEF Base
  <1>4. m \in Mail(x2[<<q.cell, p.cell>>]) \/ NewMail(q.cell, p.cell, m)
    BY <1>1, <1>2, <1>3 DEF MailMoves
  <1>5. CASE NewMail(q.cell, p.cell, m)
    <2>1. PICK o \in Places : o.cell = q.cell /\ o.rnti = q.rnti /\ ~Known(o) /\ ctx'[o].state = "HANDOVER_JOINING"
      BY <1>2, <1>5 DEF NewMail
    <2>2. o = q
      BY <2>1, PlaceTypes
    <2> QED
      BY <2>1, <2>2
  <1>6. CASE m \in Mail(x2[<<q.cell, p.cell>>])
    <2>1. ctx[p].state = "HANDOVER_PREPARATION" \/ \E c \in Cells : Prepares(p, c)
      BY <1>1, ContextsMove DEF ContextMoves
    <2>2. Accepted(x2[<<q.cell, p.cell>>], p.rnti)
      BY <1>2, <1>6 DEF Accepted, IsAck
    <2>3. ASSUME NEW c \in Cells, Prepares(p, c) PROVE FALSE
      <3>1. ctx[p].state = "CONNECTED_NORMALLY"
        BY <2>3 DEF Prepares
      <3>2. Agreed(p, q.cell)
        BY <3>1, <1>1 DEF Base, Protocol
      <3> QED
        BY <3>1, <3>2, <2>2 DEF Agreed, Preparing
    <2> QED
      BY <2>1, <2>3, <1>1, <1>2, <1>6 DEF Offering, Offers
  <1> QED
    BY <1>4, <1>5, <1>6

(* The UE is sent nowhere but to a context that was offered.               *)
LEMMA DestMoves ==
    ASSUME Base, Effects, NEW q \in Places, Dest(q)'
    PROVE  Dest(q) \/ (~Known(q) /\ ctx'[q].state = "HANDOVER_JOINING")
  <1>m. UeMoves /\ RrcMoves
    BY UesMove, RrcsMove
  <1>i. Idle.at \notin Places /\ Idle.state = "IDLE"
    BY PlaceTypes DEF Idle
  <1>1. CASE ue'.state = "CONNECTED_HANDOVER" /\ ue'.at = q
    <2>1. UNCHANGED ue \/ \E m \in Msgs(rrc) : Commanded(m) /\ m.at = ue.at
      BY <1>1, <1>m, <1>i DEF UeMoves, Connected, Accessing, Arriving, Connecting
    <2>2. ASSUME NEW m \in Msgs(rrc), Commanded(m), m.at = ue.at PROVE Dest(q)
      BY <1>1, <2>2 DEF Commanded, Dest
    <2> QED
      BY <1>1, <2>1, <2>2 DEF Dest
  <1>2. ASSUME NEW m \in Msgs(rrc'), m.msg = "HandoverCommand", m.target = q, m.at = ue'.at PROVE Dest(q)
    <2>0. m.at \in Places
      BY <1>2 DEF Msgs, RrcMsgs
    <2>1. m \in Msgs(rrc) \/ NewRrc(m)
      BY <1>2, <1>m DEF RrcMoves
    <2>2. CASE NewRrc(m)
      BY <2>0, <2>2, <1>2 DEF NewRrc, Dest
    <2>3. CASE m \in Msgs(rrc)
      <3>0. Known(m.at) /\ ~Dest(m.at)
        BY <2>3, <1>2 DEF Base, Allocated, RrcAllocated, Serving, Rightly
      <3>1. CASE ue'.at = ue.at
        BY <2>3, <3>1, <1>2 DEF Dest
      <3>2. ASSUME NEW p \in Places, Accessing(p) PROVE FALSE
        BY <3>0, <3>2, <1>2, FreshFacts DEF Accessing, Base
      <3>3. ASSUME NEW n \in Msgs(rrc), Commanded(n), n.at = ue.at PROVE FALSE
        <4>1. n.msg = "HandoverCommand" /\ n.target = m.at
          BY <3>3, <1>2 DEF Commanded
        <4>2. Dest(m.at)
          BY <4>1, <3>3 DEF Dest
        <4> QED
          BY <4>2, <3>0
      <3> QED
        BY <2>0, <3>1, <3>2, <3>3, <1>m, <1>i, <1>2 DEF UeMoves, Arriving, Connecting
    <2> QED
      BY <2>1, <2>2, <2>3
  <1>3. ASSUME NEW p \in Places, Offering(p, q)' PROVE Dest(q) \/ (~Known(q) /\ ctx'[q].state = "HANDOVER_JOINING")
    BY <1>3, OffersMove DEF Dest
  <1> QED
    BY <1>1, <1>2, <1>3 DEF Dest

(* A UE that is somewhere stays, has its context removed, or was told to   *)
(* leave by a context that has let it go.                                  *)
LEMMA HereMoves ==
    ASSUME Base, Effects, NEW p \in Places, Here(p) \/ Removing(p)
    PROVE  Here(p)' \/ Removing(p)' \/ ctx[p].state \in Left \/ ctx'[p].state = "NONE"
  <1>1. CASE Removing(p)
    BY <1>1, RemovalIsNext DEF Base
  <1>2. CASE Here(p)
    <2>1. UeMoves
      BY UesMove
    <2>2. ue.state = "CONNECTED_NORMALLY" /\ ue.at = p
      BY <1>2 DEF Here
    <2>3. CASE UNCHANGED ue
      BY <2>2, <2>3 DEF Here
    <2>4. ASSUME NEW m \in Msgs(rrc), Commanded(m), m.at = ue.at PROVE ctx[p].state \in Left
      BY <2>2, <2>4 DEF Commanded, Base, Serving, Rightly
    <2>5. ASSUME NEW w \in Places, w = ue.at, Removing(w)' PROVE Removing(p)'
      BY <2>2, <2>5
    <2> QED
      BY <2>1, <2>2, <2>3, <2>4, <2>5 DEF UeMoves, Connected, Accessing, Arriving, Connecting
  <1> QED
    BY <1>1, <1>2

(* Served and Addressed.                                                   *)
LEMMA StaysServed ==
    ASSUME Base, Effects, TypeInv'
    PROVE  Served' /\ Addressed'
  <1>1. ASSUME NEW p \in Places, ctx'[p].state \in ServingStates PROVE Here(p)' \/ Removing(p)'
    <2>1. ctx[p].state \in ServingStates \/ (Here(p) /\ UNCHANGED ue)
      BY <1>1, ContextsMove DEF ContextMoves
    <2>2. CASE Here(p) /\ UNCHANGED ue
      BY <2>2 DEF Here
    <2>3. CASE ctx[p].state \in ServingStates
      <3>1. Here(p) \/ Removing(p)
        BY <2>3 DEF Base, Serving, Served
      <3>2. ctx[p].state \notin Left /\ ctx'[p].state # "NONE"
        BY <2>3, <1>1 DEF Left, ServingStates
      <3> QED
        BY <3>1, <3>2, HereMoves
    <2> QED
      BY <2>1, <2>2, <2>3
  <1>2. ASSUME NEW m \in RrcMsgs, rrc'["now"] = <<m>>
        PROVE  /\ m.msg \notin {"Release", "ContextRemove"} => m.at = ue'.at
               /\ m.msg = "ContextRemove" => ue' = Idle
    <2>1. UNCHANGED <<rrc, ue>> \/ NewEvent(m)
      BY <1>2, RrcsMove DEF RrcMoves
    <2>2. CASE UNCHANGED <<rrc, ue>>
      BY <2>2, <1>2 DEF Base, Serving, Addressed
    <2>3. Asking(m) => ue'.at = m.at
      <3>1. rrc'["now"] # <<>> /\ Head(rrc'["now"]) = m
        BY <1>2
      <3> QED
        BY <3>1 DEF TypeInv, OneEvent, Asking
    <2> QED
      BY <2>1, <2>2, <2>3 DEF NewEvent
  <1> QED
    BY <1>1, <1>2 DEF Served, Addressed

(* The UE comes to a place that is known by a command, or has been there.  *)
LEMMA ComesKnown ==
    ASSUME Base, Effects, NEW p \in Places, Known(p), ue'.at = p
    PROVE  \/ UNCHANGED ue
           \/ Dest(p)
           \/ \E n \in Msgs(rrc) : Connecting(n) /\ n.msg = "ConnectionSetup" /\ n.at = p
  <1>1. UeMoves
    BY UesMove
  <1>2. Idle.at \notin Places
    BY PlaceTypes DEF Idle
  <1>3. ASSUME NEW q \in Places, Accessing(q) PROVE FALSE
    BY <1>3, FreshFacts DEF Accessing, Base
  <1>4. ASSUME NEW m \in Msgs(rrc), Commanded(m), m.at = ue.at PROVE Dest(p)
    BY <1>4 DEF Commanded, Dest
  <1>5. ASSUME Arriving PROVE Dest(p)
    BY <1>5 DEF Arriving, Dest
  <1> QED
    BY <1>1, <1>2, <1>3, <1>4, <1>5 DEF UeMoves, Connecting

(* Messages that were under way.                                           *)
LEMMA OldStaysRightly ==
    ASSUME Base, Effects, NEW m \in Msgs(rrc)
    PROVE  Rightly(m)'
  <1>0. m.at \in Places /\ Known(m.at) /\ Rightly(m)
    BY DEF Base, Allocated, RrcAllocated, Serving, Msgs, RrcMsgs
  <1> DEFINE p == m.at
  <1>1. /\ ctx[p].state \in Left => ctx'[p].state \in Left
        /\ ctx'[p].state = "INITIAL_RANDOM_ACCESS" => ctx[p].state = "INITIAL_RANDOM_ACCESS"
        /\ ctx[p].state \in {"NONE", "CONNECTION_REJECTED"} => ctx'[p].state \in {"NONE", "CONNECTION_REJECTED"}
    BY <1>0, ContextsMove DEF ContextMoves
  <1>2. Dest(p)' => Dest(p)
    BY <1>0, DestMoves
  <1>3. ASSUME ue'.at = p
        PROVE  \/ UNCHANGED ue
               \/ Dest(p)
               \/ \E n \in Msgs(rrc) : Connecting(n) /\ n.msg = "ConnectionSetup" /\ n.at = p
    BY <1>3, <1>0, ComesKnown
  <1>4. ASSUME m.msg \in Completed PROVE ctx'[p].state \in Left \/ Here(p)' \/ Removing(p)'
    <2>1. ctx[p].state \in Left \/ Here(p) \/ Removing(p)
      BY <1>0, <1>4 DEF Rightly
    <2>2. ASSUME Here(p) \/ Removing(p) PROVE Here(p)' \/ Removing(p)' \/ ctx[p].state \in Left \/ ctx'[p].state = "NONE"
      BY <2>2, <1>0, HereMoves
    <2> QED
      BY <2>1, <2>2, <1>1 DEF Left
  <1>5. ASSUME m.msg = "HandoverCommand"
        PROVE  /\ ctx'[p].state \in Left /\ ~Dest(p)' /\ p.cell # m.target.cell
               /\ ue'.at = p => ue'.state = "CONNECTED_NORMALLY"
    <2>1. /\ ctx[p].state \in Left /\ ~Dest(p) /\ p.cell # m.target.cell
          /\ ue.at = p => ue.state = "CONNECTED_NORMALLY"
      BY <1>0, <1>5 DEF Rightly
    <2>2. ASSUME ue'.at = p PROVE ue'.state = "CONNECTED_NORMALLY"
      BY <2>1, <2>2, <1>3 DEF Connecting
    <2> QED
      BY <2>1, <2>2, <1>1, <1>2
  <1>6. ASSUME m.msg = "ConnectionRequest", ctx'[p].state = "INITIAL_RANDOM_ACCESS", ue'.at = p
        PROVE  ue'.state = "IDLE_CONNECTING"
    <2>1. ctx[p].state = "INITIAL_RANDOM_ACCESS" /\ (ue.at = p => ue.state = "IDLE_CONNECTING")
      BY <1>0, <1>1, <1>6 DEF Rightly
    <2>2. ~Dest(p)
      BY <2>1, <1>0 DEF Base, Serving, NewIsNoTarget
    <2>3. ASSUME NEW n \in Msgs(rrc), n.msg = "ConnectionSetup", n.at = p PROVE FALSE
      BY <2>1, <2>3 DEF Base, Serving, Rightly
    <2> QED
      BY <2>1, <2>2, <2>3, <1>3, <1>6
  <1>7. ASSUME m.msg = "ConnectionSetup" PROVE ctx'[p].state # "INITIAL_RANDOM_ACCESS"
    BY <1>0, <1>1, <1>7 DEF Rightly
  <1>8. ASSUME m.msg = "ConnectionReject"
        PROVE  /\ ctx'[p].state \in {"NONE", "CONNECTION_REJECTED"} /\ ~Dest(p)'
               /\ ue'.at = p => ue'.state = "IDLE_CONNECTING"
               /\ \A n \in Msgs(rrc') : n.msg = "ConnectionSetup" => n.at # p
    <2>1. /\ ctx[p].state \in {"NONE", "CONNECTION_REJECTED"} /\ ~Dest(p)
          /\ ue.at = p => ue.state = "IDLE_CONNECTING"
          /\ \A n \in Msgs(rrc) : n.msg = "ConnectionSetup" => n.at # p
      BY <1>0, <1>8 DEF Rightly
    <2>2. ASSUME ue'.at = p PROVE ue'.state = "IDLE_CONNECTING"
      BY <2>1, <2>2, <1>3
    <2>3. ASSUME NEW n \in Msgs(rrc'), n.msg = "ConnectionSetup", n.at = p PROVE FALSE
      <3>1. n \in Msgs(rrc) \/ NewRrc(n)
        BY RrcsMove DEF RrcMoves
      <3> QED
        BY <3>1, <2>1, <2>3 DEF NewRrc
    <2> QED
      BY <2>1, <2>2, <2>3, <1>1, <1>2
  <1> QED
    BY <1>4, <1>5, <1>6, <1>7, <1>8 DEF Rightly

(* Messages that are sent.                                                 *)
LEMMA NewIsRightly ==
    ASSUME Base, Effects, NEW m \in Msgs(rrc'), m \notin Msgs(rrc)
    PROVE  Rightly(m)'
  <1>0. m.at \in Places /\ NewRrc(m)
    BY RrcsMove DEF RrcMoves, Msgs, RrcMsgs
  <1> DEFINE p == m.at
  <1>k. \A q \in Places : ctx[q].state # "NONE" => Known(q)
    BY DEF Base, Allocated, CtxAllocated
  <1>1. ASSUME m.msg \in Completed PROVE Here(p)'
    BY <1>0, <1>1 DEF NewRrc, Here
  <1>2. ASSUME m.msg = "HandoverCommand"
        PROVE  /\ ctx'[p].state \in Left /\ ~Dest(p)' /\ p.cell # m.target.cell
               /\ ue'.at = p => ue'.state = "CONNECTED_NORMALLY"
    <2>1. /\ UNCHANGED ue /\ Here(p) /\ Offering(p, m.target)
          /\ ctx'[p].state = "HANDOVER_LEAVING"
      BY <1>0, <1>2 DEF NewRrc
    <2>2. Known(p) /\ ~Dest(p) /\ p.cell # m.target.cell
      BY <2>1, <1>0, <1>k DEF Offering, Base, Serving, NewIsNoTarget
    <2>3. ~Dest(p)'
      BY <2>2, <1>0, DestMoves
    <2> QED
      BY <2>1, <2>2, <2>3 DEF Left, Here
  <1>3. ASSUME m.msg = "ConnectionRequest" PROVE ue'.state = "IDLE_CONNECTING"
    BY <1>0, <1>3 DEF NewRrc
  <1>4. ASSUME m.msg = "ConnectionSetup" PROVE ctx'[p].state # "INITIAL_RANDOM_ACCESS"
    BY <1>0, <1>4 DEF NewRrc
  <1>5. ASSUME m.msg = "ConnectionReject"
        PROVE  /\ ctx'[p].state \in {"NONE", "CONNECTION_REJECTED"} /\ ~Dest(p)'
               /\ ue'.at = p => ue'.state = "IDLE_CONNECTING"
               /\ \A n \in Msgs(rrc') : n.msg = "ConnectionSetup" => n.at # p
    <2>1. /\ UNCHANGED ue
          /\ ctx[p].state = "INITIAL_RANDOM_ACCESS" /\ ctx'[p].state = "CONNECTION_REJECTED"
          /\ \E n \in Msgs(rrc) : n.msg = "ConnectionRequest" /\ n.at = p
      BY <1>0, <1>5 DEF NewRrc
    <2>2. Known(p) /\ ~Dest(p)
      BY <2>1, <1>0, <1>k DEF Base, Serving, NewIsNoTarget
    <2>3. ~Dest(p)'
      BY <2>2, <1>0, DestMoves
    <2>4. ue'.at = p => ue'.state = "IDLE_CONNECTING"
      BY <2>1 DEF Base, Serving, Rightly
    <2>5. ASSUME NEW n \in Msgs(rrc'), n.msg = "ConnectionSetup", n.at = p PROVE FALSE
      <3>1. n \in Msgs(rrc) \/ NewRrc(n)
        BY RrcsMove DEF RrcMoves
      <3>2. CASE n \in Msgs(rrc)
        BY <3>2, <2>1, <2>5 DEF Base, Serving, Rightly
      <3> QED
        BY <3>1, <3>2, <2>1, <2>5 DEF NewRrc
    <2> QED
      BY <2>1, <2>3, <2>4, <2>5
  <1> QED
    BY <1>1, <1>2, <1>3, <1>4, <1>5 DEF Rightly

(* Nobody is sent to a context that has just been created, or to where the *)
(* UE is.                                                                  *)
LEMMA StaysNoTarget ==
    ASSUME Base, Effects, \A m \in Msgs(rrc') : Rightly(m)'
    PROVE  NewIsNoTarget'
  <1>d. ASSUME NEW p \in Places, Dest(p)' PROVE (Dest(p) /\ Known(p)) \/ (~Known(p) /\ ctx'[p].state = "HANDOVER_JOINING")
    BY <1>d, DestMoves, DestKnown
  <1>1. ASSUME NEW p \in Places, ctx'[p].state = "INITIAL_RANDOM_ACCESS", Dest(p)' PROVE FALSE
    <2>1. Dest(p) /\ Known(p)
      BY <1>1, <1>d
    <2>2. ctx[p].state = "INITIAL_RANDOM_ACCESS"
      BY <2>1, <1>1, ContextsMove DEF ContextMoves
    <2> QED
      BY <2>1, <2>2 DEF Base, Serving, NewIsNoTarget
  <1>2. ASSUME NEW p \in Places, Here(p)', Dest(p)' PROVE FALSE
    <2>0. ue'.state = "CONNECTED_NORMALLY" /\ ue'.at = p
      BY <1>2 DEF Here
    <2>1. UeMoves
      BY UesMove
    <2>2. CASE UNCHANGED ue
      <3>1. Here(p) /\ Known(p)
        BY <2>0, <2>2 DEF Here, Base, Allocated, UeAllocated
      <3> QED
        BY <3>1, <1>2, <1>d DEF Base, Serving, NewIsNoTarget
    <2>3. ASSUME NEW q \in Places, Accessing(q) PROVE FALSE
      <3>1. q = p /\ ctx'[q].state = "INITIAL_RANDOM_ACCESS"
        BY <2>0, <2>3 DEF Accessing, Turned
      <3> QED
        BY <3>1, <1>1, <1>2
    <2>4. ASSUME Arriving \/ \E m \in Msgs(rrc) : Connecting(m) PROVE FALSE
      <3>1. /\ ue.at = p /\ ue.state # "CONNECTED_NORMALLY"
            /\ \A q : ~Removing(q)
        <4>1. CASE Arriving
          BY <2>0, <4>1, CalmFacts DEF Arriving
        <4>2. ASSUME NEW m \in Msgs(rrc), Connecting(m) PROVE \A q : ~Removing(q)
          BY <4>2, HeardFacts DEF Connecting, Msgs
        <4>3. ASSUME NEW m \in Msgs(rrc), Connecting(m) PROVE ue.at = p /\ ue.state # "CONNECTED_NORMALLY"
          BY <2>0, <4>3 DEF Connecting
        <4> QED
          BY <2>4, <4>1, <4>2, <4>3
      <3>2. Known(p)
        BY <3>1 DEF Base, Allocated, UeAllocated
      <3>3. ASSUME NEW m \in Msgs(rrc'), m.msg = "HandoverCommand", m.target = p, m.at = ue'.at PROVE FALSE
        <4>1. m.at.cell # m.target.cell
          BY <3>3 DEF Rightly
        <4> QED
          BY <4>1, <3>3, <2>0
      <3>4. ASSUME NEW q \in Places, Offering(q, p)' PROVE FALSE
        <4>1. Offering(q, p)
          BY <3>4, <3>2, OffersMove
        <4>2. ctx[q].state \in ServingStates
          BY <4>1 DEF Offering, ServingStates
        <4> QED
          BY <4>2, <3>1 DEF Base, Serving, Served, Here
      <3> QED
        BY <1>2, <2>0, <3>3, <3>4 DEF Dest
    <2> QED
      BY <2>0, <2>1, <2>2, <2>3, <2>4 DEF UeMoves, Connected, Commanded, Idle
  <1> QED
    BY <1>1, <1>2 DEF NewIsNoTarget

(* Every step keeps what serving needs.                                    *)
LEMMA ServingStep ==
    ASSUME Base, Effects, TypeInv'
    PROVE  Serving'
  <1>1. Served' /\ Addressed'
    BY StaysServed
  <1>2. \A m \in Msgs(rrc') : Rightly(m)'
    BY OldStaysRightly, NewIsRightly
  <1>3. NewIsNoTarget'
    BY <1>2, StaysNoTarget
  <1> QED
    BY <1>1, <1>2, <1>3 DEF Serving

(* Nobody is served and nothing is under way at first.                     *)
LEMMA ServingInit == Init => Serving
  <1> SUFFICES ASSUME Init PROVE Serving
    OBVIOUS
  <1>1. /\ ue = Idle /\ ctx = [p \in Places |-> NoContext]
        /\ rrc = [channel \in {"now", "down", "up"} |-> <<>>]
    BY DEF Init
  <1>2. rrc["now"] = <<>> /\ Msgs(rrc) = {}
    BY <1>1 DEF Msgs, Channels
  <1>3. \A p \in Places : ctx[p].state = "NONE"
    BY <1>1 DEF NoContext
  <1>4. ue.state = "IDLE"
    BY <1>1 DEF Idle
  <1> QED
    BY <1>2, <1>3, <1>4 DEF Serving, Served, Addressed, NewIsNoTarget, ServingStates, Here

(* Every step keeps them all.                                              *)
LEMMA BaseStep ==
    ASSUME Base, [Next]_vars
    PROVE  Base'
  <1>1. Effects
    BY StepEffects DEF Base
  <1>2. TypeInv'
    BY StepTypes DEF Base
  <1>3. Allocated'
    BY StaysAllocated DEF Base
  <1>4. Protocol'
    BY <1>1, ProtocolStep DEF Base
  <1>5. Serving'
    BY <1>1, <1>2, ServingStep
  <1> QED
    BY <1>2, <1>3, <1>4, <1>5 DEF Base

(* They hold in every state.                                               *)
LEMMA BaseHolds == Spec => []Base
  <1>1. Init => Base
    BY InitTypes, AllocatedInit, ProtocolInit, ServingInit DEF Base
  <1>2. Base /\ [Next]_vars => Base'
    BY BaseStep
  <1> QED
    BY <1>1, <1>2, PTL DEF Spec

(***************************************************************************)
(* At most one eNB serves the UE, and it is the one the UE is at.          *)
(***************************************************************************)
THEOREM ServedByOneCell == Spec => []OneServingCell
  <1>1. Base => OneServingCell
    <2>1. ASSUME Base, Settled, NEW p \in Places, ctx[p].state \in ServingStates PROVE ue.at = p
      <3>1. Calm
        BY <2>1 DEF Settled, Calm
      <3> QED
        BY <2>1, <3>1, ServedHere DEF Base, Here
    <2> QED
      BY <2>1 DEF OneServingCell
  <1> QED
    BY <1>1, BaseHolds, PTL

(***************************************************************************)
(* A context that waits for the UE to arrive elsewhere will release it.    *)
(***************************************************************************)

\* The UE is to be released now.
Releasing == \E p \in Places : Due("Release", p)
\* A target that took the UE over has told p so.
Released(p) == \E s \in Cells \ {p.cell} : Told(x2[<<s, p.cell>>], "UeContextRelease", p.rnti)
\* A context that will release a UE that does not arrive in cell c.
Supports(p, c) ==
    /\ ctx[p].state = "HANDOVER_LEAVING" /\ "leaving" \in ctx[p].timers
    /\ ctx[p].target.cell = c /\ ~Released(p)

Releases == \A p \in Places : Released(p) => ctx[p].state \in Left /\ ue.at # p /\ ~Dest(p)
Sources == \A p \in Places :
    ctx[p].state = "HANDOVER_PATH_SWITCH" => ctx[ctx[p].source].state \in Left
CommandSupported == \A m \in Msgs(rrc) :
    m.msg = "HandoverCommand" /\ ue.at = m.at => Supports(m.at, m.target.cell) \/ Releasing
SetupAwaited == \A m \in Msgs(rrc) :
    /\ m.msg = "ConnectionSetup" /\ "setup" \notin mishaps
    /\ ue.state = "IDLE_CONNECTING" /\ ue.at = m.at
    => ctx[m.at].state = "CONNECTION_SETUP"
Supported ==
    "setup" \notin mishaps /\ ue.state \in Connected =>
        \/ Releasing
        \/ ctx[ue.at].state \in ServingStates \cup {"CONNECTION_SETUP", "HANDOVER_LEAVING"}
        \/ \E p \in Places : Supports(p, ue.at.cell)
Support == Releases /\ Sources /\ CommandSupported /\ SetupAwaited /\ Supported

(* A release that is due is what happens next.                             *)
LEMMA ReleaseIsNext ==
    ASSUME TypeInv, Effects, Releasing, ue.state \in Connected
    PROVE  Releasing' \/ ue'.state \notin Connected
  <1>1. PICK m \in RrcMsgs : rrc["now"] = <<m>> /\ m.msg = "Release"
    BY DEF Releasing, Due
  <1>2. ~Calm /\ \A n : (rrc["now"] = <<n>> => n = m) /\ (Heard(n) => n = m)
    BY <1>1 DEF Calm, Heard
  <1>4. CASE UeEffect
    <2>1. Still \/ Leaves
      BY <1>2, <1>4 DEF UeEffect, Selecting, Accessing, Arriving
    <2>2. CASE Still
      BY <2>2 DEF Still, Releasing, Due
    <2>3. CASE Leaves
      BY <2>3 DEF Leaves, Idle, Connected
    <2> QED
      BY <2>1, <2>2, <2>3
  <1>5. CASE RrcEffect
    <2>1. PICK n \in RrcMsgs :
             \/ Connecting(n) \/ Rejected(n) \/ Commanded(n) \/ Replying(n) \/ Dropping(n)
             \/ Admitting(n) \/ Completing(n) \/ Reconfigures(n) \/ Removed(n)
      BY <1>5 DEF RrcEffect
    <2>2. n = m
      BY <2>1, <1>2 DEF Connecting, Rejected, Commanded, Replying, Dropping, Admitting, Completing,
         Reconfigures, Removed
    <2>3. Dropping(n)
      BY <2>1, <2>2, <1>1 DEF Connecting, Rejected, Commanded, Replying, Admitting, Completing, Reconfigures,
         Removed
    <2> QED
      BY <2>2, <2>3, <1>1, <1>2 DEF Dropping
  <1>6. CASE X2Effect
    <2>1. Calm
      <3>1. ASSUME NEW s \in Cells, NEW d \in Cells,
                   \/ \E q \in Places : Admits(s, d, q)
                   \/ Refuses(s, d)
                   \/ \E q, o \in Places : Commands(s, d, q, o)
                   \/ \E q \in Spots : Fails(s, d, q) \/ Ends(s, d, q)
                   \/ Cancels(s, d)
            PROVE  \E msg : Arrived(s, d, msg)
        BY <3>1 DEF Admits, Refuses, Commands, Fails, Ends, Cancels
      <3> QED
        BY <1>6, <3>1 DEF X2Effect, Arrived
    <2> QED
      BY <2>1, <1>2
  <1>7. CASE PlaceEffect
    BY <1>2, <1>7 DEF PlaceEffect, Prepares, Times, TimesJoining, TimesLeaving, SetsUp, Switches
  <1>8. CASE Forwards
    BY <1>2, <1>8 DEF Forwards
  <1> QED
    BY <1>4, <1>5, <1>6, <1>7, <1>8 DEF Effects

\* What becomes of a context: one that serves goes on or lets the UE leave; one
\* that is set up goes on or times out; one that let the UE leave waits,
\* releases it, or was told that it arrived; and the path is switched by one
\* that the UE has come to.
Fate(p) ==
    /\ ctx[p].state \in ServingStates =>
          ctx'[p].state \in ServingStates \cup {"HANDOVER_LEAVING"} \/ Removing(p)
    /\ ctx[p].state = "CONNECTION_SETUP" =>
          \/ ctx'[p].state = "CONNECTION_SETUP" \/ "setup" \in mishaps' \/ Removing(p)
          \/ ctx'[p].state = "ATTACH_REQUEST" /\ Here(p)
    /\ ctx[p].state = "HANDOVER_LEAVING" =>
          \/ /\ ctx'[p].state = "HANDOVER_LEAVING"
             /\ ctx'[p].target = ctx[p].target /\ ctx'[p].timers = ctx[p].timers
          \/ Releasing' \/ Released(p) \/ Removing(p)
    /\ ctx'[p].state = "HANDOVER_PATH_SWITCH" =>
          /\ ctx'[p].source = ctx[p].source
          /\ ctx[p].state = "HANDOVER_PATH_SWITCH" \/ (ctx[p].state = "HANDOVER_JOINING" /\ Here(p))

(* Nothing else.                                                           *)
LEMMA Fates ==
    ASSUME Base, Effects
    PROVE  \A q \in Places : Fate(q)
  <1> DEFINE Goal == \A q \in Places : Fate(q)
  <1>u. ASSUME UNCHANGED ctx PROVE Goal
    BY <1>u DEF Fate, ServingStates
  <1>g. ASSUME NEW p, Gone(p), ctx[p].state \in ServingStates => Removing(p),
               ctx[p].state = "CONNECTION_SETUP" => "setup" \in mishaps' \/ Removing(p),
               ctx[p].state = "HANDOVER_LEAVING" => Releasing' \/ Released(p) \/ Removing(p)
        PROVE  Goal
    <2>1. (\A q \in Places \ {p} : ctx'[q] = ctx[q]) /\ ctx'[p].state = "NONE"
      BY <1>g DEF Gone, Turned
    <2> QED
      BY <2>1, <1>g DEF Fate
  <1>e. ASSUME NEW p, NEW state, NEW target, NEW timers,
               Turned(ctx, ctx', p, state, ctx[p].source, target, timers),
               ctx[p].state # "HANDOVER_LEAVING",
               ctx[p].state \in ServingStates => state \in ServingStates \cup {"HANDOVER_LEAVING"},
               ctx[p].state = "CONNECTION_SETUP" => state = "ATTACH_REQUEST" /\ Here(p),
               state = "HANDOVER_PATH_SWITCH" => ctx[p].state = "HANDOVER_JOINING" /\ Here(p)
        PROVE  Goal
    <2>1. (\A q \in Places \ {p} : ctx'[q] = ctx[q]) /\ ctx'[p].state = state /\ ctx'[p].source = ctx[p].source
      BY <1>e DEF Turned
    <2> QED
      BY <2>1, <1>e DEF Fate
  <1>c. ASSUME NEW p, NEW states, Continues(p, states), states \subseteq ServingStates PROVE Goal
    <2>1. PICK state, timers :
             /\ Turned(ctx, ctx', p, state, ctx[p].source, ctx[p].target, timers)
             /\ ctx[p].state \in ServingStates
             /\ state \in {"CONNECTED_NORMALLY", "CONNECTION_RECONFIGURATION"}
      BY <1>c DEF Continues, Enters
    <2>2. /\ ctx[p].state # "HANDOVER_LEAVING" /\ ctx[p].state # "CONNECTION_SETUP"
          /\ state \in ServingStates /\ state # "HANDOVER_PATH_SWITCH"
      BY <2>1 DEF ServingStates
    <2>3. PICK target : target = ctx[p].target
      OBVIOUS
    <2> QED
      BY <2>1, <2>2, <2>3, <1>e
  <1>j. ASSUME NEW p, NEW timers, Enters(p, {"HANDOVER_JOINING"}, "HANDOVER_JOINING", timers) PROVE Goal
    BY <1>j, <1>e DEF Enters, ServingStates
  <1>f. ASSUME NEW p, NEW state, NEW q, NEW timers, Fresh(p), Turned(ctx, ctx', p, state, q, Nowhere, timers),
               state \in {"INITIAL_RANDOM_ACCESS", "HANDOVER_JOINING"}
        PROVE  Goal
    <2>1. p \in Places /\ ~Known(p)
      BY <1>f, FreshFacts DEF Base
    <2>2. ctx[p].state = "NONE"
      BY <2>1 DEF Base, Allocated, CtxAllocated
    <2>3. (\A o \in Places \ {p} : ctx'[o] = ctx[o]) /\ ctx'[p].state = state
      BY <1>f DEF Turned
    <2> QED
      BY <2>2, <2>3, <1>f DEF Fate, ServingStates
  <1>r. ASSUME NEW p \in Places, Raised(Rrc("Release", p)) PROVE Releasing'
    <2>1. PICK n : n = Rrc("Release", p)
      OBVIOUS
    <2>2. n.msg = "Release" /\ n.at = p /\ n \in RrcMsgs /\ rrc'["now"] = <<n>>
      BY <2>1, <1>r DEF Rrc, Raised, Said
    <2> QED
      BY <2>2 DEF Releasing, Due
  <1>1. CASE UeEffect
    BY <1>1, <1>u, <1>f DEF UeEffect, Still, Selecting, Accessing, Arriving, Leaves
  <1>2. CASE RrcEffect
    <2>1. PICK m \in RrcMsgs :
             \/ Connecting(m) \/ Rejected(m) \/ Commanded(m) \/ Replying(m) \/ Dropping(m)
             \/ Admitting(m) \/ Completing(m) \/ Reconfigures(m) \/ Removed(m)
      BY <1>2 DEF RrcEffect
    <2>2. CASE Admitting(m)
      <3>1. PICK state, timers : Enters(m.at, {"INITIAL_RANDOM_ACCESS"}, state, timers)
                /\ state \in {"CONNECTION_SETUP", "CONNECTION_REJECTED"}
        BY <2>2 DEF Admitting
      <3> QED
        BY <3>1, <1>e DEF Enters, ServingStates
    <2>3. CASE Completing(m)
      <3>1. PICK states, state : Enters(m.at, states, state, {}) /\ Heard(m) /\ m.msg \in Completed
                /\ \/ states = {"CONNECTION_SETUP"} /\ state = "ATTACH_REQUEST"
                   \/ states = {"HANDOVER_JOINING"} /\ state = "HANDOVER_PATH_SWITCH"
        BY <2>3 DEF Completing, Completed
      <3>2. m \in Msgs(rrc) /\ ~Removing(m.at)
        BY <3>1, HeardFacts DEF Completed
      <3>3. ctx[m.at].state \notin Left
        BY <3>1 DEF Enters, Left
      <3>4. Here(m.at)
        BY <3>1, <3>2, <3>3 DEF Base, Serving, Rightly
      <3> QED
        BY <3>1, <3>4, <1>e DEF Enters, ServingStates
    <2>4. CASE Reconfigures(m)
      BY <2>4, <1>c DEF Reconfigures, ServingStates
    <2>5. CASE Removed(m)
      <3>1. Removing(m.at)
        BY <2>5 DEF Removed, Removing, Due
      <3> QED
        BY <3>1, <2>5, <1>g DEF Removed
    <2> QED
      BY <2>1, <2>2, <2>3, <2>4, <2>5, <1>u DEF Connecting, Rejected, Commanded, Replying, Dropping
  <1>3. CASE X2Effect
    <2>1. PICK s, d \in Cells :
             \/ \E p \in Places : Admits(s, d, p)
             \/ Refuses(s, d)
             \/ \E p, q \in Places : Commands(s, d, p, q)
             \/ \E p \in Spots : Fails(s, d, p) \/ Ends(s, d, p)
             \/ Cancels(s, d)
      BY <1>3 DEF X2Effect
    <2>2. ASSUME NEW p, Admits(s, d, p) PROVE Goal
      BY <2>2, <1>f DEF Admits
    <2>3. ASSUME NEW p, NEW q, Commands(s, d, p, q) PROVE Goal
      <3>1. ctx[p].state = "HANDOVER_PREPARATION"
        BY <2>3, CommandsKeeps DEF Base, Preparing
      <3>2. PICK timers : Turned(ctx, ctx', p, "HANDOVER_LEAVING", ctx[p].source, q, timers)
        BY <2>3 DEF Commands
      <3> QED
        BY <3>1, <3>2, <1>e DEF ServingStates
    <2>4. ASSUME NEW p, Fails(s, d, p) PROVE Goal
      <3>1. CASE ctx[p].state = "HANDOVER_LEAVING" /\ Gone(p) /\ Raised(Rrc("Release", p))
        <4>1. Releasing'
          BY <3>1, <1>r DEF Gone
        <4> QED
          BY <4>1, <3>1, <1>g DEF ServingStates
      <3> QED
        BY <2>4, <3>1, <1>u, <1>c DEF Fails, ServingStates
    <2>7. ASSUME NEW p, Ends(s, d, p) PROVE Goal
      <3>1. CASE ctx[p].state = "HANDOVER_LEAVING" /\ Gone(p)
        <4>t. TypeInv /\ Allocated /\ Arrived(s, d, "UeContextRelease")
          BY <2>7 DEF Ends, Base
        <4>1. p.cell = d /\ p.rnti = From(s, d)
          BY <2>7 DEF Ends
        <4>2. /\ s # d /\ Head(x2[<<s, d>>]) \in Mail(x2[<<s, d>>])
              /\ Head(x2[<<s, d>>]).msg = "UeContextRelease" /\ Head(x2[<<s, d>>]).old = From(s, d)
          BY <4>t, ArrivedFacts
        <4>3. Released(p)
          BY <4>1, <4>2 DEF Released, Told
        <4> QED
          BY <4>3, <3>1, <1>g DEF ServingStates
      <3> QED
        BY <2>7, <3>1, <1>u DEF Ends
    <2>5. CASE Cancels(s, d)
      BY <2>5, <1>u, <1>j DEF Cancels
    <2>6. CASE Refuses(s, d)
      BY <2>6, <1>u DEF Refuses
    <2> QED
      BY <2>1, <2>2, <2>3, <2>4, <2>5, <2>6, <2>7
  <1>4. CASE PlaceEffect
    <2>1. PICK p \in Places :
             \/ \E c \in Cells : Prepares(p, c)
             \/ Times(p) \/ TimesJoining(p) \/ TimesLeaving(p) \/ SetsUp(p) \/ Switches(p)
      BY <1>4 DEF PlaceEffect
    <2>2. ASSUME NEW c \in Cells, Prepares(p, c) PROVE Goal
      <3>1. PICK target, timers :
               Turned(ctx, ctx', p, "HANDOVER_PREPARATION", ctx[p].source, target, timers)
        BY <2>2 DEF Prepares
      <3>2. ctx[p].state = "CONNECTED_NORMALLY"
        BY <2>2 DEF Prepares
      <3> QED
        BY <3>1, <3>2, <1>e DEF ServingStates
    <2>3. CASE SetsUp(p) \/ Switches(p)
      BY <2>3, <1>c DEF SetsUp, Switches, ServingStates
    <2>4. CASE Times(p) \/ TimesJoining(p)
      BY <2>4, <1>g DEF Times, TimesJoining, ServingStates
    <2>5. CASE TimesLeaving(p)
      BY <2>5, <1>g, <1>r DEF TimesLeaving, ServingStates
    <2> QED
      BY <2>1, <2>2, <2>3, <2>4, <2>5
  <1>5. CASE Forwards
    BY <1>5, <1>u, <1>j DEF Forwards
  <1> QED
    BY <1>1, <1>2, <1>3, <1>4, <1>5 DEF Effects

(* The path was switched by a context that the UE is at, which serves on.  *)
LEMMA SwitchFacts ==
    ASSUME Base, NEW q \in Places, Switches(q)
    PROVE  /\ ctx[q].state = "HANDOVER_PATH_SWITCH" /\ Here(q) /\ UNCHANGED ue
           /\ ctx'[q].state \in ServingStates
           /\ ctx[q].source \in Places /\ ctx[q].source.cell # q.cell
  <1>1. ctx[q].state = "HANDOVER_PATH_SWITCH" /\ UNCHANGED ue /\ Calm
    BY DEF Switches, Continues, Enters
  <1>2. Here(q)
    BY <1>1, ServedHere DEF Base, ServingStates
  <1>3. ctx'[q].state \in {"CONNECTED_NORMALLY", "CONNECTION_RECONFIGURATION"}
    BY DEF Switches, Continues, Enters, Turned
  <1>4. ctx[q].source \in Places /\ ctx[q].source.cell # q.cell
    BY <1>1 DEF Base, Allocated, CtxAllocated, Known
  <1> QED
    BY <1>1, <1>2, <1>3, <1>4 DEF ServingStates

(* A context is told that the UE arrived by the one it arrived in.         *)
LEMMA ReleasedMoves ==
    ASSUME Base, Effects, NEW p \in Places, Released(p)'
    PROVE  (Released(p) /\ Known(p)) \/ \E q \in Places : Switches(q) /\ ctx[q].source = p
  <1>1. \E s \in Cells \ {p.cell} : \E m \in Mail(x2'[<<s, p.cell>>]) : m.msg = "UeContextRelease" /\ m.old = p.rnti
    BY DEF Released, Told
  <1>2. PICK s \in Cells \ {p.cell} : \E m \in Mail(x2'[<<s, p.cell>>]) : m.msg = "UeContextRelease" /\ m.old = p.rnti
    BY <1>1
  <1>3. PICK m \in Mail(x2'[<<s, p.cell>>]) : m.msg = "UeContextRelease" /\ m.old = p.rnti
    BY <1>2
  <1>4. s \in Cells /\ p.cell \in Cells /\ s # p.cell
    BY <1>2, PlaceTypes
  <1>5. MailMoves
    BY MailsMove DEF Base
  <1>6. m \in Mail(x2[<<s, p.cell>>]) \/ NewMail(s, p.cell, m)
    BY <1>3, <1>4, <1>5 DEF MailMoves
  <1>7. CASE m \in Mail(x2[<<s, p.cell>>])
    <2>1. MailAllocated(s, p.cell, m)
      BY <1>4, <1>7 DEF Base, Allocated, X2Allocated
    <2>2. Known(p)
      BY <2>1, <1>3 DEF MailAllocated, Known
    <2> QED
      BY <2>2, <1>2, <1>3, <1>7 DEF Released, Told
  <1>8. CASE NewMail(s, p.cell, m)
    <2>1. PICK q \in Places : Switches(q) /\ ctx[q].source.cell = p.cell /\ ctx[q].source.rnti = p.rnti
      BY <1>3, <1>8 DEF NewMail
    <2>2. ctx[q].source \in Places
      BY <2>1, SwitchFacts
    <2>3. ctx[q].source = p
      BY <2>1, <2>2, PlaceTypes
    <2> QED
      BY <2>1, <2>3
  <1> QED
    BY <1>6, <1>7, <1>8

(* A context that was told so is not used again.                           *)
LEMMA StaysReleases ==
    ASSUME Base, Support, Effects
    PROVE  Releases'
  <1>1. ASSUME NEW p \in Places, Released(p), Known(p) PROVE ctx'[p].state \in Left /\ ue'.at # p /\ ~Dest(p)'
    <2>1. ctx[p].state \in Left /\ ue.at # p /\ ~Dest(p)
      BY <1>1 DEF Support, Releases
    <2>2. ctx'[p].state \in Left
      BY <2>1, <1>1, ContextsMove DEF ContextMoves
    <2>3. ~Dest(p)'
      BY <2>1, <1>1, DestMoves
    <2>4. ASSUME ue'.at = p PROVE FALSE
      BY <2>1, <2>4, <1>1, ComesKnown DEF Connecting
    <2> QED
      BY <2>2, <2>3, <2>4
  <1>2. ASSUME NEW p \in Places, NEW q \in Places, Switches(q), ctx[q].source = p
        PROVE  ctx'[p].state \in Left /\ ue'.at # p /\ ~Dest(p)'
    <2>1. ctx[q].state = "HANDOVER_PATH_SWITCH" /\ Here(q) /\ UNCHANGED ue /\ p.cell # q.cell
      BY <1>2, SwitchFacts
    <2>2. ctx[p].state \in Left /\ Known(p)
      BY <1>2, <2>1 DEF Support, Sources, Base, Allocated, CtxAllocated
    <2>3. ctx'[p].state \in Left
      BY <2>2, ContextsMove DEF ContextMoves
    <2>4. ue'.at # p
      BY <2>1 DEF Here
    <2>5. ASSUME NEW m \in Msgs(rrc), m.msg = "HandoverCommand", m.at = ue.at PROVE FALSE
      <3>1. ctx[q].state \in Left
        BY <2>1, <2>5 DEF Here, Base, Serving, Rightly
      <3> QED
        BY <3>1, <2>1 DEF Left
    <2>6. ASSUME NEW o \in Places, Offering(o, p) PROVE FALSE
      <3>1. ctx[o].state = "HANDOVER_PREPARATION" /\ ctx[o].state \in ServingStates
        BY <2>6 DEF Offering, ServingStates
      <3>2. Calm
        BY <1>2 DEF Switches
      <3>3. Here(o)
        BY <3>1, <3>2, ServedHere DEF Base
      <3> QED
        BY <3>1, <3>3, <2>1 DEF Here
    <2>7. ~Dest(p)
      BY <2>1, <2>5, <2>6 DEF Dest, Here
    <2>8. ~Dest(p)'
      BY <2>2, <2>7, DestMoves
    <2> QED
      BY <2>3, <2>4, <2>8
  <1> QED
    BY <1>1, <1>2, ReleasedMoves DEF Releases

(* The path is switched once the source let the UE leave.                  *)
LEMMA StaysSources ==
    ASSUME Base, Support, Effects
    PROVE  Sources'
  <1>1. ASSUME NEW p \in Places, ctx'[p].state = "HANDOVER_PATH_SWITCH" PROVE ctx'[ctx'[p].source].state \in Left
    <2>0. PICK o : o = ctx[p].source
      OBVIOUS
    <2>1. /\ ctx'[p].source = o
          /\ ctx[p].state = "HANDOVER_PATH_SWITCH" \/ (ctx[p].state = "HANDOVER_JOINING" /\ Here(p))
      BY <1>1, <2>0, Fates DEF Fate
    <2>2. Known(o) /\ o \in Places /\ o.cell # p.cell
      BY <2>0, <2>1 DEF Base, Allocated, CtxAllocated, Known
    <2>3. ctx[o].state \in Left
      <3>1. CASE ctx[p].state = "HANDOVER_PATH_SWITCH"
        BY <3>1, <2>0 DEF Support, Sources
      <3>2. ASSUME ctx[p].state = "HANDOVER_JOINING", Here(p), ctx[o].state \notin Left PROVE FALSE
        <4>1. ctx[o].state = "HANDOVER_PREPARATION"
          BY <3>2, <2>0 DEF Base, Protocol, Expected, Preparing
        <4>2. Here(o) \/ Removing(o)
          BY <4>1, <2>2 DEF Base, Serving, Served, ServingStates
        <4>3. ~Here(o)
          BY <3>2, <2>2 DEF Here
        <4>4. Removing(o)
          BY <4>2, <4>3
        <4>5. ue = Idle
          BY <4>4 DEF Removing, Due, Base, Serving, Addressed
        <4> QED
          BY <4>5, <3>2 DEF Here, Idle
      <3> QED
        BY <3>1, <3>2, <2>1
    <2> QED
      BY <2>1, <2>2, <2>3, ContextsMove DEF ContextMoves
  <1> QED
    BY <1>1 DEF Sources

(* While the UE is connected no removal is due.                            *)
LEMMA NoRemoval ==
    ASSUME Base, ue.state \in Connected \cup {"IDLE_CONNECTING"}
    PROVE  \A p : ~Removing(p)
  <1>1. ASSUME NEW p, Removing(p) PROVE FALSE
    <2>1. ue = Idle
      BY <1>1 DEF Removing, Due, Base, Serving, Addressed
    <2> QED
      BY <2>1 DEF Idle, Connected
  <1> QED
    BY <1>1

(* A context that will release the UE does, or hears that it arrived.      *)
LEMMA SupportsMove ==
    ASSUME Base, Effects, NEW p \in Places, NEW c, Supports(p, c), ue.state \in Connected
    PROVE  Supports(p, c)' \/ Releasing' \/ (Released(p)' /\ \E q \in Places : Switches(q))
  <1>1. /\ ctx[p].state = "HANDOVER_LEAVING" /\ "leaving" \in ctx[p].timers
        /\ ctx[p].target.cell = c /\ ~Released(p)
    BY DEF Supports
  <1>2. ~Removing(p)
    BY NoRemoval
  <1>3. \/ /\ ctx'[p].state = "HANDOVER_LEAVING"
           /\ ctx'[p].target = ctx[p].target /\ ctx'[p].timers = ctx[p].timers
        \/ Releasing'
    BY <1>1, <1>2, Fates DEF Fate
  <1>4. Released(p)' => \E q \in Places : Switches(q)
    BY <1>1, ReleasedMoves
  <1> QED
    BY <1>1, <1>3, <1>4 DEF Supports

(* The UE that is told to leave will be released by the context that told  *)
(* it, if it does not arrive.                                              *)
LEMMA StaysCommandSupported ==
    ASSUME Base, Support, Effects, Releases'
    PROVE  CommandSupported'
  <1> SUFFICES ASSUME NEW m \in Msgs(rrc'), m.msg = "HandoverCommand", ue'.at = m.at
               PROVE  Supports(m.at, m.target.cell)' \/ Releasing'
    BY DEF CommandSupported
  <1>0. m.at \in Places
    BY DEF Msgs, RrcMsgs
  <1>1. ~Released(m.at)'
    BY <1>0 DEF Releases
  <1>2. m \in Msgs(rrc) \/ NewRrc(m)
    BY RrcsMove DEF RrcMoves
  <1>3. CASE NewRrc(m)
    BY <1>1, <1>3 DEF NewRrc, Supports
  <1>4. CASE m \in Msgs(rrc)
    <2>1. Known(m.at) /\ ~Dest(m.at) /\ (ue.at = m.at => ue.state = "CONNECTED_NORMALLY")
      BY <1>4 DEF Base, Allocated, RrcAllocated, Serving, Rightly
    <2>2. UNCHANGED ue
      BY <2>1, <1>0, ComesKnown DEF Connecting
    <2>3. ue.at = m.at /\ ue.state \in Connected /\ ue'.state \in Connected
      BY <2>1, <2>2 DEF Connected
    <2>4. Supports(m.at, m.target.cell) \/ Releasing
      BY <2>3, <1>4 DEF Support, CommandSupported
    <2>5. CASE Releasing
      BY <2>3, <2>5, ReleaseIsNext DEF Base
    <2>6. CASE Supports(m.at, m.target.cell)
      BY <2>3, <2>6, <1>0, <1>1, SupportsMove
    <2> QED
      BY <2>4, <2>5, <2>6
  <1> QED
    BY <1>2, <1>3, <1>4

(* A context that accepts the UE waits for it until it times out.          *)
LEMMA StaysSetupAwaited ==
    ASSUME Base, Support, Effects, mishaps \subseteq mishaps'
    PROVE  SetupAwaited'
  <1> SUFFICES ASSUME NEW m \in Msgs(rrc'), m.msg = "ConnectionSetup", "setup" \notin mishaps',
                      ue'.state = "IDLE_CONNECTING", ue'.at = m.at
               PROVE  ctx'[m.at].state = "CONNECTION_SETUP"
    BY DEF SetupAwaited
  <1>0. m.at \in Places
    BY DEF Msgs, RrcMsgs
  <1>1. m \in Msgs(rrc) \/ NewRrc(m)
    BY RrcsMove DEF RrcMoves
  <1>2. CASE NewRrc(m)
    BY <1>2 DEF NewRrc
  <1>3. CASE m \in Msgs(rrc)
    <2>1. Known(m.at)
      BY <1>3 DEF Base, Allocated, RrcAllocated
    <2>2. UeMoves
      BY UesMove
    <2>3. ASSUME NEW p \in Places, Accessing(p) PROVE FALSE
      BY <2>1, <2>3, FreshFacts DEF Accessing, Base
    <2>4. UNCHANGED ue
      BY <1>0, <2>2, <2>3 DEF UeMoves, Arriving, Connecting, Commanded, Idle
    <2>5. ctx[m.at].state = "CONNECTION_SETUP" /\ ue.state = "IDLE_CONNECTING"
      BY <2>4, <1>3 DEF Support, SetupAwaited
    <2>6. ~Removing(m.at) /\ ~Here(m.at)
      BY <2>5, NoRemoval DEF Here
    <2> QED
      BY <1>0, <2>5, <2>6, Fates DEF Fate
  <1> QED
    BY <1>1, <1>2, <1>3

(* A connected UE is served, or will be released.                          *)
LEMMA StaysSupported ==
    ASSUME Base, Support, Effects, mishaps \subseteq mishaps'
    PROVE  Supported'
  <1> SUFFICES ASSUME "setup" \notin mishaps', ue'.state \in Connected
               PROVE  \/ Releasing'
                      \/ ctx'[ue'.at].state \in ServingStates \cup {"CONNECTION_SETUP", "HANDOVER_LEAVING"}
                      \/ \E p \in Places : Supports(p, ue.at.cell)'
    BY DEF Supported
  <1> DEFINE Goal == \/ Releasing'
                     \/ ctx'[ue'.at].state \in ServingStates \cup {"CONNECTION_SETUP", "HANDOVER_LEAVING"}
                     \/ \E p \in Places : Supports(p, ue.at.cell)'
  <1>0. "setup" \notin mishaps
    OBVIOUS
  <1>1. UeMoves
    BY UesMove
  <1>s. ASSUME NEW p \in Places, NEW c, Supports(p, c), ue.state \in Connected, ue'.at.cell = c PROVE Goal
    <2>1. Supports(p, c)' \/ Releasing' \/ (Released(p)' /\ \E q \in Places : Switches(q))
      BY <1>s, SupportsMove
    <2>2. ASSUME NEW q \in Places, Switches(q) PROVE Goal
      <3>1. ctx'[q].state \in ServingStates /\ Here(q) /\ UNCHANGED ue
        BY <2>2, SwitchFacts
      <3>2. ue'.at = q
        BY <3>1 DEF Here
      <3> QED
        BY <3>1, <3>2
    <2>3. ASSUME Supports(p, c)' PROVE Goal
      <3>1. PICK w : w = ue'.at.cell
        OBVIOUS
      <3>2. w = c
        BY <3>1, <1>s
      <3> QED
        BY <1>s, <2>3, <3>1, <3>2 DEF Supports
    <2> QED
      BY <2>1, <2>2, <2>3
  <1>2. ASSUME ue.state \in Connected, ue'.at = ue.at PROVE Goal
    <2>0. PICK w : w = ue.at
      OBVIOUS
    <2>1. w \in Places /\ ~Removing(w) /\ ue'.at = w
      BY <1>2, <2>0, NoRemoval DEF Base, TypeInv, UeTyped, Connected
    <2>2. \/ Releasing
          \/ ctx[w].state \in ServingStates \cup {"CONNECTION_SETUP", "HANDOVER_LEAVING"}
          \/ \E p \in Places : Supports(p, ue.at.cell)
      BY <1>0, <1>2, <2>0 DEF Support, Supported
    <2>3. CASE Releasing
      BY <2>3, <1>2, ReleaseIsNext DEF Base
    <2>4. CASE ctx[w].state \in ServingStates
      <3>1. ctx'[w].state \in ServingStates \cup {"HANDOVER_LEAVING"}
        BY <2>1, <2>4, Fates DEF Fate
      <3> QED
        BY <3>1, <2>1
    <2>5. CASE ctx[w].state = "CONNECTION_SETUP"
      <3>1. ctx'[w].state \in {"CONNECTION_SETUP", "ATTACH_REQUEST"}
        BY <2>1, <2>5, Fates DEF Fate
      <3> QED
        BY <3>1, <2>1 DEF ServingStates
    <2>6. CASE ctx[w].state = "HANDOVER_LEAVING"
      <3>1. ~Released(w)
        BY <2>0, <2>1 DEF Support, Releases
      <3>2. ctx'[w].state = "HANDOVER_LEAVING" \/ Releasing'
        BY <2>1, <2>6, <3>1, Fates DEF Fate
      <3> QED
        BY <3>2, <2>1
    <2>7. ASSUME NEW p \in Places, Supports(p, ue.at.cell) PROVE Goal
      <3>1. PICK c : c = ue.at.cell
        OBVIOUS
      <3> QED
        BY <2>7, <3>1, <1>2, <1>s
    <2> QED
      BY <2>2, <2>3, <2>4, <2>5, <2>6, <2>7
  <1>3. ASSUME NEW p \in Places, Accessing(p) PROVE Goal
    <2>1. /\ ue.state = "CONNECTED_HANDOVER" /\ ctx[ue.at].state = "NONE" /\ Calm
          /\ ue'.at = p /\ p.cell = ue.at.cell
      BY <1>3 DEF Accessing, Connected
    <2>2. ~Releasing
      BY <2>1 DEF Releasing, Due, Calm
    <2>3. ctx[ue.at].state \notin ServingStates \cup {"CONNECTION_SETUP", "HANDOVER_LEAVING"}
      BY <2>1 DEF ServingStates
    <2>4. PICK q \in Places : Supports(q, ue.at.cell)
      BY <2>1, <2>2, <2>3, <1>0 DEF Support, Supported, Connected
    <2>5. PICK c : c = ue.at.cell
      OBVIOUS
    <2> QED
      BY <2>1, <2>4, <2>5, <1>s DEF Connected
  <1>4. ASSUME NEW m \in Msgs(rrc), Connecting(m) PROVE Goal
    <2>1. /\ m.msg = "ConnectionSetup" /\ ue.at = m.at /\ ue.state = "IDLE_CONNECTING"
          /\ ue'.at = ue.at /\ UNCHANGED ctx
      BY <1>4 DEF Connecting
    <2>2. ctx[m.at].state = "CONNECTION_SETUP"
      BY <2>1, <1>0 DEF Support, SetupAwaited
    <2> QED
      BY <2>1, <2>2
  <1>5. ASSUME NEW m \in Msgs(rrc), Commanded(m), m.at = ue.at PROVE Goal
    <2>1. /\ m.msg = "HandoverCommand" /\ ue.state = "CONNECTED_NORMALLY" /\ ue'.at = m.target
          /\ (Calm \/ rrc["now"] = <<m>>) /\ m.at \in Places
      BY <1>5 DEF Commanded, Heard, Msgs, RrcMsgs
    <2>2. ~Releasing
      <3>1. ASSUME NEW n \in RrcMsgs, rrc["now"] = <<n>>, n.msg = "Release" PROVE FALSE
        <4>1. ~Calm /\ (rrc["now"] = <<m>> => m = n)
          BY <3>1 DEF Calm
        <4> QED
          BY <4>1, <3>1, <2>1
      <3> QED
        BY <3>1 DEF Releasing, Due
    <2>3. Supports(m.at, m.target.cell)
      BY <2>1, <2>2, <1>5 DEF Support, CommandSupported
    <2> QED
      BY <2>1, <2>3, <1>s DEF Connected
  <1>6. ASSUME UNCHANGED ue \/ Arriving PROVE Goal
    BY <1>6, <1>2 DEF Arriving, Connected
  <1> QED
    BY <1>1, <1>3, <1>4, <1>5, <1>6 DEF UeMoves, Idle, Connected

(* Every step keeps the support.                                           *)
LEMMA SupportStep ==
    ASSUME Base, Support, Effects, mishaps \subseteq mishaps'
    PROVE  Support'
  <1>1. Releases'
    BY StaysReleases
  <1>2. Sources'
    BY StaysSources
  <1>3. CommandSupported'
    BY <1>1, StaysCommandSupported
  <1>4. SetupAwaited' /\ Supported'
    BY StaysSetupAwaited, StaysSupported
  <1> QED
    BY <1>1, <1>2, <1>3, <1>4 DEF Support

(* Nothing is under way at first.                                          *)
LEMMA SupportInit == Init => Support
  <1> SUFFICES ASSUME Init PROVE Support
    OBVIOUS
  <1>1. /\ ue = Idle /\ ctx = [p \in Places |-> NoContext] /\ x2 = [l \in Links |-> <<>>]
        /\ rrc = [channel \in {"now", "down", "up"} |-> <<>>]
    BY DEF Init
  <1>2. Msgs(rrc) = {}
    BY <1>1 DEF Msgs, Channels
  <1>3. \A p \in Places : ctx[p].state = "NONE"
    BY <1>1 DEF NoContext
  <1>4. ue.state = "IDLE"
    BY <1>1 DEF Idle
  <1>5. ASSUME NEW p \in Places, Released(p) PROVE FALSE
    <2>1. PICK s \in Cells \ {p.cell} : Mail(x2[<<s, p.cell>>]) # {}
      BY <1>5 DEF Released, Told
    <2>2. <<s, p.cell>> \in Links
      BY <2>1, PlaceTypes DEF Links
    <2>3. x2[<<s, p.cell>>] = <<>>
      BY <2>2, <1>1
    <2> QED
      BY <2>1, <2>3 DEF Mail
  <1> QED
    BY <1>2, <1>3, <1>4, <1>5 DEF Support, Releases, Sources, CommandSupported, SetupAwaited, Supported, Connected

(***************************************************************************)
(* A UE that believes it is connected is known where it is, or a context   *)
(* that it left has its leaving timer running: without a connection setup  *)
(* that timed out, nobody is stranded.                                     *)
(***************************************************************************)
THEOREM NobodyStranded == Spec => []NotStranded
  <1>1. Init => Base /\ Support
    BY InitTypes, AllocatedInit, ProtocolInit, ServingInit, SupportInit DEF Base
  <1>2. ASSUME Base /\ Support, [Next]_vars PROVE (Base /\ Support)'
    <2>1. Effects /\ mishaps \subseteq mishaps'
      BY <1>2, StepEffects DEF Base
    <2>2. Support'
      BY <1>2, <2>1, SupportStep
    <2>3. Base'
      BY <1>2, BaseStep
    <2> QED
      BY <2>2, <2>3
  <1>3. Base /\ Support => NotStranded
    <2> SUFFICES ASSUME Base, Support, "setup" \notin mishaps, Settled,
                        ue.state \in {"CONNECTED_NORMALLY", "CONNECTED_HANDOVER"}
                 PROVE  \/ /\ HasUeManager(ue.at)
                           /\ ctx[ue.at].state = "HANDOVER_JOINING" => "joining" \in ctx[ue.at].timers
                        \/ \E p \in Places : "leaving" \in ctx[p].timers /\ ctx[p].target.cell = ue.at.cell
      BY DEF NotStranded
    <2>1. ue.at \in Places
      BY DEF Base, TypeInv, UeTyped
    <2>2. ~Releasing
      BY DEF Settled, Releasing, Due
    <2>3. \/ ctx[ue.at].state \in ServingStates \cup {"CONNECTION_SETUP", "HANDOVER_LEAVING"}
          \/ \E p \in Places : Supports(p, ue.at.cell)
      BY <2>2 DEF Support, Supported, Connected
    <2>4. CASE ctx[ue.at].state \in ServingStates \cup {"CONNECTION_SETUP", "HANDOVER_LEAVING"}
      BY <2>1, <2>4 DEF HasUeManager, ServingStates
    <2>5. ASSUME NEW p \in Places, Supports(p, ue.at.cell)
          PROVE  "leaving" \in ctx[p].timers /\ ctx[p].target.cell = ue.at.cell
      BY <2>5 DEF Supports
    <2> QED
      BY <2>3, <2>4, <2>5
  <1> QED
    BY <1>1, <1>2, <1>3, PTL DEF Spec
=============================================================================
