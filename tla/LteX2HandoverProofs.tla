------------------------- MODULE LteX2HandoverProofs -------------------------
(***************************************************************************)
(* Theorems about the X2 handover, for any number of cells, RNTIs and      *)
(* attachments, the ideal and the real RRC protocol, and links to the core *)
(* network of any speed.                                                   *)
(***************************************************************************)
EXTENDS LteX2Handover, TLAPS

(***************************************************************************)
(* Types.                                                                  *)
(***************************************************************************)

Channels == {"now", "down", "up"}
UeStates == {"IDLE", "IDLE_RANDOM_ACCESS", "IDLE_CONNECTING",
             "CONNECTED_NORMALLY", "CONNECTED_HANDOVER"}
ContextStates == {"NONE", "INITIAL_RANDOM_ACCESS", "CONNECTION_SETUP",
                  "CONNECTION_REJECTED", "ATTACH_REQUEST", "CONNECTED_NORMALLY",
                  "CONNECTION_RECONFIGURATION", "HANDOVER_PREPARATION", "HANDOVER_JOINING",
                  "HANDOVER_PATH_SWITCH", "HANDOVER_LEAVING"}
Timers == {"request", "setup", "rejected", "joining", "leaving"}
Spots == [cell : Cells \cup {0}, rnti : Rntis \cup {0}]
Contexts == [state : ContextStates, source : Spots, target : Spots, pending : BOOLEAN,
             teid : Teids \cup {0}, buffer : Nat, timers : SUBSET Timers]

RrcNames == {"ConnectionRequest", "ConnectionSetup", "ConnectionReject",
             "ConnectionSetupCompleted", "Reconfiguration", "ReconfigurationCompleted",
             "HandoverCommand", "Release", "ContextRemove"}
RrcMsgs == {m \in [msg : RrcNames, at : Places, target : Spots] :
               m.msg = "HandoverCommand" => m.target \in Places}
X2Names == {"HandoverRequest", "HandoverRequestAck", "PreparationFailure",
            "UeContextRelease", "HandoverCancel", "UeData"}
X2Msgs == {m \in [msg : X2Names, old : Rntis \cup {0}, new : Rntis \cup {0}, teid : Teids \cup {0}] :
              m.msg = "HandoverRequestAck" => m.new \in Rntis}
CoreNames == {"CreateSessionRequest", "ModifyBearerRequest", "DeleteBearerCommand",
              "DeleteBearerResponse", "CreateSessionResponse", "ModifyBearerResponse",
              "DeleteBearerRequest"}
CoreMsgs == [msg : CoreNames, cell : Cells \cup {0}, teid : Teids \cup {0}]
Requests == {m \in CoreMsgs : m.msg = "CreateSessionRequest" => m.teid \in Teids}
Responses == {m \in CoreMsgs : m.msg = "CreateSessionResponse" => m.teid \in Teids}
Maps == [imsiRnti : Rntis \cup {0}, teidRnti : [Teids -> Rntis \cup {0}],
         rntiTeid : [Rntis -> Teids \cup {0}]]

\* Of each object.
CellsTyped ==
    /\ conf \in Confs
    /\ ctx \in [Places -> Contexts]
    /\ lastRnti \in [Cells -> Rntis \cup {0}]
    /\ x2uTeidInfo \in [Cells -> [Teids -> Rntis \cup {0}]]
    /\ app \in [Cells -> Maps]
LinksTyped ==
    /\ x2 \in [Links -> Seq(X2Msgs)]
    /\ rrc \in [Channels -> Seq(RrcMsgs)]
CoreTyped ==
    /\ mmeCell \in Cells \cup {0}
    /\ sgw \in [teidCount : Teids \cup {0}, enb : [Teids -> Cells \cup {0}]]
    /\ pgw \in [bearer : Teids \cup {0}, tfts : SUBSET Teids]
    /\ s11 \in Seq(CoreMsgs) /\ s5 \in Seq(Requests) /\ reply \in Seq(Responses)

\* A UE that is not idle has chosen a cell, and has an RNTI there once it has
\* asked for a connection.
UeTyped ==
    /\ ue \in [state : UeStates, at : Spots]
    /\ ue.state = "IDLE" => ue = Idle
    /\ ue.state = "IDLE_RANDOM_ACCESS" => ue.at.cell \in Cells /\ ue.at.rnti = 0
    /\ ue.state \in {"IDLE_CONNECTING", "CONNECTED_NORMALLY", "CONNECTED_HANDOVER"} => ue.at \in Places

\* There is never more than one event of zero delay, with the real protocol
\* only of the two kinds that the code schedules there too, and a UE that waits
\* for the answer to its connection request has not moved.
Asking(m) == m.msg \in {"ConnectionRequest", "ConnectionSetup", "ConnectionReject"}
Events(r) ==
    /\ Len(r["now"]) <= 1
    /\ conf.ideal => r["down"] = <<>> /\ r["up"] = <<>>
    /\ r["now"] # <<>> /\ ~conf.ideal => Head(r["now"]).msg \in {"Release", "ContextRemove"}
OneEvent ==
    /\ Events(rrc)
    /\ rrc["now"] # <<>> /\ Asking(Head(rrc["now"])) =>
          ue.state = "IDLE_CONNECTING" /\ ue.at = Head(rrc["now"]).at

TypeInv == CellsTyped /\ LinksTyped /\ CoreTyped /\ UeTyped /\ OneEvent

(* The type invariant is the conjunction of these and more.                *)
LEMMA TypesSuffice == TypeInv => TypeOK
  <1> SUFFICES ASSUME TypeInv PROVE TypeOK
    OBVIOUS
  <1>1. DOMAIN TimerState = Timers
    BY DEF TimerState, Timers
  <1>2. \A p \in Places :
          /\ ctx[p].state \in ContextStates
          /\ ctx[p].teid \in Teids \cup {0} /\ ctx[p].buffer \in Nat /\ ctx[p].pending \in BOOLEAN
          /\ ctx[p].timers \subseteq Timers
          /\ {ctx[p].source, ctx[p].target} \subseteq Spots
    BY DEF TypeInv, CellsTyped, Contexts
  <1>3. ue.state \in UeStates /\ ue.at \in Spots
    BY DEF TypeInv, UeTyped
  <1>4. pgw.bearer \in Teids \cup {0} /\ pgw.tfts \subseteq Teids
    BY DEF TypeInv, CoreTyped
  <1> QED
    BY <1>1, <1>2, <1>3, <1>4 DEF TypeInv, CellsTyped, CoreTyped, TypeOK, ContextStates, UeStates,
       Spots, Maps

(* Places and RNTIs.                                                       *)
LEMMA PlaceTypes ==
    /\ 0 \notin Cells /\ 0 \notin Rntis /\ 0 \notin Teids
    /\ Places \subseteq Spots /\ Nowhere \in Spots /\ Nowhere \notin Places
    /\ NoContext \in Contexts /\ NoContext.state = "NONE"
    /\ \A c \in Cells : [cell |-> c, rnti |-> 0] \in Spots
    /\ \A p \in Places : p.cell \in Cells /\ p.rnti \in Rntis /\ p = [cell |-> p.cell, rnti |-> p.rnti]
  BY CellsAssumption, BoundsAssumption DEF Rntis, Teids, Places, Spots, Nowhere, NoContext, Contexts,
     ContextStates, Timers

(* The next RNTI of a cell that has one left.                              *)
LEMMA NextPlaceTypes ==
    ASSUME lastRnti \in [Cells -> Rntis \cup {0}], NEW c \in Cells, ~NoRntiLeft(c)
    PROVE  /\ NextPlace(c) \in Places /\ NextPlace(c).cell = c
           /\ NextPlace(c).rnti = lastRnti[c] + 1 /\ NextPlace(c).rnti \in Rntis
  <1>1. lastRnti[c] \in 0 .. MaxRnti /\ lastRnti[c] # MaxRnti
    BY BoundsAssumption DEF Rntis, NoRntiLeft
  <1>2. lastRnti[c] + 1 \in Rntis
    BY <1>1, BoundsAssumption DEF Rntis
  <1> QED
    BY <1>2 DEF NextPlace, Places

(* New contexts.                                                           *)
LEMMA NewContextTypes ==
    ASSUME NEW state \in {"INITIAL_RANDOM_ACCESS", "HANDOVER_JOINING"}, NEW source \in Spots
    PROVE  /\ NewContext(state, source) \in Contexts
           /\ NewContext(state, source).state = state
           /\ NewContext(state, source).source = source
  <1> DEFINE t == {InitialTimer[state]}
  <1>1. t \in SUBSET Timers
    BY DEF InitialTimer, Timers
  <1> HIDE DEF t
  <1>2. NewContext(state, source) = [NoContext EXCEPT !.state = state, !.source = source, !.timers = t]
    BY DEF NewContext, t
  <1>3. NewContext(state, source) = [state |-> state, source |-> source, target |-> Nowhere,
                                     pending |-> FALSE, teid |-> 0, buffer |-> 0, timers |-> t]
    BY <1>2 DEF NoContext
  <1> QED
    BY <1>1, <1>3, PlaceTypes DEF Contexts, ContextStates

(* Messages.                                                               *)
LEMMA RrcTypes ==
    /\ \A msg \in RrcNames \ {"HandoverCommand"}, p \in Places :
          /\ Rrc(msg, p) \in RrcMsgs /\ Rrc(msg, p).msg = msg /\ Rrc(msg, p).at = p
    /\ \A p, q \in Places :
          /\ HandoverCommand(p, q) \in RrcMsgs /\ HandoverCommand(p, q).msg = "HandoverCommand"
          /\ HandoverCommand(p, q).at = p /\ HandoverCommand(p, q).target = q
    /\ \A m \in RrcMsgs : m.msg \in RrcNames /\ m.at \in Places /\ m.target \in Spots
  BY PlaceTypes DEF Rrc, HandoverCommand, RrcMsgs, RrcNames

(* The X2 messages that the handlers send are typed.                       *)
LEMMA X2Types ==
    /\ \A msg \in X2Names, old, new \in Rntis \cup {0}, teid \in Teids \cup {0} :
          /\ msg = "HandoverRequestAck" => new \in Rntis
          => X2(msg, old, new, teid) \in X2Msgs
    /\ \A msg, old, new, teid :
          /\ X2(msg, old, new, teid).msg = msg /\ X2(msg, old, new, teid).old = old
          /\ X2(msg, old, new, teid).new = new /\ X2(msg, old, new, teid).teid = teid
  BY DEF X2, X2Msgs

(* The messages of the core network are typed.                             *)
LEMMA GtpcTypes ==
    \A msg \in CoreNames, cell \in Cells \cup {0}, teid \in Teids \cup {0} :
        /\ Gtpc(msg, cell, teid) \in CoreMsgs
        /\ Gtpc(msg, cell, teid).msg = msg /\ Gtpc(msg, cell, teid).teid = teid
        /\ (msg = "CreateSessionResponse" => teid \in Teids) => Gtpc(msg, cell, teid) \in Responses
  BY DEF Gtpc, CoreMsgs, Responses

(* What is sent joins a channel at its end.                                *)
LEMMA PutTypes ==
    ASSUME NEW r \in [Channels -> Seq(RrcMsgs)], NEW ch \in Channels, NEW m \in RrcMsgs
    PROVE  /\ Put(r, ch, m) \in [Channels -> Seq(RrcMsgs)]
           /\ Put(r, ch, m)[ch] = Append(r[ch], m)
           /\ \A k \in Channels \ {ch} : Put(r, ch, m)[k] = r[k]
  BY DEF Put

(* What is received leaves it.                                             *)
LEMMA TakenTypes ==
    ASSUME rrc \in [Channels -> Seq(RrcMsgs)], NEW ch \in Channels, rrc[ch] # <<>>
    PROVE  /\ Taken(ch) \in [Channels -> Seq(RrcMsgs)]
           /\ Taken(ch)[ch] = Tail(rrc[ch])
           /\ \A k \in Channels \ {ch} : Taken(ch)[k] = rrc[k]
           /\ Head(rrc[ch]) \in RrcMsgs
  BY DEF Taken

(* The channel of a message is the air or that of the events.              *)
LEMMA ViaTypes ==
    ASSUME NEW dir \in {"down", "up"}, conf \in Confs
    PROVE  /\ Via(dir) \in Channels /\ (conf.ideal => Via(dir) = "now")
           /\ (~conf.ideal => Via(dir) = dir)
  BY ConfsAssumption DEF Via, Channels

(***************************************************************************)
(* RRC messages, under way and received.                                   *)
(***************************************************************************)

Msgs(r) == {m \in RrcMsgs : \E ch \in Channels : \E i \in 1 .. Len(r[ch]) : r[ch][i] = m}

(* A number that is not 0 and at most 1 is 1.                              *)
LEMMA AtMostOne == \A n \in Nat \ {0} : n <= 1 => n = 1 /\ n - 1 = 0
  OBVIOUS

(* Taking a message leaves no event of zero delay behind.                  *)
LEMMA Received ==
    ASSUME LinksTyped, Events(rrc), NEW ch \in Channels, rrc[ch] # <<>>,
           ch = "now" \/ rrc["now"] = <<>>
    PROVE  /\ Taken(ch) \in [Channels -> Seq(RrcMsgs)]
           /\ Events(Taken(ch)) /\ Taken(ch)["now"] = <<>>
           /\ Head(rrc[ch]) \in Msgs(rrc) /\ Msgs(Taken(ch)) \subseteq Msgs(rrc)
  <1>1. rrc \in [Channels -> Seq(RrcMsgs)] /\ "now" \in Channels
    BY DEF LinksTyped, Channels
  <1>2. /\ Taken(ch) \in [Channels -> Seq(RrcMsgs)]
        /\ Taken(ch)[ch] = Tail(rrc[ch]) /\ Head(rrc[ch]) \in RrcMsgs
        /\ \A k \in Channels \ {ch} : Taken(ch)[k] = rrc[k]
    BY <1>1, TakenTypes
  <1>3. /\ Len(rrc[ch]) \in Nat \ {0} /\ Head(rrc[ch]) = rrc[ch][1]
        /\ Len(Taken(ch)[ch]) = Len(rrc[ch]) - 1
        /\ \A i \in 1 .. Len(Taken(ch)[ch]) : Taken(ch)[ch][i] = rrc[ch][i + 1]
    BY <1>1, <1>2
  <1>4. Taken(ch)["now"] = <<>>
    <2>1. CASE ch = "now"
      <3>a. Len(rrc["now"]) <= 1
        BY DEF Events
      <3>b. Len(rrc["now"]) \in Nat \ {0}
        BY <2>1, <1>3
      <3>1. Len(rrc["now"]) = 1
        BY <3>a, <3>b, AtMostOne
      <3>2. Len(Taken(ch)["now"]) = 0
        BY <3>1, <2>1, <1>3
      <3> QED
        BY <3>2, <1>1, <1>2
    <2>2. CASE ch # "now"
      BY <2>2, <1>1, <1>2
    <2> QED
      BY <2>1, <2>2
  <1>5. Events(Taken(ch))
    <2>1. Len(Taken(ch)["now"]) <= 1
      BY <1>4
    <2>2. conf.ideal => Taken(ch)["down"] = <<>> /\ Taken(ch)["up"] = <<>>
      <3> SUFFICES ASSUME conf.ideal PROVE Taken(ch)["down"] = <<>> /\ Taken(ch)["up"] = <<>>
        OBVIOUS
      <3>1. rrc["down"] = <<>> /\ rrc["up"] = <<>>
        BY DEF Events
      <3>2. ch # "down" /\ ch # "up" /\ "down" \in Channels /\ "up" \in Channels
        BY <3>1 DEF Channels
      <3> QED
        BY <3>1, <3>2, <1>2
    <2> QED
      BY <2>1, <2>2, <1>4 DEF Events
  <1>6. Head(rrc[ch]) \in Msgs(rrc)
    <2>1. rrc[ch][1] \in RrcMsgs /\ 1 \in 1 .. Len(rrc[ch])
      BY <1>2, <1>3
    <2> QED
      BY <2>1, <1>3 DEF Msgs
  <1>7. ASSUME NEW m \in Msgs(Taken(ch)) PROVE m \in Msgs(rrc)
    <2>1. PICK k \in Channels : \E i \in 1 .. Len(Taken(ch)[k]) : Taken(ch)[k][i] = m
      BY <1>7 DEF Msgs
    <2>2. PICK i \in 1 .. Len(Taken(ch)[k]) : Taken(ch)[k][i] = m
      BY <2>1
    <2>3. m \in RrcMsgs
      BY <1>7 DEF Msgs
    <2>4. CASE k = ch
      <3>1. i + 1 \in 1 .. Len(rrc[ch]) /\ rrc[ch][i + 1] = m
        BY <2>2, <2>4, <1>3
      <3> QED
        BY <3>1, <2>3 DEF Msgs
    <2>5. CASE k # ch
      BY <2>5, <2>2, <2>3, <1>2 DEF Msgs
    <2> QED
      BY <2>4, <2>5
  <1> QED
    BY <1>2, <1>4, <1>5, <1>6, <1>7

(* What is sent where: by the protocol in use, or as one of the two events *)
(* that both protocols have.                                               *)
Carries(ch, m) ==
    \/ ch \in {Via("down"), Via("up")}
    \/ ch = "now" /\ m.msg \in {"Release", "ContextRemove"}

(* A message sent when no event is due may be the only one.                *)
LEMMA Sent ==
    ASSUME conf \in Confs, NEW r \in [Channels -> Seq(RrcMsgs)], Events(r), r["now"] = <<>>,
           NEW m \in RrcMsgs, NEW ch, Carries(ch, m)
    PROVE  /\ Put(r, ch, m) \in [Channels -> Seq(RrcMsgs)]
           /\ Events(Put(r, ch, m))
           /\ Put(r, ch, m)["now"] = IF ch = "now" THEN <<m>> ELSE <<>>
           /\ Msgs(Put(r, ch, m)) \subseteq Msgs(r) \cup {m}
  <1>1. /\ ch \in Channels /\ "now" \in Channels /\ "down" \in Channels /\ "up" \in Channels
        /\ conf.ideal => ch = "now"
        /\ ~conf.ideal /\ ch = "now" => m.msg \in {"Release", "ContextRemove"}
    BY ViaTypes DEF Carries, Channels
  <1>2. /\ Put(r, ch, m) \in [Channels -> Seq(RrcMsgs)]
        /\ Put(r, ch, m)[ch] = Append(r[ch], m)
        /\ \A k \in Channels \ {ch} : Put(r, ch, m)[k] = r[k]
    BY <1>1, PutTypes
  <1>3. Put(r, ch, m)["now"] = IF ch = "now" THEN <<m>> ELSE <<>>
    <2>1. CASE ch = "now"
      <3>1. Put(r, ch, m)["now"] = Append(<<>>, m)
        BY <2>1, <1>2
      <3> QED
        BY <3>1, <2>1
    <2>2. CASE ch # "now"
      BY <2>2, <1>1, <1>2
    <2> QED
      BY <2>1, <2>2
  <1>4. Events(Put(r, ch, m))
    <2>1. Len(Put(r, ch, m)["now"]) <= 1
      BY <1>3
    <2>2. conf.ideal => Put(r, ch, m)["down"] = <<>> /\ Put(r, ch, m)["up"] = <<>>
      BY <1>1, <1>2 DEF Events
    <2>3. Put(r, ch, m)["now"] # <<>> /\ ~conf.ideal =>
             Head(Put(r, ch, m)["now"]).msg \in {"Release", "ContextRemove"}
      <3> SUFFICES ASSUME Put(r, ch, m)["now"] # <<>>, ~conf.ideal
                   PROVE  Head(Put(r, ch, m)["now"]).msg \in {"Release", "ContextRemove"}
        OBVIOUS
      <3>1. ch = "now" /\ Put(r, ch, m)["now"] = <<m>>
        BY <1>3
      <3>2. Head(Put(r, ch, m)["now"]) = m
        BY <3>1
      <3> QED
        BY <3>1, <3>2, <1>1
    <2> QED
      BY <2>1, <2>2, <2>3 DEF Events
  <1>5. ASSUME NEW n \in Msgs(Put(r, ch, m)) PROVE n \in Msgs(r) \cup {m}
    <2>1. PICK k \in Channels : \E i \in 1 .. Len(Put(r, ch, m)[k]) : Put(r, ch, m)[k][i] = n
      BY <1>5 DEF Msgs
    <2>2. PICK i \in 1 .. Len(Put(r, ch, m)[k]) : Put(r, ch, m)[k][i] = n
      BY <2>1
    <2>3. n \in RrcMsgs
      BY <1>5 DEF Msgs
    <2>4. CASE k = ch
      <3>1. /\ Len(r[ch]) \in Nat /\ Len(Append(r[ch], m)) = Len(r[ch]) + 1
            /\ Append(r[ch], m)[Len(r[ch]) + 1] = m
            /\ \A j \in 1 .. Len(r[ch]) : Append(r[ch], m)[j] = r[ch][j]
        BY <1>1
      <3>2. n = m \/ (i \in 1 .. Len(r[ch]) /\ r[ch][i] = n)
        BY <3>1, <2>2, <2>4, <1>2
      <3> QED
        BY <3>2, <2>3, <1>1 DEF Msgs
    <2>5. CASE k # ch
      BY <2>5, <2>2, <2>3, <1>2 DEF Msgs
    <2> QED
      BY <2>4, <2>5
  <1> QED
    BY <1>2, <1>3, <1>4, <1>5

(***************************************************************************)
(* Every step keeps the types.                                             *)
(***************************************************************************)

(* What a step leaves alone keeps its type.                                *)
LEMMA Frames ==
    /\ CellsTyped /\ UNCHANGED <<conf, ctx, lastRnti, x2uTeidInfo, app>> => CellsTyped'
    /\ CoreTyped /\ UNCHANGED coreVars => CoreTyped'
    /\ LinksTyped /\ UNCHANGED <<x2, rrc>> => LinksTyped'
    /\ UeTyped /\ UNCHANGED ue => UeTyped'
    /\ OneEvent /\ UNCHANGED <<conf, ue, rrc>> => OneEvent'
  <1>1. CellsTyped /\ UNCHANGED <<conf, ctx, lastRnti, x2uTeidInfo, app>> => CellsTyped'
    BY DEF CellsTyped
  <1>2. CoreTyped /\ UNCHANGED coreVars => CoreTyped'
    BY DEF CoreTyped, coreVars
  <1>3. LinksTyped /\ UNCHANGED <<x2, rrc>> => LinksTyped'
    BY DEF LinksTyped
  <1>4. UeTyped /\ UNCHANGED ue => UeTyped'
    BY DEF UeTyped, Idle, Nowhere
  <1>5. OneEvent /\ UNCHANGED <<conf, ue, rrc>> => OneEvent'
    BY DEF OneEvent, Events, Asking
  <1> QED
    BY <1>1, <1>2, <1>3, <1>4, <1>5

(* The program ends as it is.                                              *)
LEMMA AbortTypes ==
    ASSUME TypeInv, NEW reason, Abort(reason)
    PROVE  TypeInv'
  <1>1. UNCHANGED <<conf, ue, ctx, lastRnti, x2uTeidInfo, app, coreVars, x2, rrc>>
    BY DEF Abort, ueVars
  <1> QED
    BY <1>1, Frames DEF TypeInv

(* No event is left, or one that no UE waits for.                          *)
LEMMA OneEventThen ==
    ASSUME UNCHANGED conf, Events(rrc'),
           \/ rrc'["now"] = <<>>
           \/ \E m \in RrcMsgs : rrc'["now"] = <<m>> /\
                 (Asking(m) => ue'.state = "IDLE_CONNECTING" /\ ue'.at = m.at)
    PROVE  OneEvent'
  <1>1. Events(rrc)'
    BY DEF Events
  <1>2. rrc'["now"] # <<>> /\ Asking(Head(rrc'["now"])) =>
           ue'.state = "IDLE_CONNECTING" /\ ue'.at = Head(rrc'["now"]).at
    <2>1. CASE rrc'["now"] = <<>>
      BY <2>1
    <2>2. ASSUME NEW m \in RrcMsgs, rrc'["now"] = <<m>>,
                 Asking(m) => ue'.state = "IDLE_CONNECTING" /\ ue'.at = m.at
          PROVE  Asking(Head(rrc'["now"])) => ue'.state = "IDLE_CONNECTING" /\ ue'.at = Head(rrc'["now"]).at
      <3>1. Head(rrc'["now"]) = m
        BY <2>2
      <3> QED
        BY <3>1, <2>2
    <2> QED
      BY <2>1, <2>2
  <1> QED
    BY <1>1, <1>2 DEF OneEvent, Asking

(* The UE on its own.                                                      *)
LEMMA UeStepTypes ==
    ASSUME TypeInv, UeStep
    PROVE  TypeInv'
  <1> USE DEF TypeInv
  <1>r. rrc \in [Channels -> Seq(RrcMsgs)] /\ conf \in Confs /\ Events(rrc)
    BY DEF LinksTyped, CellsTyped, OneEvent
  <1>n. ASSUME Settled, NEW m \in RrcMsgs, NEW ch, Carries(ch, m), rrc' = Put(rrc, ch, m), UNCHANGED <<x2, conf>>,
               Asking(m) => ue'.state = "IDLE_CONNECTING" /\ ue'.at = m.at
        PROVE  LinksTyped' /\ OneEvent'
    <2>1. /\ rrc' \in [Channels -> Seq(RrcMsgs)] /\ Events(rrc')
          /\ rrc'["now"] = IF ch = "now" THEN <<m>> ELSE <<>>
      BY <1>r, <1>n, Sent DEF Settled
    <2>2. LinksTyped'
      BY <2>1, <1>n DEF LinksTyped
    <2>3. OneEvent'
      BY <2>1, <1>n, OneEventThen
    <2> QED
      BY <2>2, <2>3
  <1>l. ASSUME Settled, LeaveConnectedMode(rrc), ue.at \in Places, UNCHANGED <<x2, conf>>
        PROVE  LinksTyped' /\ OneEvent' /\ UeTyped'
    <2> DEFINE m == Rrc("ContextRemove", ue.at)
    <2>1. m \in RrcMsgs /\ m.msg = "ContextRemove"
      BY <1>l, RrcTypes DEF RrcNames
    <2>2. Carries("now", m) /\ ~Asking(m)
      BY <2>1 DEF Carries, Asking
    <2>3. rrc' = Put(rrc, "now", m) /\ ue' = Idle
      BY <1>l DEF LeaveConnectedMode
    <2> HIDE DEF m
    <2>4. LinksTyped' /\ OneEvent'
      BY <2>1, <2>2, <2>3, <1>l, <1>n
    <2>5. UeTyped'
      BY <2>3, PlaceTypes DEF UeTyped, Idle, UeStates
    <2> QED
      BY <2>4, <2>5
  <1>c. ASSUME NEW c \in Cells, ~NoRntiLeft(c),
               ctx' = [ctx EXCEPT ![NextPlace(c)] = NewContext("INITIAL_RANDOM_ACCESS", Nowhere)],
               lastRnti' = [lastRnti EXCEPT ![NextPlace(c).cell] = NextPlace(c).rnti],
               UNCHANGED <<conf, x2uTeidInfo, app>>
        PROVE  CellsTyped'
    BY <1>c, NextPlaceTypes, NewContextTypes, PlaceTypes DEF CellsTyped
  <1>1. ASSUME NEW c \in Cells, SelectCell(c) PROVE TypeInv'
    <2>1. UNCHANGED <<conf, ctx, lastRnti, x2uTeidInfo, app, coreVars, x2, rrc>> /\ rrc["now"] = <<>>
      BY <1>1 DEF SelectCell, Settled
    <2>2. UeTyped'
      BY <1>1, PlaceTypes DEF SelectCell, UeTyped, UeStates
    <2>3. OneEvent'
      BY <2>1, <1>r, OneEventThen
    <2> QED
      BY <2>1, <2>2, <2>3, Frames
  <1>2. ASSUME RandomAccess PROVE TypeInv'
    <2> DEFINE p == NextPlace(ue.at.cell)
               m == Rrc("ConnectionRequest", p)
    <2>1. ue.at.cell \in Cells /\ p \in Places /\ UNCHANGED <<conf, x2uTeidInfo, app, coreVars, x2>> /\ Settled
      BY <1>2, NextPlaceTypes DEF RandomAccess, UeTyped, CellsTyped
    <2>2. m \in RrcMsgs /\ m.at = p /\ Carries(Via("up"), m)
      BY <2>1, RrcTypes DEF RrcNames, Carries
    <2>3. rrc' = Put(rrc, Via("up"), m) /\ ue' = [state |-> "IDLE_CONNECTING", at |-> p]
      BY <1>2 DEF RandomAccess
    <2>4. CellsTyped'
      BY <1>2, <2>1, <1>c DEF RandomAccess
    <2> HIDE DEF p, m
    <2>5. LinksTyped' /\ OneEvent'
      BY <2>1, <2>2, <2>3, <1>n
    <2>6. UeTyped'
      BY <2>1, <2>3, PlaceTypes DEF UeTyped, UeStates
    <2> QED
      BY <2>1, <2>4, <2>5, <2>6, Frames
  <1>3. ASSUME HandoverRandomAccess PROVE TypeInv'
    <2> DEFINE p == IF HasUeManager(ue.at) THEN ue.at ELSE NextPlace(ue.at.cell)
               m == Rrc("ReconfigurationCompleted", p)
    <2>1. ue.at \in Places /\ UNCHANGED <<conf, x2uTeidInfo, app, coreVars, x2>> /\ Settled
      BY <1>3 DEF HandoverRandomAccess, UeTyped
    <2>2. p \in Places
      <3>1. HasUeManager(ue.at) \/ ~NoRntiLeft(ue.at.cell)
        BY <1>3 DEF HandoverRandomAccess
      <3> QED
        BY <3>1, <2>1, PlaceTypes, NextPlaceTypes DEF CellsTyped
    <2>3. m \in RrcMsgs /\ m.msg = "ReconfigurationCompleted" /\ Carries(Via("up"), m)
      BY <2>2, RrcTypes DEF RrcNames, Carries
    <2>4. rrc' = Put(rrc, Via("up"), m) /\ ue' = [state |-> "CONNECTED_NORMALLY", at |-> p]
      BY <1>3 DEF HandoverRandomAccess
    <2>5. CellsTyped'
      <3>1. CASE HasUeManager(ue.at)
        <4>1. UNCHANGED <<ctx, lastRnti>>
          BY <3>1, <1>3 DEF HandoverRandomAccess
        <4> QED
          BY <4>1, <2>1, Frames
      <3>2. CASE ~HasUeManager(ue.at)
        <4>1. /\ ~NoRntiLeft(ue.at.cell)
              /\ ctx' = [ctx EXCEPT ![NextPlace(ue.at.cell)] = NewContext("INITIAL_RANDOM_ACCESS", Nowhere)]
              /\ lastRnti' = [lastRnti EXCEPT ![NextPlace(ue.at.cell).cell] = NextPlace(ue.at.cell).rnti]
          BY <3>2, <1>3 DEF HandoverRandomAccess
        <4> QED
          BY <4>1, <2>1, <1>c, PlaceTypes
      <3> QED
        BY <3>1, <3>2
    <2> HIDE DEF p, m
    <2>6. LinksTyped' /\ OneEvent'
      <3>1. ~Asking(m)
        BY <2>3 DEF Asking
      <3> QED
        BY <3>1, <2>1, <2>3, <2>4, <1>n
    <2>7. UeTyped'
      BY <2>2, <2>4, PlaceTypes DEF UeTyped, UeStates
    <2> QED
      BY <2>1, <2>5, <2>6, <2>7, Frames
  <1>4. ASSUME HandoverRandomAccessFailed \/ RadioLinkFailure PROVE TypeInv'
    <2>1. /\ Settled /\ LeaveConnectedMode(rrc)
          /\ UNCHANGED <<conf, ctx, lastRnti, x2uTeidInfo, app, coreVars, x2>>
          /\ ue.state \in {"CONNECTED_NORMALLY", "CONNECTED_HANDOVER"}
      BY <1>4 DEF HandoverRandomAccessFailed, RadioLinkFailure
    <2>2. ue.at \in Places
      BY <2>1 DEF UeTyped
    <2>3. LinksTyped' /\ OneEvent' /\ UeTyped'
      BY <2>1, <2>2, <1>l
    <2> QED
      BY <2>1, <2>3, Frames
  <1>5. ASSUME ConnectionTimeout PROVE TypeInv'
    <2>1. UNCHANGED <<conf, ctx, lastRnti, x2uTeidInfo, app, coreVars, x2, rrc>> /\ rrc["now"] = <<>>
      BY <1>5 DEF ConnectionTimeout, Settled
    <2>2. UeTyped'
      BY <1>5, PlaceTypes DEF ConnectionTimeout, UeTyped, UeStates, Idle
    <2>3. OneEvent'
      BY <2>1, <1>r, OneEventThen
    <2> QED
      BY <2>1, <2>2, <2>3, Frames
  <1> QED
    BY <1>1, <1>2, <1>3, <1>4, <1>5 DEF UeStep

(* A message is next on a channel.                                         *)
LEMMA NextRrcTypes ==
    ASSUME TypeInv, NEW ch \in Channels, NEW msg, NextRrc(ch, msg)
    PROVE  /\ rrc[ch] # <<>> /\ (ch = "now" \/ rrc["now"] = <<>>)
           /\ Head(rrc[ch]) \in RrcMsgs /\ Head(rrc[ch]) \in Msgs(rrc)
           /\ Head(rrc[ch]).msg = msg /\ Head(rrc[ch]).at \in Places
           /\ Taken(ch) \in [Channels -> Seq(RrcMsgs)] /\ Events(Taken(ch))
           /\ Taken(ch)["now"] = <<>> /\ Msgs(Taken(ch)) \subseteq Msgs(rrc)
           /\ conf \in Confs
  <1>1. /\ rrc[ch] # <<>> /\ (ch = "now" \/ rrc["now"] = <<>>)
        /\ LinksTyped /\ Events(rrc) /\ conf \in Confs /\ Head(rrc[ch]).msg = msg
    BY DEF NextRrc, TypeInv, OneEvent, CellsTyped
  <1>2. /\ Taken(ch) \in [Channels -> Seq(RrcMsgs)]
        /\ Events(Taken(ch)) /\ Taken(ch)["now"] = <<>>
        /\ Head(rrc[ch]) \in Msgs(rrc) /\ Msgs(Taken(ch)) \subseteq Msgs(rrc)
    BY <1>1, Received
  <1>3. Head(rrc[ch]) \in RrcMsgs
    BY <1>2 DEF Msgs
  <1> QED
    BY <1>1, <1>2, <1>3, RrcTypes

(* It is received, and nothing or an answer is sent.                       *)
LEMMA ReceiptTypes ==
    ASSUME TypeInv, NEW ch \in Channels, NEW msg, NextRrc(ch, msg), UNCHANGED <<conf, x2>>,
           \/ rrc' = Taken(ch)
           \/ \E m \in RrcMsgs, k \in Channels :
                 /\ Carries(k, m) /\ rrc' = Put(Taken(ch), k, m)
                 /\ (Asking(m) /\ k = "now" => ue'.state = "IDLE_CONNECTING" /\ ue'.at = m.at)
    PROVE  LinksTyped' /\ OneEvent'
  <1>1. /\ Taken(ch) \in [Channels -> Seq(RrcMsgs)] /\ Events(Taken(ch))
        /\ Taken(ch)["now"] = <<>> /\ conf \in Confs
    BY NextRrcTypes
  <1>2. CASE rrc' = Taken(ch)
    <2>1. LinksTyped'
      BY <1>1, <1>2 DEF TypeInv, LinksTyped
    <2>2. OneEvent'
      BY <1>1, <1>2, OneEventThen
    <2> QED
      BY <2>1, <2>2
  <1>3. ASSUME NEW m \in RrcMsgs, NEW k \in Channels, Carries(k, m), rrc' = Put(Taken(ch), k, m),
               Asking(m) /\ k = "now" => ue'.state = "IDLE_CONNECTING" /\ ue'.at = m.at
        PROVE  LinksTyped' /\ OneEvent'
    <2>1. /\ rrc' \in [Channels -> Seq(RrcMsgs)] /\ Events(rrc')
          /\ rrc'["now"] = IF k = "now" THEN <<m>> ELSE <<>>
      BY <1>1, <1>3, Sent
    <2>2. LinksTyped'
      BY <2>1 DEF TypeInv, LinksTyped
    <2>3. OneEvent'
      <3>1. CASE k = "now"
        BY <2>1, <1>3, <3>1, OneEventThen
      <3>2. CASE k # "now"
        BY <2>1, <3>2, OneEventThen
      <3> QED
        BY <3>1, <3>2
    <2> QED
      BY <2>2, <2>3
  <1> QED
    BY <1>2, <1>3

(* To the UE.                                                              *)
LEMMA DownTypes ==
    ASSUME TypeInv, NEW ch \in {"now", "down"},
           \/ RecvRrcConnectionSetup(ch) \/ RecvRrcConnectionReject(ch)
           \/ RecvHandoverCommand(ch) \/ RecvReconfiguration(ch)
    PROVE  TypeInv'
  <1>c. ch \in Channels /\ conf \in Confs
    BY DEF Channels, TypeInv, CellsTyped
  <1>v. Via("up") \in Channels /\ \A m : Carries(Via("up"), m)
    BY <1>c, ViaTypes DEF Carries
  <1>1. ASSUME RecvRrcConnectionSetup(ch) PROVE TypeInv'
    <2>1. CASE ue.state = "IDLE_CONNECTING"
      <3> DEFINE m == Rrc("ConnectionSetupCompleted", ue.at)
      <3>1. /\ NextRrc(ch, "ConnectionSetup")
            /\ ue' = [ue EXCEPT !.state = "CONNECTED_NORMALLY"]
            /\ rrc' = Put(Taken(ch), Via("up"), m)
            /\ UNCHANGED <<conf, ctx, lastRnti, x2uTeidInfo, app, coreVars, x2>>
        BY <1>1, <2>1 DEF RecvRrcConnectionSetup
      <3>2. ue.at \in Places /\ UeTyped'
        BY <3>1, <2>1 DEF TypeInv, UeTyped, UeStates
      <3>3. m \in RrcMsgs /\ ~Asking(m)
        <4>1. m \in RrcMsgs /\ m.msg = "ConnectionSetupCompleted"
          BY <3>2, RrcTypes DEF RrcNames
        <4> QED
          BY <4>1 DEF Asking
      <3> HIDE DEF m
      <3>4. LinksTyped' /\ OneEvent'
        BY <3>1, <3>3, <1>c, <1>v, ReceiptTypes
      <3> QED
        BY <3>1, <3>2, <3>4, Frames DEF TypeInv
    <2>2. CASE ue.state # "IDLE_CONNECTING"
      BY <1>1, <2>2, AbortTypes DEF RecvRrcConnectionSetup
    <2> QED
      BY <2>1, <2>2
  <1>2. ASSUME RecvRrcConnectionReject(ch) PROVE TypeInv'
    <2>1. /\ NextRrc(ch, "ConnectionReject") /\ ReachesUe(ch)
          /\ ue' = [state |-> "IDLE_RANDOM_ACCESS", at |-> [ue.at EXCEPT !.rnti = 0]]
          /\ rrc' = Taken(ch)
          /\ UNCHANGED <<conf, ctx, lastRnti, x2uTeidInfo, app, coreVars, x2>>
      BY <1>2 DEF RecvRrcConnectionReject
    <2>2. ue.at = Head(rrc[ch]).at
      <3>1. CASE ch = "now"
        <4>1. rrc["now"] # <<>> /\ Head(rrc["now"]).msg = "ConnectionReject"
          BY <2>1, <3>1 DEF NextRrc
        <4>2. Asking(Head(rrc["now"]))
          BY <4>1 DEF Asking
        <4> QED
          BY <4>1, <4>2, <3>1 DEF TypeInv, OneEvent
      <3>2. CASE ch # "now"
        BY <3>2, <2>1 DEF ReachesUe
      <3> QED
        BY <3>1, <3>2
    <2>3. ue.at \in Places
      BY <2>1, <2>2, <1>c, NextRrcTypes
    <2>4. ue'.state = "IDLE_RANDOM_ACCESS" /\ ue'.at = [cell |-> ue.at.cell, rnti |-> 0]
          /\ ue' = [state |-> ue'.state, at |-> ue'.at] /\ ue.at.cell \in Cells
      BY <2>1, <2>3, PlaceTypes DEF Places
    <2>5. UeTyped'
      BY <2>4, PlaceTypes DEF UeTyped, UeStates
    <2>6. LinksTyped' /\ OneEvent'
      BY <2>1, <1>c, ReceiptTypes
    <2> QED
      BY <2>1, <2>5, <2>6, Frames DEF TypeInv
  <1>3. ASSUME RecvHandoverCommand(ch) PROVE TypeInv'
    <2>1. CASE ue.state = "CONNECTED_NORMALLY"
      <3>1. /\ NextRrc(ch, "HandoverCommand")
            /\ ue' = [state |-> "CONNECTED_HANDOVER", at |-> Head(rrc[ch]).target]
            /\ rrc' = Taken(ch)
            /\ UNCHANGED <<conf, ctx, lastRnti, x2uTeidInfo, app, coreVars, x2>>
        BY <1>3, <2>1 DEF RecvHandoverCommand
      <3>2. Head(rrc[ch]) \in RrcMsgs /\ Head(rrc[ch]).msg = "HandoverCommand"
        BY <3>1, <1>c, NextRrcTypes
      <3>3. Head(rrc[ch]).target \in Places
        BY <3>2 DEF RrcMsgs
      <3>4. UeTyped'
        BY <3>1, <3>3, PlaceTypes DEF UeTyped, UeStates
      <3>5. LinksTyped' /\ OneEvent'
        BY <3>1, <1>c, ReceiptTypes
      <3> QED
        BY <3>1, <3>4, <3>5, Frames DEF TypeInv
    <2>2. CASE ue.state # "CONNECTED_NORMALLY"
      BY <1>3, <2>2, AbortTypes DEF RecvHandoverCommand
    <2> QED
      BY <2>1, <2>2
  <1>4. ASSUME RecvReconfiguration(ch) PROVE TypeInv'
    <2>1. CASE ue.state = "CONNECTED_NORMALLY"
      <3> DEFINE m == Rrc("ReconfigurationCompleted", ue.at)
      <3>1. /\ NextRrc(ch, "Reconfiguration")
            /\ rrc' = Put(Taken(ch), Via("up"), m)
            /\ UNCHANGED <<conf, ue, ctx, lastRnti, x2uTeidInfo, app, coreVars, x2>>
        BY <1>4, <2>1 DEF RecvReconfiguration, ueVars
      <3>3. m \in RrcMsgs /\ ~Asking(m)
        <4>1. ue.at \in Places
          BY <2>1 DEF TypeInv, UeTyped
        <4>2. m \in RrcMsgs /\ m.msg = "ReconfigurationCompleted"
          BY <4>1, RrcTypes DEF RrcNames
        <4> QED
          BY <4>2 DEF Asking
      <3> HIDE DEF m
      <3>4. LinksTyped' /\ OneEvent'
        BY <3>1, <3>3, <1>c, <1>v, ReceiptTypes
      <3> QED
        BY <3>1, <3>4, Frames DEF TypeInv
    <2>2. CASE ue.state # "CONNECTED_NORMALLY"
      BY <1>4, <2>2, AbortTypes DEF RecvReconfiguration
    <2> QED
      BY <2>1, <2>2
  <1> QED
    BY <1>1, <1>2, <1>3, <1>4

(* The UE is released, a message is lost, or an RNTI is unknown.           *)
LEMMA ReleaseTypes ==
    ASSUME TypeInv, RecvRrcConnectionRelease
    PROVE  TypeInv'
  <1>1. /\ NextRrc("now", "Release") /\ "now" \in Channels
        /\ UNCHANGED <<conf, ctx, lastRnti, x2uTeidInfo, app, coreVars, x2>>
    BY DEF RecvRrcConnectionRelease, Channels
  <1>2. CASE ue.state \in {"CONNECTED_NORMALLY", "CONNECTED_HANDOVER"}
    <2> DEFINE m == Rrc("ContextRemove", ue.at)
    <2>1. rrc' = Put(Taken("now"), "now", m) /\ ue' = Idle
      BY <1>2 DEF RecvRrcConnectionRelease, LeaveConnectedMode
    <2>2. ue.at \in Places
      BY <1>2 DEF TypeInv, UeTyped
    <2>3. m \in RrcMsgs /\ m.msg = "ContextRemove"
      BY <2>2, RrcTypes DEF RrcNames
    <2>4. Carries("now", m) /\ ~Asking(m)
      BY <2>3 DEF Carries, Asking
    <2> HIDE DEF m
    <2>5. LinksTyped' /\ OneEvent'
      BY <1>1, <2>1, <2>3, <2>4, ReceiptTypes
    <2>6. UeTyped'
      BY <2>1, PlaceTypes DEF UeTyped, Idle, UeStates
    <2> QED
      BY <1>1, <2>5, <2>6, Frames DEF TypeInv
  <1>3. CASE ~(ue.state \in {"CONNECTED_NORMALLY", "CONNECTED_HANDOVER"})
    <2>1. rrc' = Taken("now") /\ UNCHANGED ue
      BY <1>3 DEF RecvRrcConnectionRelease
    <2>2. LinksTyped' /\ OneEvent'
      BY <1>1, <2>1, ReceiptTypes
    <2> QED
      BY <1>1, <2>1, <2>2, Frames DEF TypeInv
  <1> QED
    BY <1>2, <1>3

(* A message lost in the air leaves the types alone.                       *)
LEMMA LoseTypes ==
    ASSUME TypeInv, NEW ch \in {"down", "up"}, LoseInTheAir(ch)
    PROVE  TypeInv'
  <1>1. /\ NextRrc(ch, Head(rrc[ch]).msg) /\ rrc' = Taken(ch) /\ ch \in Channels
        /\ UNCHANGED <<conf, ue, ctx, lastRnti, x2uTeidInfo, app, coreVars, x2>>
    BY DEF LoseInTheAir, NextRrc, Settled, Running, ueVars, Channels
  <1>2. LinksTyped' /\ OneEvent'
    BY <1>1, ReceiptTypes
  <1> QED
    BY <1>1, <1>2, Frames DEF TypeInv

(* A message for an RNTI that the eNB does not know.                       *)
LEMMA UnknownTypes ==
    ASSUME TypeInv, NEW ch \in Channels, NEW msg, NextRrc(ch, msg), UnknownRnti(ch)
    PROVE  TypeInv'
  <1>1. CASE ch = "now"
    BY <1>1, AbortTypes DEF UnknownRnti
  <1>2. CASE ch # "now"
    <2>1. rrc' = Taken(ch) /\ UNCHANGED <<conf, ue, ctx, lastRnti, x2uTeidInfo, app, coreVars, x2>>
      BY <1>2 DEF UnknownRnti, ueVars
    <2>2. LinksTyped' /\ OneEvent'
      BY <2>1, ReceiptTypes
    <2> QED
      BY <2>1, <2>2, Frames DEF TypeInv
  <1> QED
    BY <1>1, <1>2

(* A context that becomes connected, and the reconfiguration that follows. *)
LEMMA ConnectedTypes ==
    ASSUME NEW x \in Contexts
    PROVE  /\ ConnectedNormally(x) \in Contexts
           /\ ConnectedNormally(x).state \in {"CONNECTED_NORMALLY", "CONNECTION_RECONFIGURATION"}
           /\ ConnectedNormally(x).source = x.source /\ ConnectedNormally(x).target = x.target
           /\ ConnectedNormally(x).timers = x.timers
  <1> DEFINE s == IF x.pending THEN "CONNECTION_RECONFIGURATION" ELSE "CONNECTED_NORMALLY"
  <1>1. s \in {"CONNECTED_NORMALLY", "CONNECTION_RECONFIGURATION"}
    OBVIOUS
  <1>2. ConnectedNormally(x) = [x EXCEPT !.state = s, !.pending = FALSE]
    BY DEF ConnectedNormally
  <1> HIDE DEF s
  <1> QED
    BY <1>1, <1>2 DEF Contexts, ContextStates

(* A pending reconfiguration is sent when the one before is over.          *)
LEMMA ReconfiguredTypes ==
    ASSUME conf \in Confs, NEW r \in [Channels -> Seq(RrcMsgs)], Events(r), r["now"] = <<>>, NEW p \in Places
    PROVE  LET m == Rrc("Reconfiguration", p) IN
           /\ Reconfigured(r, p) \in [Channels -> Seq(RrcMsgs)] /\ Events(Reconfigured(r, p))
           /\ Reconfigured(r, p)["now"] \in {<<>>, <<m>>} /\ Msgs(Reconfigured(r, p)) \subseteq Msgs(r) \cup {m}
           /\ m \in RrcMsgs /\ m.msg = "Reconfiguration" /\ m.at = p
  <1> DEFINE m == Rrc("Reconfiguration", p)
  <1>1. m \in RrcMsgs /\ m.msg = "Reconfiguration" /\ m.at = p
    BY RrcTypes DEF RrcNames
  <1>2. Carries(Via("down"), m)
    BY DEF Carries
  <1> HIDE DEF m
  <1>3. Reconfigured(r, p) = r \/ Reconfigured(r, p) = Put(r, Via("down"), m)
    BY DEF Reconfigured, m
  <1>4. /\ Put(r, Via("down"), m) \in [Channels -> Seq(RrcMsgs)]
        /\ Events(Put(r, Via("down"), m))
        /\ Put(r, Via("down"), m)["now"] \in {<<>>, <<m>>}
        /\ Msgs(Put(r, Via("down"), m)) \subseteq Msgs(r) \cup {m}
    BY <1>1, <1>2, Sent
  <1>5. /\ Reconfigured(r, p) \in [Channels -> Seq(RrcMsgs)] /\ Events(Reconfigured(r, p))
        /\ Reconfigured(r, p)["now"] \in {<<>>, <<m>>} /\ Msgs(Reconfigured(r, p)) \subseteq Msgs(r) \cup {m}
    BY <1>3, <1>4
  <1> QED
    BY <1>1, <1>5 DEF m

(* What RemoveUe leaves.                                                   *)
LEMMA RemoveUeTypes ==
    ASSUME CellsTyped, NEW p \in Places, RemoveUe(p), UNCHANGED <<conf, lastRnti>>
    PROVE  CellsTyped' /\ ctx' = [ctx EXCEPT ![p] = NoContext]
  <1>1. ctx' = [ctx EXCEPT ![p] = NoContext] /\ p.cell \in Cells /\ p.rnti \in Rntis
    BY PlaceTypes DEF RemoveUe
  <1>2. ctx' \in [Places -> Contexts]
    BY <1>1, PlaceTypes DEF CellsTyped
  <1>3. x2uTeidInfo' \in [Cells -> [Teids -> Rntis \cup {0}]]
    BY <1>1 DEF RemoveUe, CellsTyped
  <1>4. app' \in [Cells -> Maps]
    <2> DEFINE a == app[p.cell]
               f == [t \in Teids |-> IF t = a.rntiTeid[p.rnti] THEN 0 ELSE a.teidRnti[t]]
               g == [a.rntiTeid EXCEPT ![p.rnti] = 0]
    <2>1. app' = [app EXCEPT ![p.cell] = UeContextReleased(a, p.rnti)] /\ a \in Maps
      BY <1>1 DEF RemoveUe, CellsTyped
    <2>2. f \in [Teids -> Rntis \cup {0}] /\ g \in [Rntis -> Teids \cup {0}] /\ a.imsiRnti \in Rntis \cup {0}
      BY <2>1, <1>1 DEF Maps
    <2>3. UeContextReleased(a, p.rnti) = [imsiRnti |-> a.imsiRnti, teidRnti |-> f, rntiTeid |-> g]
      <3> DEFINE b == [a EXCEPT !.teidRnti = f]
      <3>1. UeContextReleased(a, p.rnti) = [b EXCEPT !.rntiTeid = [@ EXCEPT ![p.rnti] = 0]]
        BY <2>1 DEF UeContextReleased, Maps
      <3>2. b = [imsiRnti |-> a.imsiRnti, teidRnti |-> f, rntiTeid |-> a.rntiTeid]
        BY <2>1 DEF Maps
      <3> HIDE DEF b, f
      <3> QED
        BY <3>1, <3>2
    <2> HIDE DEF f, g, a
    <2>4. UeContextReleased(a, p.rnti) \in Maps
      BY <2>2, <2>3 DEF Maps
    <2> QED
      BY <2>1, <2>4, <1>1 DEF CellsTyped
  <1> QED
    BY <1>1, <1>2, <1>3, <1>4 DEF CellsTyped

(* A bearer is released towards the MME or not.                            *)
LEMMA ReleaseBearersTypes ==
    ASSUME CoreTyped, NEW p, ReleaseBearers(p)
    PROVE  s11' \in Seq(CoreMsgs)
  <1> DEFINE m == Gtpc("DeleteBearerCommand", 0, 0)
  <1>1. m \in CoreMsgs
    BY GtpcTypes DEF CoreNames
  <1>2. s11' = s11 \/ s11' = Append(s11, m)
    BY DEF ReleaseBearers
  <1>3. s11 \in Seq(CoreMsgs)
    BY DEF CoreTyped
  <1> HIDE DEF m
  <1>4. Append(s11, m) \in Seq(CoreMsgs)
    BY <1>1, <1>3
  <1> QED
    BY <1>2, <1>3, <1>4

(***************************************************************************)
(* Contexts that change.                                                   *)
(***************************************************************************)

\* g is f but for the context at p, which has this state, source, target and
\* these timers.
Turned(f, g, p, state, source, target, timers) ==
    /\ g \in [Places -> Contexts]
    /\ \A q \in Places \ {p} : g[q] = f[q]
    /\ g[p].state = state /\ g[p].source = source /\ g[p].target = target /\ g[p].timers = timers

(* A context that is replaced.                                             *)
LEMMA Replaced ==
    ASSUME NEW f \in [Places -> Contexts], NEW p \in Places, NEW x \in Contexts
    PROVE  Turned(f, [f EXCEPT ![p] = x], p, x.state, x.source, x.target, x.timers)
  BY DEF Turned

(* A context that enters a state with these timers.                        *)
LEMMA StateSet ==
    ASSUME NEW f \in [Places -> Contexts], NEW p \in Places, NEW st \in ContextStates,
           NEW ti \in SUBSET Timers
    PROVE  /\ Turned(f, [f EXCEPT ![p].state = st, ![p].timers = ti], p,
                     st, f[p].source, f[p].target, ti)
           /\ Turned(f, [f EXCEPT ![p].state = st, ![p].timers = ti, ![p].buffer = 0], p,
                     st, f[p].source, f[p].target, ti)
  <1> DEFINE x == f[p]
  <1>0. x \in Contexts
    OBVIOUS
  <1>1. Turned(f, [f EXCEPT ![p].state = st, ![p].timers = ti], p,
               st, f[p].source, f[p].target, ti)
    <2> DEFINE y == [x EXCEPT !.state = st, !.timers = ti]
    <2>1. /\ y \in Contexts /\ y.state = st /\ y.source = x.source
          /\ y.target = x.target /\ y.timers = ti
      BY <1>0 DEF Contexts, Timers
    <2>2. [f EXCEPT ![p].state = st, ![p].timers = ti] = [f EXCEPT ![p] = y]
      BY <1>0 DEF Contexts
    <2> HIDE DEF y
    <2>3. Turned(f, [f EXCEPT ![p] = y], p, y.state, y.source, y.target, y.timers)
      BY <2>1, Replaced
    <2> QED
      BY <2>1, <2>2, <2>3, Zenon
  <1>2. Turned(f, [f EXCEPT ![p].state = st, ![p].timers = ti, ![p].buffer = 0], p,
               st, f[p].source, f[p].target, ti)
    <2> DEFINE y == [x EXCEPT !.state = st, !.timers = ti, !.buffer = 0]
    <2>1. /\ y \in Contexts /\ y.state = st /\ y.source = x.source
          /\ y.target = x.target /\ y.timers = ti
      BY <1>0 DEF Contexts, Timers
    <2>2. [f EXCEPT ![p].state = st, ![p].timers = ti, ![p].buffer = 0] = [f EXCEPT ![p] = y]
      BY <1>0 DEF Contexts
    <2> HIDE DEF y
    <2>3. Turned(f, [f EXCEPT ![p] = y], p, y.state, y.source, y.target, y.timers)
      BY <2>1, Replaced
    <2> QED
      BY <2>1, <2>2, <2>3, Zenon
  <1> QED
    BY <1>1, <1>2

(* A context that enters a state with this target.                         *)
LEMMA TargetSet ==
    ASSUME NEW f \in [Places -> Contexts], NEW p \in Places, NEW st \in ContextStates,
           NEW tg \in Spots
    PROVE  /\ Turned(f, [f EXCEPT ![p].state = st, ![p].target = tg], p,
                     st, f[p].source, tg, f[p].timers)
           /\ Turned(f, [f EXCEPT ![p].state = st, ![p].target = tg, ![p].timers = @ \cup {"leaving"}], p,
                     st, f[p].source, tg, f[p].timers \cup {"leaving"})
  <1> DEFINE x == f[p]
  <1>0. x \in Contexts
    OBVIOUS
  <1>1. Turned(f, [f EXCEPT ![p].state = st, ![p].target = tg], p,
               st, f[p].source, tg, f[p].timers)
    <2> DEFINE y == [x EXCEPT !.state = st, !.target = tg]
    <2>1. /\ y \in Contexts /\ y.state = st /\ y.source = x.source
          /\ y.target = tg /\ y.timers = x.timers
      BY <1>0 DEF Contexts, Timers
    <2>2. [f EXCEPT ![p].state = st, ![p].target = tg] = [f EXCEPT ![p] = y]
      BY <1>0 DEF Contexts
    <2> HIDE DEF y
    <2>3. Turned(f, [f EXCEPT ![p] = y], p, y.state, y.source, y.target, y.timers)
      BY <2>1, Replaced
    <2> QED
      BY <2>1, <2>2, <2>3, Zenon
  <1>2. Turned(f, [f EXCEPT ![p].state = st, ![p].target = tg, ![p].timers = @ \cup {"leaving"}], p,
               st, f[p].source, tg, f[p].timers \cup {"leaving"})
    <2> DEFINE y == [x EXCEPT !.state = st, !.target = tg, !.timers = @ \cup {"leaving"}]
    <2>1. /\ y \in Contexts /\ y.state = st /\ y.source = x.source
          /\ y.target = tg /\ y.timers = x.timers \cup {"leaving"}
      BY <1>0 DEF Contexts, Timers
    <2>2. [f EXCEPT ![p].state = st, ![p].target = tg, ![p].timers = @ \cup {"leaving"}] = [f EXCEPT ![p] = y]
      BY <1>0 DEF Contexts
    <2> HIDE DEF y
    <2>3. Turned(f, [f EXCEPT ![p] = y], p, y.state, y.source, y.target, y.timers)
      BY <2>1, Replaced
    <2> QED
      BY <2>1, <2>2, <2>3, Zenon
  <1> QED
    BY <1>1, <1>2

(* A context that gets a bearer.                                           *)
LEMMA TeidSet ==
    ASSUME NEW f \in [Places -> Contexts], NEW p \in Places, NEW st \in ContextStates,
           NEW te \in Teids \cup {0}
    PROVE  /\ Turned(f, [f EXCEPT ![p].state = st, ![p].teid = te], p,
                     st, f[p].source, f[p].target, f[p].timers)
  <1> DEFINE x == f[p]
  <1>0. x \in Contexts
    OBVIOUS
  <1>1. Turned(f, [f EXCEPT ![p].state = st, ![p].teid = te], p,
               st, f[p].source, f[p].target, f[p].timers)
    <2> DEFINE y == [x EXCEPT !.state = st, !.teid = te]
    <2>1. /\ y \in Contexts /\ y.state = st /\ y.source = x.source
          /\ y.target = x.target /\ y.timers = x.timers
      BY <1>0 DEF Contexts, Timers
    <2>2. [f EXCEPT ![p].state = st, ![p].teid = te] = [f EXCEPT ![p] = y]
      BY <1>0 DEF Contexts
    <2> HIDE DEF y
    <2>3. Turned(f, [f EXCEPT ![p] = y], p, y.state, y.source, y.target, y.timers)
      BY <2>1, Replaced
    <2> QED
      BY <2>1, <2>2, <2>3, Zenon
  <1> QED
    BY <1>1

(* A context that stays in its state.                                      *)
LEMMA StateKept ==
    ASSUME NEW f \in [Places -> Contexts], NEW p \in Places
    PROVE  /\ Turned(f, [f EXCEPT ![p].timers = @ \ {"joining"}], p,
                     f[p].state, f[p].source, f[p].target, f[p].timers \ {"joining"})
           /\ Turned(f, [f EXCEPT ![p].buffer = @ + 1], p,
                     f[p].state, f[p].source, f[p].target, f[p].timers)
  <1> DEFINE x == f[p]
  <1>0. x \in Contexts
    OBVIOUS
  <1>1. Turned(f, [f EXCEPT ![p].timers = @ \ {"joining"}], p,
               f[p].state, f[p].source, f[p].target, f[p].timers \ {"joining"})
    <2> DEFINE y == [x EXCEPT !.timers = @ \ {"joining"}]
    <2>1. /\ y \in Contexts /\ y.state = x.state /\ y.source = x.source
          /\ y.target = x.target /\ y.timers = x.timers \ {"joining"}
      BY <1>0 DEF Contexts, Timers
    <2>2. [f EXCEPT ![p].timers = @ \ {"joining"}] = [f EXCEPT ![p] = y]
      BY <1>0 DEF Contexts
    <2> HIDE DEF y
    <2>3. Turned(f, [f EXCEPT ![p] = y], p, y.state, y.source, y.target, y.timers)
      BY <2>1, Replaced
    <2> QED
      BY <2>1, <2>2, <2>3, Zenon
  <1>2. Turned(f, [f EXCEPT ![p].buffer = @ + 1], p,
               f[p].state, f[p].source, f[p].target, f[p].timers)
    <2> DEFINE y == [x EXCEPT !.buffer = @ + 1]
    <2>1. /\ y \in Contexts /\ y.state = x.state /\ y.source = x.source
          /\ y.target = x.target /\ y.timers = x.timers
      BY <1>0 DEF Contexts, Timers
    <2>2. [f EXCEPT ![p].buffer = @ + 1] = [f EXCEPT ![p] = y]
      BY <1>0 DEF Contexts
    <2> HIDE DEF y
    <2>3. Turned(f, [f EXCEPT ![p] = y], p, y.state, y.source, y.target, y.timers)
      BY <2>1, Replaced
    <2> QED
      BY <2>1, <2>2, <2>3, Zenon
  <1> QED
    BY <1>1, <1>2

(* A bearer of the S1 application that is set up.                          *)
LEMMA TwoMaps ==
    ASSUME NEW a \in Maps, NEW r, NEW t
    PROVE  [a EXCEPT !.rntiTeid[r] = t, !.teidRnti[t] = r] =
              [imsiRnti |-> a.imsiRnti, teidRnti |-> [a.teidRnti EXCEPT ![t] = r],
               rntiTeid |-> [a.rntiTeid EXCEPT ![r] = t]]
  <1> DEFINE v == [a.rntiTeid EXCEPT ![r] = t]
             b == [a EXCEPT !.rntiTeid = v]
  <1>1. b = [imsiRnti |-> a.imsiRnti, teidRnti |-> a.teidRnti, rntiTeid |-> v]
    BY DEF Maps
  <1>2. [a EXCEPT !.rntiTeid[r] = t, !.teidRnti[t] = r] = [b EXCEPT !.teidRnti = [@ EXCEPT ![t] = r]]
    OBVIOUS
  <1> HIDE DEF b
  <1> QED
    BY <1>1, <1>2

(* Setting a bearer of the S1 application keeps its types.                 *)
LEMMA BearerSet ==
    ASSUME NEW f \in [Cells -> Maps], NEW c \in Cells, NEW r \in Rntis, NEW t \in Teids \cup {0}
    PROVE  /\ [f EXCEPT ![c].imsiRnti = r] \in [Cells -> Maps]
           /\ [f EXCEPT ![c].rntiTeid[r] = t, ![c].teidRnti[t] = r] \in [Cells -> Maps]
           /\ [f EXCEPT ![c].imsiRnti = r, ![c].rntiTeid[r] = t, ![c].teidRnti[t] = r] \in [Cells -> Maps]
  <1> DEFINE a == f[c]
             u == [a.teidRnti EXCEPT ![t] = r]
             v == [a.rntiTeid EXCEPT ![r] = t]
  <1>1. a \in Maps
    OBVIOUS
  <1>2. u \in [Teids -> Rntis \cup {0}] /\ v \in [Rntis -> Teids \cup {0}] /\ a.imsiRnti \in Rntis \cup {0}
    BY <1>1 DEF Maps
  <1>3. [f EXCEPT ![c].imsiRnti = r] \in [Cells -> Maps]
    BY DEF Maps
  <1>4. [imsiRnti |-> a.imsiRnti, teidRnti |-> u, rntiTeid |-> v] \in Maps
    BY <1>2 DEF Maps
  <1>5. [imsiRnti |-> r, teidRnti |-> u, rntiTeid |-> v] \in Maps
    BY <1>2 DEF Maps
  <1>6. [f EXCEPT ![c].rntiTeid[r] = t, ![c].teidRnti[t] = r] =
           [f EXCEPT ![c] = [imsiRnti |-> a.imsiRnti, teidRnti |-> u, rntiTeid |-> v]]
    <2>1. [a EXCEPT !.rntiTeid[r] = t, !.teidRnti[t] = r] =
             [imsiRnti |-> a.imsiRnti, teidRnti |-> u, rntiTeid |-> v]
      BY <1>1, TwoMaps
    <2>2. [f EXCEPT ![c].rntiTeid[r] = t, ![c].teidRnti[t] = r] =
             [f EXCEPT ![c] = [a EXCEPT !.rntiTeid[r] = t, !.teidRnti[t] = r]]
      OBVIOUS
    <2> QED
      BY <2>1, <2>2
  <1>7. [f EXCEPT ![c].imsiRnti = r, ![c].rntiTeid[r] = t, ![c].teidRnti[t] = r] =
           [f EXCEPT ![c] = [imsiRnti |-> r, teidRnti |-> u, rntiTeid |-> v]]
    <2> DEFINE b == [a EXCEPT !.imsiRnti = r]
    <2>1. b \in Maps /\ b.imsiRnti = r /\ b.teidRnti = a.teidRnti /\ b.rntiTeid = a.rntiTeid
      BY <1>1 DEF Maps
    <2>2. [f EXCEPT ![c].imsiRnti = r, ![c].rntiTeid[r] = t, ![c].teidRnti[t] = r] =
             [f EXCEPT ![c] = [b EXCEPT !.rntiTeid[r] = t, !.teidRnti[t] = r]]
      OBVIOUS
    <2>3. \A y \in Maps : [y EXCEPT !.rntiTeid[r] = t, !.teidRnti[t] = r] =
             [imsiRnti |-> y.imsiRnti, teidRnti |-> [y.teidRnti EXCEPT ![t] = r],
              rntiTeid |-> [y.rntiTeid EXCEPT ![r] = t]]
      BY TwoMaps
    <2> HIDE DEF b
    <2>4. [b EXCEPT !.rntiTeid[r] = t, !.teidRnti[t] = r] =
             [imsiRnti |-> b.imsiRnti, teidRnti |-> [b.teidRnti EXCEPT ![t] = r],
              rntiTeid |-> [b.rntiTeid EXCEPT ![r] = t]]
      BY <2>1, <2>3
    <2> QED
      BY <2>1, <2>2, <2>4
  <1> HIDE DEF u, v
  <1>8. \A x \in Maps : [f EXCEPT ![c] = x] \in [Cells -> Maps]
    OBVIOUS
  <1> QED
    BY <1>3, <1>4, <1>5, <1>6, <1>7, <1>8

(* A link on which something is sent.                                      *)
LEMMA LinkGrows ==
    ASSUME NEW f \in [Links -> Seq(X2Msgs)], NEW a, NEW b, NEW m \in X2Msgs
    PROVE  [f EXCEPT ![<<a, b>>] = Append(@, m)] \in [Links -> Seq(X2Msgs)]
  <1>1. CASE <<a, b>> \in Links
    BY <1>1
  <1>2. CASE <<a, b>> \notin Links
    BY <1>2
  <1> QED
    BY <1>1, <1>2

(* What is sent over X2 joins a link at its end; what is received leaves it.*)
LEMMA X2LinkTypes ==
    ASSUME LinksTyped, NEW m \in X2Msgs, NEW from, NEW to
    PROVE  SendX2(from, to, m) \in [Links -> Seq(X2Msgs)]
  <1>1. x2 \in [Links -> Seq(X2Msgs)]
    BY DEF LinksTyped
  <1> QED
    BY <1>1, LinkGrows DEF SendX2

(* A message is taken from a link.                                         *)
LEMMA X2TakenTypes ==
    ASSUME LinksTyped, NEW s, NEW d, <<s, d>> \in Links, x2[<<s, d>>] # <<>>
    PROVE  /\ X2Taken(s, d) \in [Links -> Seq(X2Msgs)]
           /\ Head(x2[<<s, d>>]) \in X2Msgs
           /\ \A m \in X2Msgs : X2Answered(s, d, m) \in [Links -> Seq(X2Msgs)]
  <1>1. x2 \in [Links -> Seq(X2Msgs)]
    BY DEF LinksTyped
  <1>2. Head(x2[<<s, d>>]) \in X2Msgs /\ Tail(x2[<<s, d>>]) \in Seq(X2Msgs)
    BY <1>1
  <1>3. X2Taken(s, d) \in [Links -> Seq(X2Msgs)]
    BY <1>1, <1>2 DEF X2Taken
  <1>4. \A m \in X2Msgs : X2Answered(s, d, m) \in [Links -> Seq(X2Msgs)]
    BY <1>3, LinkGrows DEF X2Answered
  <1> QED
    BY <1>2, <1>3, <1>4

(* To the eNB.                                                             *)
LEMMA UpTypes ==
    ASSUME TypeInv, NEW ch \in {"now", "up"},
           \/ \E admit \in BOOLEAN : RecvRrcConnectionRequest(ch, admit)
           \/ RecvRrcConnectionSetupCompleted(ch)
           \/ RecvReconfigurationCompleted(ch)
    PROVE  TypeInv'
  <1>c. ch \in Channels /\ conf \in Confs
    BY DEF Channels, TypeInv, CellsTyped
  <1> DEFINE p == Head(rrc[ch]).at
  <1>a. ASSUME NEW msg, NextRrc(ch, msg) PROVE p \in Places /\ p.cell \in Cells /\ p.rnti \in Rntis
    BY <1>a, <1>c, NextRrcTypes, PlaceTypes
  <1>1. ASSUME NEW admit \in BOOLEAN, RecvRrcConnectionRequest(ch, admit) PROVE TypeInv'
    <2>1. NextRrc(ch, "ConnectionRequest")
      BY <1>1 DEF RecvRrcConnectionRequest
    <2>2. CASE ~HasUeManager(p)
      BY <1>1, <2>1, <2>2, <1>c, UnknownTypes DEF RecvRrcConnectionRequest
    <2>3. CASE HasUeManager(p) /\ ctx[p].state # "INITIAL_RANDOM_ACCESS"
      BY <1>1, <2>3, AbortTypes DEF RecvRrcConnectionRequest
    <2>4. CASE HasUeManager(p) /\ ctx[p].state = "INITIAL_RANDOM_ACCESS"
      <3> DEFINE st == IF admit THEN "CONNECTION_SETUP" ELSE "CONNECTION_REJECTED"
                 ti == IF admit THEN {"setup"} ELSE {"rejected"}
                 n == IF admit THEN "ConnectionSetup" ELSE "ConnectionReject"
                 m == Rrc(n, p)
      <3>1. /\ ctx' = [ctx EXCEPT ![p].state = st, ![p].timers = ti]
            /\ rrc' = Put(Taken(ch), Via("down"), m)
            /\ UNCHANGED <<conf, ue, lastRnti, x2uTeidInfo, app, coreVars, x2>>
        BY <1>1, <2>4 DEF RecvRrcConnectionRequest, ueVars
      <3>2. st \in ContextStates /\ ti \in SUBSET Timers /\ n \in RrcNames \ {"HandoverCommand"}
        BY DEF ContextStates, Timers, RrcNames
      <3>3. m \in RrcMsgs /\ m.at = p
        BY <3>2, <2>1, <1>a, RrcTypes
      <3> HIDE DEF st, ti, m, n
      <3>4. CellsTyped'
        <4>1. ctx \in [Places -> Contexts] /\ p \in Places
          BY <2>1, <1>a DEF TypeInv, CellsTyped
        <4>2. ctx' \in [Places -> Contexts]
          BY <4>1, <3>1, <3>2, StateSet DEF Turned
        <4> QED
          BY <3>1, <4>2 DEF TypeInv, CellsTyped
      <3>5. ch = "now" \/ Via("down") # "now"
        <4>1. ch # "now" => rrc["up"] # <<>>
          BY <2>1 DEF NextRrc
        <4>2. ch # "now" => ~conf.ideal
          BY <4>1 DEF TypeInv, OneEvent, Events
        <4> QED
          BY <4>2, <1>c, ViaTypes
      <3>6. ch = "now" => ue.state = "IDLE_CONNECTING" /\ ue.at = p
        <4>1. ch = "now" => rrc["now"] # <<>> /\ Asking(Head(rrc["now"]))
          BY <2>1 DEF NextRrc, Asking
        <4> QED
          BY <4>1 DEF TypeInv, OneEvent
      <3>7. Carries(Via("down"), m) /\ Via("down") \in Channels
        BY <1>c, ViaTypes DEF Carries
      <3> HIDE DEF p
      <3>8. Via("down") = "now" => ue'.state = "IDLE_CONNECTING" /\ ue'.at = m.at
        BY <3>1, <3>3, <3>5, <3>6
      <3>9. LinksTyped' /\ OneEvent'
        BY <2>1, <3>1, <3>3, <3>7, <3>8, <1>c, ReceiptTypes
      <3> QED
        BY <3>1, <3>4, <3>9, Frames DEF TypeInv
    <2> QED
      BY <2>2, <2>3, <2>4
  <1>2. ASSUME RecvRrcConnectionSetupCompleted(ch) PROVE TypeInv'
    <2>1. NextRrc(ch, "ConnectionSetupCompleted")
      BY <1>2 DEF RecvRrcConnectionSetupCompleted
    <2>2. CASE ~HasUeManager(p)
      BY <1>2, <2>1, <2>2, <1>c, UnknownTypes DEF RecvRrcConnectionSetupCompleted
    <2>3. CASE HasUeManager(p) /\ ctx[p].state # "CONNECTION_SETUP"
      BY <1>2, <2>3, AbortTypes DEF RecvRrcConnectionSetupCompleted
    <2>4. CASE HasUeManager(p) /\ ctx[p].state = "CONNECTION_SETUP"
      <3> DEFINE m == Gtpc("CreateSessionRequest", p.cell, 0)
      <3>1. /\ ctx' = [ctx EXCEPT ![p].state = "ATTACH_REQUEST", ![p].timers = {}]
            /\ app' = [app EXCEPT ![p.cell].imsiRnti = p.rnti]
            /\ mmeCell' = p.cell
            /\ s11' = Append(s11, m)
            /\ rrc' = Taken(ch)
            /\ UNCHANGED <<conf, ue, lastRnti, x2uTeidInfo, sgw, pgw, s5, reply, x2>>
        BY <1>2, <2>4 DEF RecvRrcConnectionSetupCompleted, ueVars
      <3>2. m \in CoreMsgs
        BY <2>1, <1>a, GtpcTypes DEF CoreNames
      <3>3. p \in Places /\ p.cell \in Cells /\ p.rnti \in Rntis
        BY <2>1, <1>a
      <3> HIDE DEF m, p
      <3>4. CellsTyped'
        <4>1. ctx' \in [Places -> Contexts]
          <5>1. "ATTACH_REQUEST" \in ContextStates /\ {} \in SUBSET Timers /\ ctx \in [Places -> Contexts]
            BY DEF ContextStates, TypeInv, CellsTyped
          <5>2. Turned(ctx, [ctx EXCEPT ![p].state = "ATTACH_REQUEST", ![p].timers = {}], p,
                       "ATTACH_REQUEST", ctx[p].source, ctx[p].target, {})
            BY <5>1, <3>3, StateSet
          <5> QED
            BY <5>2, <3>1 DEF Turned
        <4>2. app' \in [Cells -> Maps]
          BY <3>1, <3>3, BearerSet DEF TypeInv, CellsTyped
        <4> QED
          BY <3>1, <4>1, <4>2 DEF TypeInv, CellsTyped
      <3>5. CoreTyped'
        BY <3>1, <3>2, <3>3 DEF TypeInv, CoreTyped
      <3>6. LinksTyped' /\ OneEvent'
        BY <2>1, <3>1, <1>c, ReceiptTypes
      <3> QED
        BY <3>1, <3>4, <3>5, <3>6, Frames DEF TypeInv
    <2> QED
      BY <2>2, <2>3, <2>4
  <1>3. ASSUME RecvReconfigurationCompleted(ch) PROVE TypeInv'
    <2>1. NextRrc(ch, "ReconfigurationCompleted") /\ p \in Places
      BY <1>3, <1>a DEF RecvReconfigurationCompleted
    <2>2. CASE ~HasUeManager(p)
      BY <1>3, <2>1, <2>2, <1>c, UnknownTypes DEF RecvReconfigurationCompleted
    <2>3. CASE HasUeManager(p) /\ ctx[p].state = "HANDOVER_JOINING"
      <3> DEFINE m == Gtpc("ModifyBearerRequest", p.cell, ctx[p].teid)
                 t == ctx[p].teid
      <3>1. PathSwitchRequest(p, ch)
        BY <1>3, <2>3 DEF RecvReconfigurationCompleted
      <3>2. /\ ctx' = [ctx EXCEPT ![p].state = "HANDOVER_PATH_SWITCH", ![p].timers = {}, ![p].buffer = 0]
            /\ app' = [app EXCEPT ![p.cell].imsiRnti = p.rnti,
                                  ![p.cell].rntiTeid[p.rnti] = t,
                                  ![p.cell].teidRnti[t] = p.rnti]
            /\ mmeCell' = p.cell /\ s11' = Append(s11, m) /\ rrc' = Taken(ch)
            /\ UNCHANGED <<conf, ue, lastRnti, x2uTeidInfo, sgw, pgw, s5, reply, x2>>
        BY <3>1 DEF PathSwitchRequest, ueVars
      <3>3. p \in Places /\ p.cell \in Cells /\ p.rnti \in Rntis /\ t \in Teids \cup {0}
        BY <2>1, <1>a DEF TypeInv, CellsTyped, Contexts
      <3>4. m \in CoreMsgs
        BY <3>3, GtpcTypes DEF CoreNames
      <3> HIDE DEF m, p, t
      <3>5. CellsTyped'
        <4>1. ctx' \in [Places -> Contexts]
          <5>1. "HANDOVER_PATH_SWITCH" \in ContextStates /\ {} \in SUBSET Timers /\ ctx \in [Places -> Contexts]
            BY DEF ContextStates, TypeInv, CellsTyped
          <5>2. Turned(ctx, [ctx EXCEPT ![p].state = "HANDOVER_PATH_SWITCH", ![p].timers = {}, ![p].buffer = 0],
                       p, "HANDOVER_PATH_SWITCH", ctx[p].source, ctx[p].target, {})
            BY <5>1, <3>3, StateSet
          <5> QED
            BY <5>2, <3>2 DEF Turned
        <4>2. app' \in [Cells -> Maps]
          BY <3>2, <3>3, BearerSet DEF TypeInv, CellsTyped
        <4> QED
          BY <3>2, <4>1, <4>2 DEF TypeInv, CellsTyped
      <3>6. CoreTyped'
        BY <3>2, <3>3, <3>4 DEF TypeInv, CoreTyped
      <3>7. LinksTyped' /\ OneEvent'
        BY <2>1, <3>2, <1>c, ReceiptTypes
      <3> QED
        BY <3>2, <3>5, <3>6, <3>7, Frames DEF TypeInv
    <2>4. CASE /\ HasUeManager(p)
               /\ ctx[p].state \in {"CONNECTION_RECONFIGURATION", "CONNECTED_NORMALLY", "HANDOVER_LEAVING"}
      <3>1. /\ \/ ctx' = [ctx EXCEPT ![p] = ConnectedNormally(@)] /\ rrc' = Reconfigured(Taken(ch), p)
               \/ UNCHANGED ctx /\ rrc' = Taken(ch)
            /\ UNCHANGED <<conf, ue, lastRnti, x2uTeidInfo, app, coreVars, x2>>
        BY <1>3, <2>4 DEF RecvReconfigurationCompleted, ueVars
      <3>2. CASE UNCHANGED ctx /\ rrc' = Taken(ch)
        <4>1. LinksTyped' /\ OneEvent'
          BY <2>1, <3>1, <3>2, <1>c, ReceiptTypes
        <4> QED
          BY <3>1, <3>2, <4>1, Frames DEF TypeInv
      <3>3. CASE ctx' = [ctx EXCEPT ![p] = ConnectedNormally(@)] /\ rrc' = Reconfigured(Taken(ch), p)
        <4> DEFINE m == Rrc("Reconfiguration", p)
        <4>1. /\ Taken(ch) \in [Channels -> Seq(RrcMsgs)] /\ Events(Taken(ch)) /\ Taken(ch)["now"] = <<>>
          BY <2>1, <1>c, NextRrcTypes
        <4>2. /\ rrc' \in [Channels -> Seq(RrcMsgs)] /\ Events(rrc')
              /\ rrc'["now"] \in {<<>>, <<m>>} /\ m \in RrcMsgs /\ m.msg = "Reconfiguration"
          BY <4>1, <2>1, <3>3, <1>c, ReconfiguredTypes
        <4>3. ~Asking(m)
          BY <4>2 DEF Asking
        <4> HIDE DEF m, p
        <4>4. LinksTyped' /\ OneEvent'
          <5>1. OneEvent'
            BY <3>1, <4>2, <4>3, OneEventThen
          <5> QED
            BY <3>1, <4>2, <5>1 DEF TypeInv, LinksTyped
        <4>5. CellsTyped'
          BY <3>1, <3>3, <2>1, ConnectedTypes DEF TypeInv, CellsTyped
        <4> QED
          BY <3>1, <4>4, <4>5, Frames DEF TypeInv
      <3> QED
        BY <3>1, <3>2, <3>3
    <2>5. CASE /\ HasUeManager(p)
               /\ ctx[p].state \notin {"HANDOVER_JOINING", "CONNECTION_RECONFIGURATION", "CONNECTED_NORMALLY", "HANDOVER_LEAVING"}
      BY <1>3, <2>5, AbortTypes DEF RecvReconfigurationCompleted
    <2> QED
      BY <2>2, <2>3, <2>4, <2>5
  <1> QED
    BY <1>1, <1>2, <1>3

(* The events are done, or were; what is sent now is the only event.       *)
LEMMA SettledTypes ==
    ASSUME TypeInv, Settled, UNCHANGED <<conf, ue>>,
           \/ UNCHANGED rrc
           \/ \E m \in RrcMsgs : \E k : Carries(k, m) /\ rrc' = Put(rrc, k, m) /\ ~Asking(m)
    PROVE  rrc' \in [Channels -> Seq(RrcMsgs)] /\ OneEvent'
  <1>1. rrc \in [Channels -> Seq(RrcMsgs)] /\ Events(rrc) /\ rrc["now"] = <<>> /\ conf \in Confs
    BY DEF TypeInv, LinksTyped, OneEvent, CellsTyped, Settled
  <1>2. CASE UNCHANGED rrc
    BY <1>1, <1>2, OneEventThen
  <1>3. ASSUME NEW m \in RrcMsgs, NEW k, Carries(k, m), rrc' = Put(rrc, k, m), ~Asking(m)
        PROVE  rrc' \in [Channels -> Seq(RrcMsgs)] /\ OneEvent'
    <2>1. /\ rrc' \in [Channels -> Seq(RrcMsgs)] /\ Events(rrc')
          /\ rrc'["now"] = IF k = "now" THEN <<m>> ELSE <<>>
      BY <1>1, <1>3, Sent
    <2> QED
      BY <2>1, <1>3, OneEventThen
  <1> QED
    BY <1>2, <1>3

(* A context is removed at the UE's request.                               *)
LEMMA ContextRemoveTypes ==
    ASSUME TypeInv, RecvContextRemove
    PROVE  TypeInv'
  <1> DEFINE p == Head(rrc["now"]).at
             m == X2("PreparationFailure", ctx[p].source.rnti, 0, 0)
  <1>1. /\ NextRrc("now", "ContextRemove") /\ "now" \in Channels /\ rrc' = Taken("now")
        /\ UNCHANGED <<conf, ue, lastRnti, mmeCell, sgw, pgw, s5, reply>>
    BY DEF RecvContextRemove, Channels, ueVars
  <1>2. p \in Places
    BY <1>1, NextRrcTypes
  <1>3. CASE HasUeManager(p)
    <2>1. ContextRemoved(p)
      BY <1>3 DEF RecvContextRemove
    <2>2. CellsTyped'
      BY <1>1, <1>2, <2>1, RemoveUeTypes DEF ContextRemoved, TypeInv
    <2>3. s11' \in Seq(CoreMsgs)
      BY <2>1, ReleaseBearersTypes DEF ContextRemoved, TypeInv
    <2>4. CoreTyped'
      BY <1>1, <2>3 DEF TypeInv, CoreTyped
    <2>5. m \in X2Msgs
      <3>1. ctx[p].source.rnti \in Rntis \cup {0}
        BY <1>2 DEF TypeInv, CellsTyped, Contexts, Spots
      <3> QED
        BY <3>1, X2Types DEF X2Names
    <2>6. x2' \in [Links -> Seq(X2Msgs)]
      <3>1. x2' = SendX2(p.cell, ctx[p].source.cell, m) \/ x2' = x2
        BY <2>1 DEF ContextRemoved
      <3>2. LinksTyped /\ x2 \in [Links -> Seq(X2Msgs)]
        BY DEF TypeInv, LinksTyped
      <3> HIDE DEF m
      <3> QED
        BY <3>1, <3>2, <2>5, X2LinkTypes
    <2>7. rrc' \in [Channels -> Seq(RrcMsgs)] /\ OneEvent'
      <3>1. Taken("now") \in [Channels -> Seq(RrcMsgs)] /\ Events(Taken("now")) /\ Taken("now")["now"] = <<>>
        BY <1>1, NextRrcTypes
      <3> QED
        BY <3>1, <1>1, OneEventThen
    <2> QED
      BY <1>1, <2>2, <2>4, <2>6, <2>7, Frames DEF TypeInv, LinksTyped
  <1>4. CASE ~HasUeManager(p)
    <2>1. UNCHANGED <<x2, s11, ctx, x2uTeidInfo, app>>
      BY <1>4 DEF RecvContextRemove
    <2>2. LinksTyped' /\ OneEvent'
      BY <1>1, <2>1, ReceiptTypes
    <2>3. CoreTyped'
      BY <1>1, <2>1 DEF TypeInv, CoreTyped
    <2> QED
      BY <1>1, <2>1, <2>2, <2>3, Frames DEF TypeInv
  <1> QED
    BY <1>3, <1>4

(* Every step of the RRC protocol preserves the types.                     *)
LEMMA RrcStepTypes ==
    ASSUME TypeInv, RrcStep
    PROVE  TypeInv'
  BY DownTypes, UpTypes, ReleaseTypes, ContextRemoveTypes, LoseTypes DEF RrcStep

(* A handover is requested.                                                *)
LEMMA PrepareTypes ==
    ASSUME TypeInv, NEW p \in Places, NEW c \in Cells, PrepareHandover(p, c)
    PROVE  TypeInv'
  <1> DEFINE m == X2("HandoverRequest", p.rnti, 0, ctx[p].teid)
             tg == [cell |-> c, rnti |-> 0]
  <1>1. /\ Settled /\ ctx' = [ctx EXCEPT ![p].state = "HANDOVER_PREPARATION", ![p].target = tg]
        /\ x2' = SendX2(p.cell, c, m)
        /\ UNCHANGED <<conf, ue, lastRnti, x2uTeidInfo, app, coreVars, rrc>>
    BY DEF PrepareHandover, ueVars
  <1>2. m \in X2Msgs
    <2>1. ctx[p].teid \in Teids \cup {0} /\ p.rnti \in Rntis
      BY PlaceTypes DEF TypeInv, CellsTyped, Contexts
    <2> QED
      BY <2>1, X2Types DEF X2Names
  <1>3. tg \in Spots /\ "HANDOVER_PREPARATION" \in ContextStates /\ ctx \in [Places -> Contexts] /\ LinksTyped
    BY DEF Spots, ContextStates, TypeInv, CellsTyped
  <1> HIDE DEF m, tg
  <1>4. Turned(ctx, [ctx EXCEPT ![p].state = "HANDOVER_PREPARATION", ![p].target = tg], p,
               "HANDOVER_PREPARATION", ctx[p].source, tg, ctx[p].timers)
    BY <1>3, TargetSet
  <1>5. CellsTyped'
    BY <1>1, <1>4 DEF TypeInv, CellsTyped, Turned
  <1>6. x2' \in [Links -> Seq(X2Msgs)]
    BY <1>1, <1>2, <1>3, X2LinkTypes
  <1>7. LinksTyped'
    BY <1>1, <1>6 DEF TypeInv, LinksTyped
  <1> QED
    BY <1>1, <1>5, <1>7, Frames DEF TypeInv

(* A message is next on an X2 link.                                        *)
LEMMA NextX2Types ==
    ASSUME TypeInv, NEW l \in Links, NEW msg, NextX2(l[1], l[2], msg)
    PROVE  LET s == l[1]
               d == l[2]
               m == Head(x2[<<s, d>>])
           IN /\ l = <<s, d>> /\ s \in Cells /\ d \in Cells /\ s # d /\ <<s, d>> \in Links
              /\ <<d, s>> \in Links /\ Settled /\ x2[<<s, d>>] # <<>>
              /\ m \in X2Msgs /\ m.msg = msg
              /\ m.old \in Rntis \cup {0} /\ m.new \in Rntis \cup {0} /\ m.teid \in Teids \cup {0}
              /\ (msg = "HandoverRequestAck" => m.new \in Rntis)
              /\ X2Taken(s, d) \in [Links -> Seq(X2Msgs)]
              /\ \A n \in X2Msgs : X2Answered(s, d, n) \in [Links -> Seq(X2Msgs)]
  <1> DEFINE s == l[1]
             d == l[2]
             m == Head(x2[<<s, d>>])
  <1>1. l = <<s, d>> /\ s \in Cells /\ d \in Cells /\ s # d
    BY DEF Links
  <1>2. <<s, d>> \in Links /\ <<d, s>> \in Links
    BY <1>1 DEF Links
  <1>3. Settled /\ x2[<<s, d>>] # <<>> /\ m.msg = msg /\ LinksTyped
    BY DEF NextX2, TypeInv
  <1>4. /\ X2Taken(s, d) \in [Links -> Seq(X2Msgs)] /\ m \in X2Msgs
        /\ \A n \in X2Msgs : X2Answered(s, d, n) \in [Links -> Seq(X2Msgs)]
    BY <1>2, <1>3, X2TakenTypes
  <1>5. /\ m.old \in Rntis \cup {0} /\ m.new \in Rntis \cup {0} /\ m.teid \in Teids \cup {0}
        /\ (msg = "HandoverRequestAck" => m.new \in Rntis)
    BY <1>3, <1>4 DEF X2Msgs
  <1> QED
    BY <1>1, <1>2, <1>3, <1>4, <1>5

(* The new context of a handover.                                          *)
LEMMA JoiningContext ==
    ASSUME NEW source \in Spots, NEW t \in Teids \cup {0}
    PROVE  LET x == [NewContext("HANDOVER_JOINING", source) EXCEPT !.teid = t, !.pending = (t # 0)]
           IN x \in Contexts /\ x.state = "HANDOVER_JOINING" /\ x.source = source
  <1> DEFINE y == NewContext("HANDOVER_JOINING", source)
             b == (t # 0)
  <1>1. y \in Contexts /\ y.state = "HANDOVER_JOINING" /\ y.source = source
    BY NewContextTypes
  <1>2. b \in BOOLEAN
    OBVIOUS
  <1> HIDE DEF y, b
  <1>3. [y EXCEPT !.teid = t, !.pending = b] \in Contexts
    BY <1>1, <1>2 DEF Contexts
  <1>4. /\ [y EXCEPT !.teid = t, !.pending = b].state = "HANDOVER_JOINING"
        /\ [y EXCEPT !.teid = t, !.pending = b].source = source
    BY <1>1 DEF Contexts
  <1> QED
    BY <1>3, <1>4 DEF y, b

(* Preparation, at the target and at the source.                           *)
LEMMA PreparationTypes ==
    ASSUME TypeInv, NEW l \in Links,
           \/ AdmitHandoverRequest(l[1], l[2]) \/ RefuseHandoverRequest(l[1], l[2])
           \/ RecvHandoverRequestAck(l[1], l[2])
    PROVE  TypeInv'
  <1> DEFINE s == l[1]
             d == l[2]
             m == Head(x2[<<s, d>>])
  <1>t. ctx \in [Places -> Contexts] /\ lastRnti \in [Cells -> Rntis \cup {0}] /\ conf \in Confs
    BY DEF TypeInv, CellsTyped
  <1>1. ASSUME AdmitHandoverRequest(s, d) PROVE TypeInv'
    <2> DEFINE p == NextPlace(d)
               x == [NewContext("HANDOVER_JOINING", [cell |-> s, rnti |-> m.old])
                         EXCEPT !.teid = m.teid, !.pending = (m.teid # 0)]
               n == X2("HandoverRequestAck", m.old, p.rnti, 0)
    <2>1. NextX2(s, d, "HandoverRequest") /\ ~NoRntiLeft(d)
      BY <1>1 DEF AdmitHandoverRequest
    <2>2. /\ s \in Cells /\ d \in Cells /\ m.old \in Rntis \cup {0} /\ m.teid \in Teids \cup {0} /\ Settled
          /\ \A k \in X2Msgs : X2Answered(s, d, k) \in [Links -> Seq(X2Msgs)]
      BY <2>1, NextX2Types
    <2>3. CASE m.teid # 0 /\ x2uTeidInfo[d][m.teid] # 0
      BY <1>1, <2>3, AbortTypes DEF AdmitHandoverRequest
    <2>4. CASE ~(m.teid # 0 /\ x2uTeidInfo[d][m.teid] # 0)
      <3>1. /\ ctx' = [ctx EXCEPT ![p] = x]
            /\ lastRnti' = [lastRnti EXCEPT ![d] = p.rnti]
            /\ x2uTeidInfo' = [x2uTeidInfo EXCEPT ![d] =
                     [t \in Teids |-> IF t = m.teid THEN p.rnti ELSE @[t]]]
            /\ x2' = X2Answered(s, d, n)
            /\ UNCHANGED <<conf, ue, app, coreVars, rrc>>
        BY <1>1, <2>4 DEF AdmitHandoverRequest, ueVars
      <3>2. p \in Places /\ p.rnti \in Rntis
        BY <2>1, <2>2, <1>t, NextPlaceTypes
      <3>3. x \in Contexts
        <4>1. [cell |-> s, rnti |-> m.old] \in Spots
          BY <2>2 DEF Spots
        <4> QED
          BY <4>1, <2>2, JoiningContext
      <3>4. n \in X2Msgs
        BY <2>2, <3>2, X2Types DEF X2Names
      <3> HIDE DEF x, n, p, m
      <3>5. x2uTeidInfo' \in [Cells -> [Teids -> Rntis \cup {0}]]
        BY <3>1, <3>2, <2>2 DEF TypeInv, CellsTyped
      <3>6. CellsTyped'
        BY <3>1, <3>2, <3>3, <3>5, <2>2, <1>t DEF TypeInv, CellsTyped
      <3>7. LinksTyped'
        BY <3>1, <3>4, <2>2 DEF TypeInv, LinksTyped
      <3> QED
        BY <3>1, <3>6, <3>7, Frames DEF TypeInv
    <2> QED
      BY <2>3, <2>4
  <1>2. ASSUME RefuseHandoverRequest(s, d) PROVE TypeInv'
    <2> DEFINE n == X2("PreparationFailure", m.old, 0, 0)
    <2>1. /\ NextX2(s, d, "HandoverRequest") /\ x2' = X2Answered(s, d, n)
          /\ UNCHANGED <<conf, ue, ctx, x2uTeidInfo, app, coreVars, rrc>>
          /\ UNCHANGED lastRnti \/ (~NoRntiLeft(d) /\ lastRnti' = [lastRnti EXCEPT ![d] = @ + 1])
      BY <1>2 DEF RefuseHandoverRequest, ueVars
    <2>2. /\ d \in Cells /\ m.old \in Rntis \cup {0}
          /\ \A k \in X2Msgs : X2Answered(s, d, k) \in [Links -> Seq(X2Msgs)]
      BY <2>1, NextX2Types
    <2>3. n \in X2Msgs
      BY <2>2, X2Types DEF X2Names
    <2>4. ~NoRntiLeft(d) => lastRnti[d] + 1 \in Rntis
      BY <2>2, <1>t, NextPlaceTypes
    <2> HIDE DEF n
    <2>5. lastRnti' \in [Cells -> Rntis \cup {0}]
      BY <2>1, <2>2, <2>4, <1>t
    <2>6. CellsTyped'
      BY <2>1, <2>5 DEF TypeInv, CellsTyped
    <2>7. LinksTyped'
      BY <2>1, <2>2, <2>3 DEF TypeInv, LinksTyped
    <2> QED
      BY <2>1, <2>6, <2>7, Frames DEF TypeInv
  <1>3. ASSUME RecvHandoverRequestAck(s, d) PROVE TypeInv'
    <2> DEFINE p == [cell |-> d, rnti |-> m.old]
               q == [cell |-> s, rnti |-> m.new]
               n == HandoverCommand(p, q)
    <2>1. NextX2(s, d, "HandoverRequestAck")
      BY <1>3 DEF RecvHandoverRequestAck
    <2>2. CASE ~HasUeManager(p)
      BY <1>3, <2>2, AbortTypes DEF RecvHandoverRequestAck
    <2>3. CASE HasUeManager(p)
      <3>1. /\ ctx' = [ctx EXCEPT ![p].state = "HANDOVER_LEAVING", ![p].target = q,
                                  ![p].timers = @ \cup {"leaving"}]
            /\ rrc' = Put(rrc, Via("down"), n)
            /\ x2' = X2Taken(s, d)
            /\ UNCHANGED <<conf, ue, lastRnti, x2uTeidInfo, app, coreVars>>
        BY <1>3, <2>3 DEF RecvHandoverRequestAck, ueVars
      <3>2. s \in Cells /\ m.new \in Rntis /\ Settled /\ X2Taken(s, d) \in [Links -> Seq(X2Msgs)]
        BY <2>1, NextX2Types
      <3>3. p \in Places /\ q \in Places /\ q \in Spots
        BY <2>3, <3>2 DEF HasUeManager, Places, Spots
      <3>4. n \in RrcMsgs /\ n.msg = "HandoverCommand"
        BY <3>3, RrcTypes
      <3>5. Carries(Via("down"), n) /\ ~Asking(n)
        BY <3>4 DEF Carries, Asking
      <3> HIDE DEF n, p, q
      <3>6. rrc' \in [Channels -> Seq(RrcMsgs)] /\ OneEvent'
        BY <3>1, <3>2, <3>4, <3>5, SettledTypes
      <3>7. CellsTyped'
        <4>1. "HANDOVER_LEAVING" \in ContextStates
          BY DEF ContextStates
        <4>2. Turned(ctx, [ctx EXCEPT ![p].state = "HANDOVER_LEAVING", ![p].target = q,
                                      ![p].timers = @ \cup {"leaving"}], p,
                     "HANDOVER_LEAVING", ctx[p].source, q, ctx[p].timers \cup {"leaving"})
          BY <4>1, <3>3, <1>t, TargetSet
        <4> QED
          BY <4>2, <3>1 DEF TypeInv, CellsTyped, Turned
      <3>8. LinksTyped'
        BY <3>1, <3>2, <3>6 DEF LinksTyped
      <3> QED
        BY <3>1, <3>6, <3>7, <3>8, Frames DEF TypeInv
    <2> QED
      BY <2>2, <2>3
  <1> QED
    BY <1>1, <1>2, <1>3

(* A context is removed and the UE released.                               *)
LEMMA ReleasedTypes ==
    ASSUME TypeInv, Settled, NEW p \in Places, RrcConnectionReleased(p),
           UNCHANGED <<conf, ue, lastRnti, mmeCell, sgw, pgw, s5, reply>>, x2' \in [Links -> Seq(X2Msgs)]
    PROVE  TypeInv'
  <1> DEFINE n == Rrc("Release", p)
  <1>1. CellsTyped'
    BY RemoveUeTypes DEF RrcConnectionReleased, TypeInv
  <1>2. s11' \in Seq(CoreMsgs)
    BY ReleaseBearersTypes DEF RrcConnectionReleased, TypeInv
  <1>3. CoreTyped'
    BY <1>2 DEF TypeInv, CoreTyped
  <1>4. n \in RrcMsgs /\ n.msg = "Release"
    BY RrcTypes DEF RrcNames
  <1>5. Carries("now", n) /\ ~Asking(n)
    BY <1>4 DEF Carries, Asking
  <1>6. rrc' = Put(rrc, "now", n)
    BY DEF RrcConnectionReleased
  <1> HIDE DEF n
  <1>7. rrc' \in [Channels -> Seq(RrcMsgs)] /\ OneEvent'
    BY <1>4, <1>5, <1>6, SettledTypes
  <1>8. LinksTyped'
    BY <1>7 DEF LinksTyped
  <1> QED
    BY <1>1, <1>3, <1>7, <1>8, Frames DEF TypeInv

(* A context becomes connected by a message of another node.               *)
LEMMA SettledConnectedTypes ==
    ASSUME TypeInv, Settled, NEW p \in Places, ctx' = [ctx EXCEPT ![p] = ConnectedNormally(@)],
           rrc' = Reconfigured(rrc, p), UNCHANGED <<conf, ue, lastRnti, x2uTeidInfo, app>>
    PROVE  CellsTyped' /\ rrc' \in [Channels -> Seq(RrcMsgs)] /\ OneEvent'
  <1> DEFINE m == Rrc("Reconfiguration", p)
  <1>1. rrc \in [Channels -> Seq(RrcMsgs)] /\ Events(rrc) /\ rrc["now"] = <<>> /\ conf \in Confs
    BY DEF TypeInv, LinksTyped, OneEvent, CellsTyped, Settled
  <1>2. /\ rrc' \in [Channels -> Seq(RrcMsgs)] /\ Events(rrc')
        /\ rrc'["now"] \in {<<>>, <<m>>} /\ m \in RrcMsgs /\ m.msg = "Reconfiguration"
    BY <1>1, ReconfiguredTypes
  <1>3. ~Asking(m)
    BY <1>2 DEF Asking
  <1> HIDE DEF m
  <1>4. OneEvent'
    BY <1>2, <1>3, OneEventThen
  <1>5. CellsTyped'
    BY ConnectedTypes DEF TypeInv, CellsTyped
  <1> QED
    BY <1>2, <1>4, <1>5

(* The end of a handover.                                                  *)
LEMMA EndingTypes ==
    ASSUME TypeInv, NEW l \in Links,
           \/ RecvHandoverPreparationFailure(l[1], l[2]) \/ RecvUeContextRelease(l[1], l[2])
           \/ RecvHandoverCancel(l[1], l[2])
    PROVE  TypeInv'
  <1> DEFINE s == l[1]
             d == l[2]
             m == Head(x2[<<s, d>>])
  <1>t. ctx \in [Places -> Contexts] /\ rrc \in [Channels -> Seq(RrcMsgs)]
    BY DEF TypeInv, CellsTyped, LinksTyped
  <1>1. ASSUME RecvHandoverPreparationFailure(s, d) PROVE TypeInv'
    <2> DEFINE p == [cell |-> d, rnti |-> m.old]
               state == IF HasUeManager(p) THEN ctx[p].state ELSE "NONE"
    <2>1. NextX2(s, d, "PreparationFailure")
      BY <1>1 DEF RecvHandoverPreparationFailure
    <2>2. X2Taken(s, d) \in [Links -> Seq(X2Msgs)] /\ Settled
      BY <2>1, NextX2Types
    <2>3. state # "NONE" => p \in Places
      BY DEF HasUeManager
    <2>4. CASE state = "NONE"
      <3>1. x2' = X2Taken(s, d) /\ UNCHANGED <<conf, ue, ctx, lastRnti, x2uTeidInfo, app, coreVars, rrc>>
        BY <1>1, <2>4 DEF RecvHandoverPreparationFailure, ueVars
      <3>2. LinksTyped'
        BY <3>1, <2>2 DEF TypeInv, LinksTyped
      <3> QED
        BY <3>1, <3>2, Frames DEF TypeInv
    <2>5. CASE state = "HANDOVER_PREPARATION" /\ ctx[p].target.cell = s
      <3>1. /\ x2' = X2Taken(s, d) /\ ctx' = [ctx EXCEPT ![p] = ConnectedNormally(@)]
            /\ rrc' = Reconfigured(rrc, p)
            /\ UNCHANGED <<conf, ue, lastRnti, x2uTeidInfo, app, coreVars>>
        BY <1>1, <2>5 DEF RecvHandoverPreparationFailure, ueVars
      <3>2. p \in Places
        BY <2>3, <2>5
      <3> HIDE DEF p, state
      <3>3. CellsTyped' /\ rrc' \in [Channels -> Seq(RrcMsgs)] /\ OneEvent'
        BY <3>1, <3>2, <2>2, SettledConnectedTypes
      <3>4. LinksTyped'
        BY <3>1, <3>3, <2>2 DEF LinksTyped
      <3> QED
        BY <3>1, <3>3, <3>4, Frames DEF TypeInv
    <2>6. CASE state = "HANDOVER_LEAVING" /\ ctx[p].target.cell = s
      <3>1. /\ x2' = X2Taken(s, d) /\ RrcConnectionReleased(p)
            /\ UNCHANGED <<conf, ue, lastRnti, mmeCell, sgw, pgw, s5, reply>>
        BY <1>1, <2>6 DEF RecvHandoverPreparationFailure, ueVars
      <3>2. p \in Places
        BY <2>3, <2>6
      <3> HIDE DEF p, state
      <3> QED
        BY <3>1, <3>2, <2>2, ReleasedTypes
    <2>7. CASE /\ state # "NONE" /\ ~(state = "HANDOVER_PREPARATION" /\ ctx[p].target.cell = s)
               /\ ~(state = "HANDOVER_LEAVING" /\ ctx[p].target.cell = s)
      BY <1>1, <2>7, AbortTypes DEF RecvHandoverPreparationFailure
    <2> QED
      BY <2>4, <2>5, <2>6, <2>7
  <1>2. ASSUME RecvUeContextRelease(s, d) PROVE TypeInv'
    <2> DEFINE p == [cell |-> d, rnti |-> m.old]
    <2>1. NextX2(s, d, "UeContextRelease")
      BY <1>2 DEF RecvUeContextRelease
    <2>2. X2Taken(s, d) \in [Links -> Seq(X2Msgs)]
      BY <2>1, NextX2Types
    <2>3. CASE HasUeManager(p) /\ ctx[p].state # "HANDOVER_LEAVING"
      BY <1>2, <2>3, AbortTypes DEF RecvUeContextRelease
    <2>4. CASE ~(HasUeManager(p) /\ ctx[p].state # "HANDOVER_LEAVING")
      <3>1. /\ x2' = X2Taken(s, d)
            /\ (HasUeManager(p) /\ RemoveUe(p)) \/ UNCHANGED <<ctx, x2uTeidInfo, app>>
            /\ UNCHANGED <<conf, ue, lastRnti, coreVars, rrc>>
        BY <1>2, <2>4 DEF RecvUeContextRelease, ueVars
      <3>2. HasUeManager(p) => p \in Places
        BY DEF HasUeManager
      <3> HIDE DEF p
      <3>3. CellsTyped'
        BY <3>1, <3>2, RemoveUeTypes, Frames DEF TypeInv
      <3>4. LinksTyped'
        BY <3>1, <2>2 DEF TypeInv, LinksTyped
      <3> QED
        BY <3>1, <3>3, <3>4, Frames DEF TypeInv
    <2> QED
      BY <2>3, <2>4
  <1>3. ASSUME RecvHandoverCancel(s, d) PROVE TypeInv'
    <2> DEFINE p == [cell |-> d, rnti |-> m.new]
    <2>1. NextX2(s, d, "HandoverCancel")
      BY <1>3 DEF RecvHandoverCancel
    <2>2. X2Taken(s, d) \in [Links -> Seq(X2Msgs)]
      BY <2>1, NextX2Types
    <2>3. CASE HasUeManager(p) /\ ctx[p].state # "HANDOVER_JOINING"
      BY <1>3, <2>3, AbortTypes DEF RecvHandoverCancel
    <2>4. CASE ~(HasUeManager(p) /\ ctx[p].state # "HANDOVER_JOINING")
      <3>1. /\ x2' = X2Taken(s, d)
            /\ \/ HasUeManager(p) /\ ctx' = [ctx EXCEPT ![p].timers = @ \ {"joining"}] /\ ReleaseBearers(p)
               \/ UNCHANGED <<ctx, s11>>
            /\ UNCHANGED <<conf, ue, lastRnti, x2uTeidInfo, app, mmeCell, sgw, pgw, s5, reply, rrc>>
        BY <1>3, <2>4 DEF RecvHandoverCancel, ueVars
      <3>2. HasUeManager(p) => p \in Places
        BY DEF HasUeManager
      <3> HIDE DEF p
      <3>3. ctx' \in [Places -> Contexts]
        <4>1. CASE HasUeManager(p) /\ ctx' = [ctx EXCEPT ![p].timers = @ \ {"joining"}]
          <5>1. Turned(ctx, ctx', p, ctx[p].state, ctx[p].source, ctx[p].target, ctx[p].timers \ {"joining"})
            BY <4>1, <3>2, <1>t, StateKept
          <5> QED
            BY <5>1 DEF Turned
        <4>2. CASE UNCHANGED ctx
          BY <4>2, <1>t
        <4> QED
          BY <4>1, <4>2, <3>1
      <3>4. s11' \in Seq(CoreMsgs)
        <4>1. CASE ReleaseBearers(p)
          BY <4>1, ReleaseBearersTypes DEF TypeInv
        <4>2. CASE UNCHANGED s11
          BY <4>2 DEF TypeInv, CoreTyped
        <4> QED
          BY <4>1, <4>2, <3>1
      <3>5. CellsTyped' /\ CoreTyped'
        <4>1. CellsTyped'
          BY <3>1, <3>3 DEF TypeInv, CellsTyped
        <4>2. CoreTyped'
          BY <3>1, <3>4 DEF TypeInv, CoreTyped
        <4> QED
          BY <4>1, <4>2
      <3>6. LinksTyped'
        BY <3>1, <2>2 DEF TypeInv, LinksTyped
      <3> QED
        BY <3>1, <3>5, <3>6, Frames DEF TypeInv
    <2> QED
      BY <2>3, <2>4
  <1> QED
    BY <1>1, <1>2, <1>3

(* Downlink data at an eNB.                                                *)
LEMMA SendDataTypes ==
    ASSUME TypeInv, NEW p, NEW x \in [Links -> Seq(X2Msgs)], NEW k, SendData(p, x, k)
    PROVE  TypeInv'
  <1>1. CASE ~HasUeManager(p) \/ ctx[p].state \in {"ATTACH_REQUEST", "CONNECTION_REJECTED"}
    BY <1>1, AbortTypes DEF SendData
  <1>2. CASE HasUeManager(p) /\ ctx[p].state \notin {"ATTACH_REQUEST", "CONNECTION_REJECTED"}
    <2> DEFINE n == X2("UeData", 0, 0, ctx[p].teid)
    <2>1. /\ ctx' = [ctx EXCEPT ![p].buffer = @ + 1] \/ UNCHANGED ctx
          /\ x2' = [x EXCEPT ![<<p.cell, ctx[p].target.cell>>] = Append(@, n)] \/ x2' = x
          /\ UNCHANGED <<conf, ue, lastRnti, x2uTeidInfo, app, coreVars, rrc>>
      BY <1>2 DEF SendData, ueVars
    <2>2. p \in Places /\ ctx \in [Places -> Contexts] /\ ctx[p].teid \in Teids \cup {0}
      BY <1>2 DEF HasUeManager, TypeInv, CellsTyped, Contexts
    <2>3. n \in X2Msgs
      BY <2>2, X2Types DEF X2Names
    <2> HIDE DEF n
    <2> DEFINE a == p.cell
               b == ctx[p].target.cell
               y == [x EXCEPT ![<<a, b>>] = Append(@, n)]
    <2>4. x2' \in [Links -> Seq(X2Msgs)]
      <3>1. x2' = y \/ x2' = x
        BY <2>1
      <3> HIDE DEF a, b
      <3>2. y \in [Links -> Seq(X2Msgs)]
        BY <2>3, LinkGrows
      <3> HIDE DEF y
      <3> QED
        BY <3>1, <3>2
    <2>5. ctx' \in [Places -> Contexts]
      <3>1. CASE ctx' = [ctx EXCEPT ![p].buffer = @ + 1]
        <4>1. Turned(ctx, ctx', p, ctx[p].state, ctx[p].source, ctx[p].target, ctx[p].timers)
          BY <3>1, <2>2, StateKept
        <4> QED
          BY <4>1 DEF Turned
      <3>2. CASE UNCHANGED ctx
        BY <3>2, <2>2
      <3> QED
        BY <3>1, <3>2, <2>1
    <2>6. CellsTyped' /\ LinksTyped'
      BY <2>1, <2>4, <2>5 DEF TypeInv, CellsTyped, LinksTyped
    <2> QED
      BY <2>1, <2>6, Frames DEF TypeInv
  <1> QED
    BY <1>1, <1>2

(* A downlink packet on its way preserves the types.                       *)
LEMMA DataTypes ==
    ASSUME TypeInv, SendDownlink \/ RecvFromS1u \/ \E l \in Links : RecvUeData(l[1], l[2])
    PROVE  TypeInv'
  <1>1. ASSUME SendDownlink PROVE TypeInv'
    <2>1. UNCHANGED <<conf, ue, ctx, lastRnti, x2uTeidInfo, app, coreVars, x2, rrc>>
      BY <1>1 DEF SendDownlink, ueVars
    <2> QED
      BY <2>1, Frames DEF TypeInv
  <1>2. ASSUME RecvFromS1u PROVE TypeInv'
    <2> DEFINE rnti == app[packet.hop].teidRnti[packet.teid]
    <2>1. CASE rnti = 0
      <3>1. UNCHANGED <<conf, ue, ctx, lastRnti, x2uTeidInfo, app, coreVars, x2, rrc>>
        BY <1>2, <2>1 DEF RecvFromS1u, ueVars
      <3> QED
        BY <3>1, Frames DEF TypeInv
    <2>2. CASE rnti # 0
      <3>1. SendData([cell |-> packet.hop, rnti |-> rnti], x2, NoPacket)
        BY <1>2, <2>2 DEF RecvFromS1u
      <3>2. x2 \in [Links -> Seq(X2Msgs)]
        BY DEF TypeInv, LinksTyped
      <3> QED
        BY <3>1, <3>2, SendDataTypes
    <2> QED
      BY <2>1, <2>2
  <1>3. ASSUME NEW l \in Links, RecvUeData(l[1], l[2]) PROVE TypeInv'
    <2> DEFINE s == l[1]
               d == l[2]
               rnti == x2uTeidInfo[d][Head(x2[<<s, d>>]).teid]
    <2>1. NextX2(s, d, "UeData")
      BY <1>3 DEF RecvUeData
    <2>2. X2Taken(s, d) \in [Links -> Seq(X2Msgs)]
      BY <2>1, NextX2Types
    <2>3. CASE rnti = 0
      BY <1>3, <2>3, AbortTypes DEF RecvUeData
    <2>4. CASE rnti # 0
      <3>1. SendData([cell |-> d, rnti |-> rnti], X2Taken(s, d), packet)
        BY <1>3, <2>4 DEF RecvUeData
      <3> QED
        BY <3>1, <2>2, SendDataTypes
    <2> QED
      BY <2>3, <2>4
  <1> QED
    BY <1>1, <1>2, <1>3


(* The timers of the eNB.                                                  *)
LEMMA TimerTypes ==
    ASSUME TypeInv, NEW p \in Places, TimerStep(p)
    PROVE  TypeInv'
  <1>s. /\ ctx[p].source \in Spots /\ ctx[p].source.rnti \in Rntis \cup {0}
        /\ ctx[p].target \in Spots /\ ctx[p].target.rnti \in Rntis \cup {0}
        /\ p.rnti \in Rntis \cup {0} /\ 0 \in Teids \cup {0} /\ 0 \in Rntis \cup {0}
    BY PlaceTypes DEF TypeInv, CellsTyped, Contexts, Spots
  <1>1. ASSUME NEW timer \in {"request", "setup", "rejected"}, ConnectionTimersExpire(p, timer) PROVE TypeInv'
    <2>1. CASE ctx[p].state # TimerState[timer]
      BY <1>1, <2>1, AbortTypes DEF ConnectionTimersExpire
    <2>2. CASE ctx[p].state = TimerState[timer]
      <3>1. RemoveUe(p) /\ UNCHANGED <<conf, ue, lastRnti, coreVars, x2, rrc>>
        BY <1>1, <2>2 DEF ConnectionTimersExpire, ueVars
      <3>2. CellsTyped'
        BY <3>1, RemoveUeTypes DEF TypeInv
      <3> QED
        BY <3>1, <3>2, Frames DEF TypeInv
    <2> QED
      BY <2>1, <2>2
  <1>2. ASSUME HandoverJoiningTimeout(p) PROVE TypeInv'
    <2>1. CASE ctx[p].state # TimerState["joining"]
      BY <1>2, <2>1, AbortTypes DEF HandoverJoiningTimeout
    <2>2. CASE ctx[p].state = TimerState["joining"]
      <3> DEFINE n == X2("PreparationFailure", ctx[p].source.rnti, 0, 0)
      <3>1. /\ RemoveUe(p) /\ UNCHANGED <<conf, ue, lastRnti, coreVars, rrc>>
            /\ x2' = SendX2(p.cell, ctx[p].source.cell, n)
        BY <1>2, <2>2 DEF HandoverJoiningTimeout, ueVars
      <3>2. n \in X2Msgs
        BY <1>s, X2Types DEF X2Names
      <3> HIDE DEF n
      <3>3. CellsTyped'
        BY <3>1, RemoveUeTypes DEF TypeInv
      <3>4. SendX2(p.cell, ctx[p].source.cell, n) \in [Links -> Seq(X2Msgs)]
        BY <3>2, X2LinkTypes DEF TypeInv
      <3>5. LinksTyped'
        BY <3>1, <3>4 DEF TypeInv, LinksTyped
      <3> QED
        BY <3>1, <3>3, <3>5, Frames DEF TypeInv
    <2> QED
      BY <2>1, <2>2
  <1>3. ASSUME HandoverLeavingTimeout(p) PROVE TypeInv'
    <2>1. CASE ctx[p].state # TimerState["leaving"]
      BY <1>3, <2>1, AbortTypes DEF HandoverLeavingTimeout
    <2>2. CASE ctx[p].state = TimerState["leaving"]
      <3> DEFINE n == X2("HandoverCancel", p.rnti, ctx[p].target.rnti, 0)
      <3>1. /\ Settled /\ RrcConnectionReleased(p)
            /\ UNCHANGED <<conf, ue, lastRnti, mmeCell, sgw, pgw, s5, reply>>
            /\ x2' = SendX2(p.cell, ctx[p].target.cell, n)
        BY <1>3, <2>2 DEF HandoverLeavingTimeout, ueVars
      <3>2. n \in X2Msgs
        BY <1>s, X2Types DEF X2Names
      <3> HIDE DEF n
      <3>4. SendX2(p.cell, ctx[p].target.cell, n) \in [Links -> Seq(X2Msgs)]
        BY <3>2, X2LinkTypes DEF TypeInv
      <3> QED
        BY <3>1, <3>4, ReleasedTypes
    <2> QED
      BY <2>1, <2>2
  <1> QED
    BY <1>1, <1>2, <1>3 DEF TimerStep

(* The SGW and the PGW.                                                    *)
LEMMA GatewayTypes ==
    ASSUME TypeInv, SgwRecvFromMme \/ PgwRecvFromSgw
    PROVE  TypeInv'
  <1>s. /\ sgw.teidCount \in Teids \cup {0} /\ sgw.enb \in [Teids -> Cells \cup {0}]
        /\ sgw = [teidCount |-> sgw.teidCount, enb |-> sgw.enb]
        /\ pgw.bearer \in Teids \cup {0} /\ pgw.tfts \in SUBSET Teids
    BY DEF TypeInv, CoreTyped
  <1>1. ASSUME SgwRecvFromMme PROVE TypeInv'
    <2> DEFINE m == Head(s11)
               teid == sgw.teidCount + 1
    <2>1. /\ s11 # <<>>
          /\ m.msg = "CreateSessionRequest" => sgw.teidCount < MaxAttach
          /\ s11' = Tail(s11) /\ UNCHANGED <<conf, ue, ctx, lastRnti, x2uTeidInfo, app, mmeCell, pgw, reply, x2, rrc>>
      BY <1>1 DEF SgwRecvFromMme, ueVars
    <2>2. m \in CoreMsgs /\ s11' \in Seq(CoreMsgs)
      BY <2>1 DEF TypeInv, CoreTyped
    <2>3. m.msg \in CoreNames /\ m.cell \in Cells \cup {0} /\ m.teid \in Teids \cup {0}
      BY <2>2 DEF CoreMsgs
    <2>4. m.msg = "CreateSessionRequest" => teid \in Teids
      BY <2>1, <1>s, BoundsAssumption DEF Teids
    <2>5. CASE m.msg = "CreateSessionRequest"
      <3>1. /\ sgw' = [teidCount |-> teid, enb |-> [sgw.enb EXCEPT ![teid] = m.cell]]
            /\ s5' = Append(s5, [m EXCEPT !.teid = teid])
        BY <1>1, <2>5 DEF SgwRecvFromMme
      <3> HIDE DEF m, teid
      <3>2. [m EXCEPT !.teid = teid] \in Requests
        BY <2>2, <2>4, <2>5 DEF CoreMsgs, Requests
      <3>3. [sgw.enb EXCEPT ![teid] = m.cell] \in [Teids -> Cells \cup {0}]
        BY <1>s, <2>3
      <3>4. sgw' \in [teidCount : Teids \cup {0}, enb : [Teids -> Cells \cup {0}]]
        BY <3>1, <3>3, <2>4, <2>5
      <3>5. s5' \in Seq(Requests)
        BY <3>1, <3>2 DEF TypeInv, CoreTyped
      <3>6. CoreTyped'
        BY <3>4, <3>5, <2>1, <2>2 DEF TypeInv, CoreTyped
      <3> QED
        BY <3>6, <2>1, Frames DEF TypeInv
    <2>6. CASE m.msg # "CreateSessionRequest"
      <3>1. /\ sgw' = sgw \/ sgw' = [sgw EXCEPT !.enb[m.teid] = m.cell]
            /\ s5' = Append(s5, m)
        BY <1>1, <2>6 DEF SgwRecvFromMme
      <3>0. m \in Requests
        BY <2>2, <2>6 DEF Requests
      <3> HIDE DEF m, teid
      <3>3. [sgw EXCEPT !.enb[m.teid] = m.cell] \in [teidCount : Teids \cup {0}, enb : [Teids -> Cells \cup {0}]]
        BY <2>3 DEF TypeInv, CoreTyped
      <3>4. sgw' \in [teidCount : Teids \cup {0}, enb : [Teids -> Cells \cup {0}]]
        BY <3>1, <3>3 DEF TypeInv, CoreTyped
      <3>5. s5' \in Seq(Requests)
        BY <3>1, <3>0 DEF TypeInv, CoreTyped
      <3>6. CoreTyped'
        BY <3>4, <3>5, <2>1, <2>2 DEF TypeInv, CoreTyped
      <3> QED
        BY <3>6, <2>1, Frames DEF TypeInv
    <2> QED
      BY <2>5, <2>6
  <1>2. ASSUME PgwRecvFromSgw PROVE TypeInv'
    <2> DEFINE m == Head(s5)
    <2>1. /\ s5 # <<>> /\ s5' = Tail(s5)
          /\ UNCHANGED <<conf, ue, ctx, lastRnti, x2uTeidInfo, app, mmeCell, sgw, s11, x2, rrc>>
      BY <1>2 DEF PgwRecvFromSgw, ueVars
    <2>2. m \in Requests /\ s5' \in Seq(Requests)
      BY <2>1 DEF TypeInv, CoreTyped
    <2>3. m.msg \in CoreNames /\ m.teid \in Teids \cup {0} /\ (m.msg = "CreateSessionRequest" => m.teid \in Teids)
      BY <2>2 DEF Requests, CoreMsgs
    <2>4. /\ \/ pgw' = pgw \/ pgw' = [bearer |-> 0, tfts |-> pgw.tfts \ {pgw.bearer}]
             \/ m.msg = "CreateSessionRequest" /\ pgw' = [bearer |-> m.teid, tfts |-> pgw.tfts \cup {m.teid}]
          /\ \/ reply' = reply
             \/ m.msg = "CreateSessionRequest" /\ reply' = Append(reply, Gtpc("CreateSessionResponse", 0, m.teid))
             \/ reply' = Append(reply, Gtpc("ModifyBearerResponse", 0, 0))
             \/ reply' = Append(reply, Gtpc("DeleteBearerRequest", 0, 0))
      BY <1>2 DEF PgwRecvFromSgw
    <2> HIDE DEF m
    <2>5. pgw' \in [bearer : Teids \cup {0}, tfts : SUBSET Teids]
      BY <2>4, <2>3, <1>s DEF TypeInv, CoreTyped
    <2>6. /\ m.msg = "CreateSessionRequest" => Gtpc("CreateSessionResponse", 0, m.teid) \in Responses
          /\ Gtpc("ModifyBearerResponse", 0, 0) \in Responses /\ Gtpc("DeleteBearerRequest", 0, 0) \in Responses
      BY <2>3, GtpcTypes DEF CoreNames
    <2>7. reply' \in Seq(Responses)
      <3>1. reply' = reply \/ \E n \in Responses : reply' = Append(reply, n)
        BY <2>4, <2>6, Zenon
      <3>2. reply \in Seq(Responses)
        BY DEF TypeInv, CoreTyped
      <3> QED
        BY <3>1, <3>2
    <2>8. CoreTyped'
      BY <2>1, <2>2, <2>5, <2>7 DEF TypeInv, CoreTyped
    <2> QED
      BY <2>8, <2>1, Frames DEF TypeInv
  <1> QED
    BY <1>1, <1>2

(* The MME.                                                                *)
LEMMA MmeTypes ==
    ASSUME TypeInv,
           MmeRecvCreateSessionResponse \/ MmeRecvModifyBearerResponse \/ MmeRecvDeleteBearerRequest
    PROVE  TypeInv'
  <1> DEFINE p == [cell |-> mmeCell, rnti |-> app[mmeCell].imsiRnti]
  <1>r. rrc \in [Channels -> Seq(RrcMsgs)] /\ x2 \in [Links -> Seq(X2Msgs)] /\ reply \in Seq(Responses)
    BY DEF TypeInv, LinksTyped, CoreTyped
  <1>t. reply # <<>> => Tail(reply) \in Seq(Responses) /\ Head(reply) \in Responses
    BY <1>r
  <1>c. ctx \in [Places -> Contexts] /\ app \in [Cells -> Maps]
    BY DEF TypeInv, CellsTyped
  <1>1. ASSUME MmeRecvCreateSessionResponse PROVE TypeInv'
    <2> DEFINE teid == Head(reply).teid
               good == HasUeManager(p) /\ ctx[p].teid = 0 /\ ctx[p].state = "ATTACH_REQUEST"
    <2>1. CASE ~good
      BY <1>1, <2>1, AbortTypes DEF MmeRecvCreateSessionResponse
    <2>2. CASE good
      <3>1. /\ Settled /\ reply # <<>> /\ Head(reply).msg = "CreateSessionResponse" /\ reply' = Tail(reply)
            /\ ctx' = [ctx EXCEPT ![p].state = "CONNECTION_RECONFIGURATION", ![p].teid = teid]
            /\ rrc' = Put(rrc, Via("down"), Rrc("Reconfiguration", p))
            /\ app' = [app EXCEPT ![p.cell].rntiTeid[p.rnti] = teid, ![p.cell].teidRnti[teid] = p.rnti]
            /\ UNCHANGED <<conf, ue, lastRnti, x2uTeidInfo, mmeCell, sgw, pgw, s11, s5, x2>>
        BY <1>1, <2>2 DEF MmeRecvCreateSessionResponse, ueVars
      <3>2. p \in Places /\ p.cell \in Cells /\ p.rnti \in Rntis
        BY <2>2, PlaceTypes DEF HasUeManager
      <3>3. teid \in Teids \cup {0}
        BY <3>1, <1>t DEF Responses, CoreMsgs
      <3> HIDE DEF p, teid
      <3>4. Turned(ctx, [ctx EXCEPT ![p].state = "CONNECTION_RECONFIGURATION", ![p].teid = teid], p,
                   "CONNECTION_RECONFIGURATION", ctx[p].source, ctx[p].target, ctx[p].timers)
        BY <3>2, <3>3, <1>c, TeidSet DEF ContextStates
      <3>5. ctx' \in [Places -> Contexts]
        BY <3>1, <3>4 DEF Turned
      <3>6. [app EXCEPT ![p.cell].rntiTeid[p.rnti] = teid, ![p.cell].teidRnti[teid] = p.rnti] \in [Cells -> Maps]
        <4> DEFINE c == p.cell
                   r == p.rnti
        <4>1. c \in Cells /\ r \in Rntis
          BY <3>2
        <4> HIDE DEF c, r
        <4>2. [app EXCEPT ![c].rntiTeid[r] = teid, ![c].teidRnti[teid] = r] \in [Cells -> Maps]
          BY <4>1, <3>3, <1>c, BearerSet
        <4> QED
          BY <4>2 DEF c, r
      <3>7. CellsTyped'
        BY <3>1, <3>5, <3>6 DEF TypeInv, CellsTyped
      <3>8. /\ Rrc("Reconfiguration", p) \in RrcMsgs /\ ~Asking(Rrc("Reconfiguration", p))
            /\ Carries(Via("down"), Rrc("Reconfiguration", p))
        BY <3>2, RrcTypes DEF RrcNames, Asking, Carries
      <3>9. rrc' \in [Channels -> Seq(RrcMsgs)] /\ OneEvent'
        BY <3>1, <3>8, SettledTypes
      <3>10. LinksTyped'
        BY <3>1, <3>9, <1>r DEF LinksTyped
      <3>11. CoreTyped'
        BY <3>1, <1>t DEF TypeInv, CoreTyped
      <3> QED
        BY <3>1, <3>7, <3>9, <3>10, <3>11, Frames DEF TypeInv
    <2> QED
      BY <2>1, <2>2
  <1>2. ASSUME MmeRecvModifyBearerResponse PROVE TypeInv'
    <2> DEFINE good == HasUeManager(p) /\ ctx[p].state = "HANDOVER_PATH_SWITCH"
               n == X2("UeContextRelease", ctx[p].source.rnti, p.rnti, 0)
    <2>1. CASE ~good
      BY <1>2, <2>1, AbortTypes DEF MmeRecvModifyBearerResponse
    <2>2. CASE good
      <3>1. /\ Settled /\ reply # <<>> /\ reply' = Tail(reply)
            /\ x2' = SendX2(p.cell, ctx[p].source.cell, n)
            /\ ctx' = [ctx EXCEPT ![p] = ConnectedNormally(@)]
            /\ rrc' = Reconfigured(rrc, p)
            /\ UNCHANGED <<conf, ue, lastRnti, x2uTeidInfo, app, mmeCell, sgw, pgw, s11, s5>>
        BY <1>2, <2>2 DEF MmeRecvModifyBearerResponse, ueVars
      <3>2. p \in Places
        BY <2>2 DEF HasUeManager
      <3> HIDE DEF p
      <3>3. ctx[p].source.rnti \in Rntis \cup {0} /\ p.rnti \in Rntis \cup {0} /\ 0 \in Teids \cup {0}
        BY <3>2, <1>c, PlaceTypes DEF Contexts, Spots
      <3>4. n \in X2Msgs
        BY <3>3, X2Types DEF X2Names
      <3> HIDE DEF n
      <3>5. SendX2(p.cell, ctx[p].source.cell, n) \in [Links -> Seq(X2Msgs)]
        BY <3>4, X2LinkTypes DEF TypeInv
      <3>6. CellsTyped' /\ rrc' \in [Channels -> Seq(RrcMsgs)] /\ OneEvent'
        BY <3>1, <3>2, SettledConnectedTypes
      <3>7. LinksTyped'
        BY <3>1, <3>5, <3>6 DEF LinksTyped
      <3>8. CoreTyped'
        BY <3>1, <1>t DEF TypeInv, CoreTyped
      <3> QED
        BY <3>1, <3>6, <3>7, <3>8, Frames DEF TypeInv
    <2> QED
      BY <2>1, <2>2
  <1>3. ASSUME MmeRecvDeleteBearerRequest PROVE TypeInv'
    <2>1. /\ reply # <<>> /\ reply' = Tail(reply) /\ s11' = Append(s11, Gtpc("DeleteBearerResponse", 0, 0))
          /\ UNCHANGED <<conf, ue, ctx, lastRnti, x2uTeidInfo, app, mmeCell, sgw, pgw, s5, x2, rrc>>
      BY <1>3 DEF MmeRecvDeleteBearerRequest, ueVars
    <2>2. Gtpc("DeleteBearerResponse", 0, 0) \in CoreMsgs
      BY GtpcTypes DEF CoreNames
    <2>3. s11' \in Seq(CoreMsgs)
      BY <2>1, <2>2 DEF TypeInv, CoreTyped
    <2>4. CoreTyped'
      BY <2>1, <2>3, <1>t DEF TypeInv, CoreTyped
    <2> QED
      BY <2>1, <2>4, Frames DEF TypeInv
  <1> QED
    BY <1>1, <1>2, <1>3

(* Every step keeps the types.                                             *)
LEMMA StepTypes == TypeInv /\ [Next]_vars => TypeInv'
  <1> SUFFICES ASSUME TypeInv, [Next]_vars PROVE TypeInv'
    OBVIOUS
  <1>1. CASE UNCHANGED vars
    <2>1. UNCHANGED <<conf, ue, ctx, lastRnti, x2uTeidInfo, app, coreVars, x2, rrc>>
      BY <1>1 DEF vars, ueVars
    <2> QED
      BY <2>1, Frames DEF TypeInv
  <1>2. ASSUME NEW l \in Links, X2Step(l[1], l[2]) PROVE TypeInv'
    BY <1>2, PreparationTypes, EndingTypes, DataTypes DEF X2Step
  <1>3. CASE CoreStep
    BY <1>3, GatewayTypes, MmeTypes DEF CoreStep
  <1> QED
    BY <1>1, <1>2, <1>3, UeStepTypes, RrcStepTypes, PrepareTypes, TimerTypes, DataTypes DEF Next, Ended

(* The initial state has them.                                             *)
LEMMA InitTypes == Init => TypeInv
  <1> SUFFICES ASSUME Init PROVE TypeInv
    OBVIOUS
  <1>1. CellsTyped
    BY PlaceTypes DEF Init, CellsTyped, Maps
  <1>2. x2 \in [Links -> Seq(X2Msgs)] /\ rrc \in [Channels -> Seq(RrcMsgs)]
    BY DEF Init, Channels
  <1>3. CoreTyped
    BY DEF Init, CoreTyped
  <1>4. UeTyped
    BY PlaceTypes DEF Init, UeTyped, Idle, UeStates
  <1>5. OneEvent
    BY DEF Init, OneEvent, Events
  <1> QED
    BY <1>1, <1>2, <1>3, <1>4, <1>5 DEF TypeInv, LinksTyped

(* TypeOK: the variables of the RRC, of X2 and of the core network keep    *)
(* their types, whatever the order of messages, timers and failures.       *)
THEOREM TypeCorrect == Spec => []TypeOK
  <1>1. Init => TypeInv
    BY InitTypes
  <1>2. TypeInv /\ [Next]_vars => TypeInv'
    BY StepTypes
  <1>3. TypeInv => TypeOK
    BY TypesSuffice
  <1> QED
    BY <1>1, <1>2, <1>3, PTL DEF Spec
=============================================================================
