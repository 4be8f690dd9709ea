----------------------- MODULE OranE2RegistrationProofs -----------------------
(***************************************************************************)
(* Theorems about the registration of E2 nodes, for every set of nodes,    *)
(* all intervals, delays and thresholds, and behaviours of any length.     *)
(***************************************************************************)
EXTENDS OranE2Registration, TLAPS

(***************************************************************************)
(* Types.                                                                  *)
(***************************************************************************)
Row == [registered : BOOLEAN, at : Nat, tied : BOOLEAN]

(* What the attributes of the configuration are.                           *)
LEMMA ConfTyped ==
    ASSUME TypeOK
    PROVE  /\ conf.nodes \in SUBSET Nodes
           /\ conf.regIntervals \in SUBSET (Nat \ {0})
           /\ conf.delays \in SUBSET Nat
           /\ conf.threshold \in Nat
           /\ conf.checkIntervals \in SUBSET (Nat \ {0})
           /\ conf.delays # {} /\ conf.regIntervals # {} /\ conf.checkIntervals # {}
  BY ConfigAssumption DEF TypeOK, Config

(* The bounds of the ids.                                                  *)
LEMMA IdNumbers == Ids \subseteq Nat /\ 0 \in Ids /\ MaxId \in Nat
  BY ConfigAssumption DEF Ids

(* A message of either kind is what its kind says.                         *)
LEMMA MessageShape ==
    ASSUME NEW m \in Message
    PROVE  /\ m.id \in Ids /\ m.due \in Nat /\ m.no \in Nat
           /\ m.node \in Nodes \cup {NoNode}
           /\ m.kind # "DeregResponse" => m.node \in Nodes
  BY DEF Message, RegRequest, DeregRequest, RegResponse, DeregResponse

(* Building a message.                                                     *)
LEMMA MsgShape ==
    ASSUME NEW k \in {"RegRequest", "DeregRequest", "RegResponse", "DeregResponse"},
           NEW n \in Nodes \cup {NoNode}, k # "DeregResponse" => n \in Nodes,
           NEW i \in Ids, NEW t \in Nat, NEW o \in Nat
    PROVE  /\ Msg(k, n, i, t, o) \in Message
           /\ Msg(k, n, i, t, o).kind = k /\ Msg(k, n, i, t, o).node = n
           /\ Msg(k, n, i, t, o).id = i /\ Msg(k, n, i, t, o).due = t
           /\ Msg(k, n, i, t, o).no = o
  BY DEF Msg, Message, RegRequest, DeregRequest, RegResponse, DeregResponse

(* INSERT INTO noderegistration changes the row of one id: it is of now,   *)
(* and ambiguous only if the id was listed before.                         *)
LEMMA LogShape ==
    ASSUME NEW log \in [Ids -> Row], now \in Nat, NEW id \in Ids, NEW v \in BOOLEAN
    PROVE  /\ LogRegistration(log, id, v) \in [Ids -> Row]
           /\ \A i \in Ids : i # id => LogRegistration(log, id, v)[i] = log[i]
           /\ LogRegistration(log, id, v)[id].registered = v
           /\ LogRegistration(log, id, v)[id].at = now
           /\ LogRegistration(log, id, v)[id].tied =>
                 log[id] # NoRow /\ (log[id].tied \/ log[id].registered # v)
  BY DEF LogRegistration, Row

(* The same for the step that writes the row.                              *)
LEMMA Logged ==
    ASSUME TypeOK, NEW id \in Ids, NEW v \in BOOLEAN,
           registration' = LogRegistration(registration, id, v)
    PROVE  /\ registration' \in [Ids -> Row]
           /\ \A i \in Ids : i # id => registration'[i] = registration[i]
           /\ registration'[id].registered = v
           /\ registration'[id].at = now
           /\ registration'[id].tied =>
                 /\ registration[id] # NoRow
                 /\ registration[id].tied \/ registration[id].registered # v
  <1>1. registration \in [Ids -> Row] /\ now \in Nat
    BY DEF TypeOK, Row
  <1> QED
    BY <1>1, LogShape

(* Register of a node sends a request and schedules the next one.          *)
LEMMA RegisterShape ==
    ASSUME TypeOK, NEW n \in Nodes, Register(n)
    PROVE  \E d \in conf.delays, r \in conf.regIntervals :
              /\ msgs' = msgs \cup {Msg("RegRequest", n, e2NodeId[n], now + d, requests[n] + 1)}
              /\ Msg("RegRequest", n, e2NodeId[n], now + d, requests[n] + 1) \in Message
              /\ regEvent' = [regEvent EXCEPT ![n] = now + r]
              /\ requests' = [requests EXCEPT ![n] = @ + 1]
              /\ msgs' \in SUBSET Message
              /\ regEvent' \in [Nodes -> Nat \cup {Never}]
              /\ requests' \in [Nodes -> Nat]
  <1>1. PICK d \in conf.delays, r \in conf.regIntervals :
           /\ msgs' = msgs \cup {Msg("RegRequest", n, e2NodeId[n], now + d, requests[n] + 1)}
           /\ regEvent' = [regEvent EXCEPT ![n] = now + r]
           /\ requests' = [requests EXCEPT ![n] = @ + 1]
    BY DEF Register
  <1>2. now + d \in Nat /\ now + r \in Nat /\ requests[n] + 1 \in Nat /\ e2NodeId[n] \in Ids
    BY ConfTyped DEF TypeOK
  <1>3. Msg("RegRequest", n, e2NodeId[n], now + d, requests[n] + 1) \in Message
    BY <1>2, MsgShape
  <1>4. /\ msgs' \in SUBSET Message
        /\ regEvent' \in [Nodes -> Nat \cup {Never}]
        /\ requests' \in [Nodes -> Nat]
    BY <1>1, <1>2, <1>3 DEF TypeOK
  <1> QED
    BY <1>1, <1>3, <1>4

(* CheckForInactivity logs a deregistration of each id of a set S of       *)
(* expired ids, sends a response for each, and schedules the next check.   *)
LEMMA CheckShape ==
    ASSUME TypeOK, CheckForInactivity
    PROVE  \E S \in SUBSET {i \in Ids : Expired(i) /\ MayBeListed(i)},
              c \in conf.checkIntervals :
              /\ \A i \in Ids : Expired(i) /\ MustBeListed(i) => i \in S
              /\ registration' \in [Ids -> Row]
              /\ \A i \in Ids \ S : registration'[i] = registration[i]
              /\ \A i \in S : ~registration'[i].registered
              /\ msgs \subseteq msgs' /\ msgs' \in SUBSET Message
              /\ \A m \in msgs' \ msgs : /\ m.kind = "DeregResponse" /\ m.id \in S
                                         /\ m.node = terminators[m.id]
              /\ checkEvent' = now + c
  <1>1. PICK S \in SUBSET {i \in Ids : Expired(i) /\ MayBeListed(i)} :
           /\ \A i \in Ids : Expired(i) /\ MustBeListed(i) => i \in S
           /\ registration' = [i \in Ids |->
                 IF i \in S THEN LogRegistration(registration, i, FALSE)[i]
                            ELSE registration[i]]
           /\ \E d \in [S -> conf.delays] :
                 msgs' = msgs \cup
                    {Msg("DeregResponse", terminators[i], i, now + d[i], 0) : i \in S}
           /\ checkEvent' \in NextCheck
    BY DEF CheckForInactivity
  <1>2. PICK c \in conf.checkIntervals : checkEvent' = now + c
    BY <1>1 DEF NextCheck
  <1>3. registration \in [Ids -> Row] /\ now \in Nat
    BY DEF TypeOK, Row
  <1>4. ASSUME NEW i \in Ids
        PROVE  /\ LogRegistration(registration, i, FALSE)[i] \in Row
               /\ ~LogRegistration(registration, i, FALSE)[i].registered
    <2>1. /\ LogRegistration(registration, i, FALSE) \in [Ids -> Row]
          /\ LogRegistration(registration, i, FALSE)[i].registered = FALSE
      BY <1>3, LogShape
    <2> QED
      BY <2>1
  <1>5. /\ registration' \in [Ids -> Row]
        /\ \A i \in Ids \ S : registration'[i] = registration[i]
        /\ \A i \in S : ~registration'[i].registered
    BY <1>1, <1>3, <1>4
  <1>6. PICK d \in [S -> conf.delays] :
           msgs' = msgs \cup {Msg("DeregResponse", terminators[i], i, now + d[i], 0) : i \in S}
    BY <1>1
  <1>7. ASSUME NEW i \in S
        PROVE  LET m == Msg("DeregResponse", terminators[i], i, now + d[i], 0) IN
               /\ m \in Message /\ m.kind = "DeregResponse" /\ m.id = i
               /\ m.node = terminators[i]
    <2>1. now + d[i] \in Nat
      BY <1>3, ConfTyped
    <2>2. terminators[i] \in Nodes \cup {NoNode} /\ i \in Ids
      BY DEF TypeOK
    <2> QED
      BY <2>1, <2>2, MsgShape
  <1>8. /\ msgs \subseteq msgs' /\ msgs' \in SUBSET Message
        /\ \A m \in msgs' \ msgs : /\ m.kind = "DeregResponse" /\ m.id \in S
                                   /\ m.node = terminators[m.id]
    BY <1>6, <1>7 DEF TypeOK
  <1> QED
    BY <1>1, <1>2, <1>5, <1>8

(* Every step keeps the types.                                             *)
LEMMA NextTyped == TypeOK /\ [Next]_vars => TypeOK'
  <1> SUFFICES ASSUME TypeOK, [Next]_vars PROVE TypeOK'
    OBVIOUS
  <1> USE DEF nodeVars, ricVars, dataVars
  <1>0. registration \in [Ids -> Row] /\ now \in Nat /\ lastId \in Ids
    BY DEF TypeOK, Row
  <1>1. ASSUME NEW n \in Nodes, ActivateNode(n) \/ Refresh(n) PROVE TypeOK'
    <2>1. /\ Register(n)
          /\ UNCHANGED <<conf, now, ricVars, e2NodeId, dataVars, terminators, targets, crashed>>
      BY <1>1 DEF ActivateNode, Refresh
    <2>3. nodeActive' \in [Nodes -> BOOLEAN]
      <3>1. nodeActive' = nodeActive \/ nodeActive' = [nodeActive EXCEPT ![n] = TRUE]
        BY <1>1 DEF ActivateNode, Refresh
      <3> QED
        BY <3>1 DEF TypeOK
    <2>4. rounds' \in [Nodes -> Nat]
      <3>1. rounds' = rounds \/ rounds' = [rounds EXCEPT ![n] = @ + 1]
        BY <1>1 DEF ActivateNode, Refresh
      <3> QED
        BY <3>1 DEF TypeOK
    <2>2. /\ msgs' \in SUBSET Message
          /\ regEvent' \in [Nodes -> Nat \cup {Never}]
          /\ requests' \in [Nodes -> Nat]
      BY <2>1, RegisterShape
    <2> QED
      BY <2>1, <2>2, <2>3, <2>4 DEF TypeOK
  <1>2. ASSUME NEW n \in Nodes, DeactivateNode(n) PROVE TypeOK'
    <2>1. PICK d \in conf.delays :
             msgs' = msgs \cup {Msg("DeregRequest", n, e2NodeId[n], now + d, requests[n] + 1)}
      BY <1>2 DEF DeactivateNode
    <2>2. now + d \in Nat /\ requests[n] + 1 \in Nat /\ e2NodeId[n] \in Ids
      BY ConfTyped DEF TypeOK
    <2>3. msgs' \in SUBSET Message
      BY <2>1, <2>2, MsgShape DEF TypeOK
    <2>4. /\ nodeActive' \in [Nodes -> BOOLEAN] /\ requests' \in [Nodes -> Nat]
          /\ regEvent' \in [Nodes -> Nat \cup {Never}]
      BY <1>2 DEF DeactivateNode, TypeOK
    <2> QED
      BY <1>2, <2>3, <2>4 DEF DeactivateNode, TypeOK
  <1>3. ASSUME NEW m \in msgs, ReceiveRegistrationRequest(m) PROVE TypeOK'
    <2>1. CASE ~ricActive
      BY <1>3, <2>1 DEF ReceiveRegistrationRequest, TypeOK
    <2>2. CASE ricActive
      <3> DEFINE id == Assigned(m)
      <3>1. m \in Message /\ m.kind = "RegRequest"
        BY <1>3 DEF ReceiveRegistrationRequest, Due, TypeOK
      <3>2. m.node \in Nodes /\ m.id \in Ids /\ m.no \in Nat
        BY <3>1, MessageShape
      <3>3. id \in Ids
        BY <1>0, <1>3, <3>2, IdNumbers DEF Assigned, ReceiveRegistrationRequest, Running, Ids
      <3> HIDE DEF id
      <3>4. /\ lastId' = (IF id > lastId THEN id ELSE lastId)
            /\ registration' = LogRegistration(registration, id, TRUE)
            /\ lteRows' = LteRowsAfter(m.id, id, m.node)
            /\ terminators' = [terminators EXCEPT ![id] = m.node]
            /\ \E d \in conf.delays :
                  msgs' = (msgs \ {m}) \cup {Msg("RegResponse", m.node, id, now + d, m.no)}
            /\ UNCHANGED <<conf, now, ricVars, nodeVars, targets, crashed>>
        BY <1>3, <2>2 DEF ReceiveRegistrationRequest, id
      <3>5. PICK d \in conf.delays :
               msgs' = (msgs \ {m}) \cup {Msg("RegResponse", m.node, id, now + d, m.no)}
        BY <3>4
      <3>6. now + d \in Nat
        BY <1>0, ConfTyped
      <3>a. Msg("RegResponse", m.node, id, now + d, m.no) \in Message
        BY <3>2, <3>3, <3>6, MsgShape
      <3>7. msgs' \in SUBSET Message
        BY <3>5, <3>a DEF TypeOK
      <3>8. registration' \in [Ids -> Row]
        BY <1>0, <3>3, <3>4, LogShape
      <3>9. lteRows' \in SUBSET (Ids \X (UeNodes \cup EnbNodes))
        BY <3>2, <3>4 DEF LteRowsAfter, InsertLteRow, TypeOK
      <3>10. lastId' \in Ids /\ terminators' \in [Ids -> Nodes \cup {NoNode}]
        BY <1>0, <3>2, <3>3, <3>4 DEF TypeOK
      <3> QED
        BY <3>4, <3>7, <3>8, <3>9, <3>10 DEF TypeOK, Row
    <2> QED
      BY <2>1, <2>2
  <1>4. ASSUME NEW m \in msgs, ReceiveDeregistrationRequest(m) PROVE TypeOK'
    <2>1. CASE ~ricActive
      BY <1>4, <2>1 DEF ReceiveDeregistrationRequest, TypeOK
    <2>2. CASE ricActive
      <3>1. m.id \in Ids /\ m.no \in Nat
        BY MessageShape DEF TypeOK
      <3>2. PICK d \in conf.delays :
               msgs' = (msgs \ {m}) \cup
                          {Msg("DeregResponse", terminators[m.id], m.id, now + d, m.no)}
        BY <1>4, <2>2 DEF ReceiveDeregistrationRequest
      <3>3. now + d \in Nat /\ terminators[m.id] \in Nodes \cup {NoNode}
        BY <1>0, <3>1, ConfTyped DEF TypeOK
      <3>a. Msg("DeregResponse", terminators[m.id], m.id, now + d, m.no) \in Message
        BY <3>1, <3>3, MsgShape
      <3>4. msgs' \in SUBSET Message
        BY <3>2, <3>a DEF TypeOK
      <3>b. registration' = LogRegistration(registration, m.id, FALSE)
        BY <1>4, <2>2 DEF ReceiveDeregistrationRequest
      <3>5. registration' \in [Ids -> Row]
        BY <1>0, <3>1, <3>b, LogShape
      <3> QED
        BY <1>4, <3>4, <3>5 DEF ReceiveDeregistrationRequest, TypeOK, Row
    <2> QED
      BY <2>1, <2>2
  <1>5. ASSUME NEW m \in msgs, ReceiveRegistrationResponse(m) PROVE TypeOK'
    <2>1. m.id \in Ids
      BY MessageShape DEF TypeOK
    <2>2. e2NodeId' \in [Nodes -> Ids]
      BY <1>5, <2>1 DEF ReceiveRegistrationResponse, IdAfterRegResponse, TypeOK
    <2> QED
      BY <1>5, <2>2 DEF ReceiveRegistrationResponse, TypeOK
  <1>6. ASSUME NEW m \in msgs, ReceiveDeregistrationResponse(m) PROVE TypeOK'
    <2>1. e2NodeId' \in [Nodes -> Ids] /\ crashed' \in BOOLEAN
      BY <1>6, IdNumbers DEF ReceiveDeregistrationResponse, TypeOK
    <2> QED
      BY <1>6, <2>1 DEF ReceiveDeregistrationResponse, TypeOK
  <1>7. ASSUME NEW i \in Ids, ComputeCommand(i) \/ SendCommand(i) PROVE TypeOK'
    BY <1>7 DEF ComputeCommand, SendCommand, TypeOK
  <1>8. CASE InactivityEvent \/ QueryLms
    <2>1. CheckForInactivity
      BY <1>8 DEF InactivityEvent, QueryLms
    <2>2. /\ registration' \in [Ids -> Row] /\ msgs' \in SUBSET Message
          /\ checkEvent' \in Nat \cup {Never}
      BY <1>0, <2>1, CheckShape, ConfTyped
    <2> QED
      BY <2>1, <2>2 DEF CheckForInactivity, TypeOK, Row
  <1>9. CASE StartRic
    <2>1. checkEvent' \in Nat
      BY <1>0, <1>9, ConfTyped DEF StartRic, NextCheck
    <2> QED
      BY <1>9, <2>1 DEF StartRic, TypeOK
  <1>10. CASE StopRic
    <2>1. /\ lastId' \in Ids /\ registration' \in [Ids -> Row]
          /\ lteRows' \in SUBSET (Ids \X (UeNodes \cup EnbNodes))
      BY <1>0, <1>10, IdNumbers DEF StopRic, Stored, NoRow, Row, TypeOK
    <2> QED
      BY <1>10, <2>1 DEF StopRic, TypeOK, Row
  <1>11. CASE Tick
    BY <1>11 DEF Tick, TypeOK
  <1>12. CASE UNCHANGED vars
    BY <1>12 DEF vars, TypeOK
  <1> QED
    BY <1>1, <1>2, <1>3, <1>4, <1>5, <1>6, <1>7, <1>8, <1>9, <1>10, <1>11, <1>12
       DEF Next, Ended

(* The initial state is typed.                                             *)
LEMMA InitTyped == Init => TypeOK
  <1> SUFFICES ASSUME Init PROVE TypeOK
    OBVIOUS
  <1>1. registration \in [Ids -> [registered : BOOLEAN, at : Nat, tied : BOOLEAN]]
    BY DEF Init, NoRow
  <1>2. /\ e2NodeId \in [Nodes -> Ids] /\ lastId \in Ids
        /\ terminators \in [Ids -> Nodes \cup {NoNode}]
        /\ nodeActive \in [Nodes -> BOOLEAN] /\ regEvent \in [Nodes -> Nat \cup {Never}]
        /\ requests \in [Nodes -> Nat] /\ rounds \in [Nodes -> Nat]
    BY IdNumbers DEF Init
  <1> QED
    BY <1>1, <1>2 DEF Init, TypeOK

(* Every reachable state of the registration is typed; in particular no    *)
(* id beyond those the repository hands out ever appears.                  *)
THEOREM TypeCorrect == Spec => []TypeOK
  BY InitTyped, NextTyped, PTL DEF Spec

-----------------------------------------------------------------------------
(***************************************************************************)
(* Whose id is it?  An id is handed out when lastId reaches it, so an id   *)
(* that any node, message or row has is at most lastId, and the next one   *)
(* is nobody's.                                                            *)
(***************************************************************************)

\* The tables are never lost: the database outlives its closing or is never
\* closed.
Kept == conf.persistent \/ "StopRic" \notin conf.ops

\* Only ids that a node was given are ever listed.
Listings == \A i \in Ids : MayBeListed(i) => i # 0 /\ terminators[i] \in Nodes

\* The ids that the RIC knows a terminator of have been handed out.
HandedOut == \A i \in Ids : terminators[i] # NoNode => i # 0 /\ i <= lastId

HeldByOwner == \A n \in Nodes : e2NodeId[n] # 0 => terminators[e2NodeId[n]] = n
SentByOwner == \A m \in msgs : m.id # 0 => terminators[m.id] = m.node /\ m.node \in Nodes
FiledByOwner == \A r \in lteRows : r[1] # 0 => terminators[r[1]] = r[2]

Owners == Kept => HandedOut /\ HeldByOwner /\ SentByOwner /\ FiledByOwner

OwnInv == TypeOK /\ Listings /\ Owners

(* What a step that hands out no id must respect.                          *)
LEMMA OwnersStay ==
    ASSUME OwnInv, TypeOK', UNCHANGED <<conf, terminators>>,
           Kept => lastId' = lastId /\ lteRows' = lteRows,
           Kept => \A n \in Nodes : e2NodeId'[n] \in {0, e2NodeId[n]}
                                    \/ \E m \in msgs : m.node = n /\ m.id = e2NodeId'[n],
           Kept => \A m \in msgs' : m \in msgs \/ m.id = 0
                                    \/ (m.node \in Nodes /\ terminators[m.id] = m.node),
           \A i \in Ids : registration'[i].registered \/ registration'[i].tied
                          => MayBeListed(i)
    PROVE  OwnInv'
  <1>1. Listings'
    BY DEF OwnInv, Listings, MayBeListed
  <1>2. ASSUME Kept PROVE HandedOut' /\ FiledByOwner'
    BY <1>2 DEF OwnInv, Owners, HandedOut, FiledByOwner
  <1>3. ASSUME Kept PROVE HeldByOwner'
    <2> SUFFICES ASSUME NEW n \in Nodes, e2NodeId'[n] # 0
                 PROVE  terminators[e2NodeId'[n]] = n
      BY DEF HeldByOwner
    <2>1. HeldByOwner /\ SentByOwner
      BY <1>3 DEF OwnInv, Owners
    <2>2. CASE e2NodeId'[n] = e2NodeId[n]
      BY <2>1, <2>2 DEF HeldByOwner
    <2>3. CASE \E m \in msgs : m.node = n /\ m.id = e2NodeId'[n]
      BY <2>1, <2>3 DEF SentByOwner
    <2> QED
      BY <1>3, <2>2, <2>3
  <1>4. ASSUME Kept PROVE SentByOwner'
    BY <1>4 DEF OwnInv, Owners, SentByOwner
  <1> QED
    BY <1>1, <1>2, <1>3, <1>4 DEF OwnInv, Owners, Kept

(* Every step keeps each id with its owner.                                *)
LEMMA OwnStep == OwnInv /\ [Next]_vars => OwnInv'
  <1> SUFFICES ASSUME OwnInv, [Next]_vars PROVE OwnInv'
    OBVIOUS
  <1> USE DEF nodeVars, ricVars, dataVars
  <1>0. /\ TypeOK /\ TypeOK' /\ registration \in [Ids -> Row] /\ now \in Nat /\ lastId \in Ids
        /\ Ids \subseteq Nat /\ NoNode \notin Nodes
    BY NextTyped, NodeAssumption, IdNumbers DEF OwnInv, TypeOK, Row
  <1>1. ASSUME NEW n \in Nodes, ActivateNode(n) \/ Refresh(n) PROVE OwnInv'
    <2>1. /\ Register(n)
          /\ UNCHANGED <<conf, now, ricVars, e2NodeId, dataVars, terminators, targets, crashed>>
      BY <1>1 DEF ActivateNode, Refresh
    <2>2. PICK d \in conf.delays :
            /\ msgs' = msgs \cup {Msg("RegRequest", n, e2NodeId[n], now + d, requests[n] + 1)}
      BY <1>0, <2>1, RegisterShape
    <2>3. Kept => e2NodeId[n] = 0 \/ terminators[e2NodeId[n]] = n
      BY DEF OwnInv, Owners, HeldByOwner
    <2>4. Kept => \A m \in msgs' : m \in msgs \/ m.id = 0
                                   \/ (m.node \in Nodes /\ terminators[m.id] = m.node)
      BY <2>2, <2>3 DEF Msg
    <2> QED
      BY <1>0, <2>1, <2>4, OwnersStay DEF MayBeListed
  <1>2. ASSUME NEW n \in Nodes, DeactivateNode(n) PROVE OwnInv'
    <2>1. PICK d \in conf.delays :
            /\ msgs' = msgs \cup {Msg("DeregRequest", n, e2NodeId[n], now + d, requests[n] + 1)}
      BY <1>2 DEF DeactivateNode
    <2>2. Kept => e2NodeId[n] = 0 \/ terminators[e2NodeId[n]] = n
      BY DEF OwnInv, Owners, HeldByOwner
    <2>3. Kept => \A m \in msgs' : m \in msgs \/ m.id = 0
                                   \/ (m.node \in Nodes /\ terminators[m.id] = m.node)
      BY <2>1, <2>2 DEF Msg
    <2> QED
      BY <1>0, <1>2, <2>3, OwnersStay DEF DeactivateNode, MayBeListed
  <1>3. ASSUME NEW m \in msgs, ReceiveRegistrationRequest(m), ~ricActive PROVE OwnInv'
    BY <1>0, <1>3, OwnersStay DEF ReceiveRegistrationRequest, MayBeListed
  <1>4. ASSUME NEW m \in msgs, ReceiveRegistrationRequest(m), ricActive PROVE OwnInv'
    <2> DEFINE id == Assigned(m)
    <2>1. m \in Message /\ m.kind = "RegRequest"
      BY <1>0, <1>4 DEF ReceiveRegistrationRequest, Due, TypeOK
    <2>2. m.node \in Nodes /\ m.id \in Ids
      BY <2>1, MessageShape
    <2>3. /\ id \in Ids /\ id # 0
          /\ m.id = 0 => id = lastId + 1
          /\ m.id # 0 => id = m.id
      BY <1>0, <1>4, <2>2, IdNumbers DEF Assigned, ReceiveRegistrationRequest, Running, Ids
    <2> HIDE DEF id
    <2>4. /\ lastId' = (IF id > lastId THEN id ELSE lastId)
          /\ registration' = LogRegistration(registration, id, TRUE)
          /\ lteRows' = LteRowsAfter(m.id, id, m.node)
          /\ terminators' = [terminators EXCEPT ![id] = m.node]
          /\ \E d \in conf.delays :
                msgs' = (msgs \ {m}) \cup {Msg("RegResponse", m.node, id, now + d, m.no)}
          /\ UNCHANGED <<conf, e2NodeId>>
      BY <1>4 DEF ReceiveRegistrationRequest, id
    <2>5. /\ terminators'[id] = m.node
          /\ \A i \in Ids \ {id} : terminators'[i] = terminators[i]
      BY <1>0, <2>3, <2>4 DEF TypeOK
    <2>6. Listings'
      <3>1. \A i \in Ids \ {id} : registration'[i] = registration[i]
        BY <1>0, <2>3, <2>4, Logged
      <3> QED
        BY <2>2, <2>3, <2>5, <3>1 DEF OwnInv, Listings, MayBeListed
    <2>7. ASSUME Kept PROVE HandedOut' /\ HeldByOwner' /\ SentByOwner' /\ FiledByOwner'
      <3>1. HandedOut /\ HeldByOwner /\ SentByOwner /\ FiledByOwner
        BY <2>7 DEF OwnInv, Owners
      <3>2. terminators[id] \in {m.node, NoNode}
        BY <1>0, <2>2, <2>3, <3>1 DEF HandedOut, SentByOwner
      <3>3. \A i \in Ids : terminators[i] \in Nodes => terminators'[i] = terminators[i]
        BY <1>0, <2>5, <3>2
      <3>4. HandedOut'
        <4>1. lastId' \in Ids /\ lastId <= lastId' /\ id <= lastId'
          BY <1>0, <2>3, <2>4
        <4> QED
          BY <1>0, <2>3, <2>5, <3>1, <4>1 DEF HandedOut
      <3>5. HeldByOwner'
        BY <1>0, <2>4, <3>1, <3>3 DEF HeldByOwner, TypeOK
      <3>6. SentByOwner'
        <4>1. \A x \in msgs : x.id \in Ids
          BY <1>0, MessageShape DEF TypeOK
        <4>2. \A x \in msgs' : x \in msgs \/ (x.id = id /\ x.node = m.node)
          BY <2>4 DEF Msg
        <4> QED
          BY <2>2, <2>5, <3>1, <3>3, <4>1, <4>2 DEF SentByOwner
      <3>7. FiledByOwner'
        <4>1. \A r \in lteRows : r[1] \in Ids /\ r[2] \in Nodes
          BY <1>0, NodeAssumption DEF TypeOK
        <4>2. \A r \in lteRows' : r \in lteRows \/ r = <<m.id, m.node>>
          BY <2>4 DEF LteRowsAfter, InsertLteRow
        <4> QED
          BY <2>2, <2>3, <2>5, <3>1, <3>3, <4>1, <4>2 DEF FiledByOwner
      <3> QED
        BY <3>4, <3>5, <3>6, <3>7
    <2> QED
      BY <1>0, <2>4, <2>6, <2>7 DEF OwnInv, Owners, Kept
  <1>5. ASSUME NEW m \in msgs, ReceiveDeregistrationRequest(m), ~ricActive PROVE OwnInv'
    BY <1>0, <1>5, OwnersStay DEF ReceiveDeregistrationRequest, MayBeListed
  <1>6. ASSUME NEW m \in msgs, ReceiveDeregistrationRequest(m), ricActive PROVE OwnInv'
    <2>1. m.id \in Ids
      BY <1>0, MessageShape DEF TypeOK
    <2>2. /\ registration' = LogRegistration(registration, m.id, FALSE)
          /\ \E d \in conf.delays :
                msgs' = (msgs \ {m}) \cup
                           {Msg("DeregResponse", terminators[m.id], m.id, now + d, m.no)}
          /\ UNCHANGED <<conf, e2NodeId, lastId, lteRows, terminators>>
      BY <1>6 DEF ReceiveDeregistrationRequest
    <2>3. \A i \in Ids : registration'[i].registered \/ registration'[i].tied => MayBeListed(i)
      <3>1. /\ \A i \in Ids : i # m.id => registration'[i] = registration[i]
            /\ registration'[m.id].registered = FALSE
            /\ registration'[m.id].tied
               => registration[m.id].tied \/ registration[m.id].registered # FALSE
        BY <1>0, <2>1, <2>2, Logged
      <3>2. registration[m.id].registered \in BOOLEAN
        BY <1>0, <2>1 DEF Row
      <3> QED
        BY <3>1, <3>2 DEF MayBeListed
    <2>4. Kept => m.id = 0 \/ terminators[m.id] \in Nodes
      BY DEF OwnInv, Owners, SentByOwner
    <2>5. Kept => \A x \in msgs' : x \in msgs \/ x.id = 0
                                   \/ (x.node \in Nodes /\ terminators[x.id] = x.node)
      BY <2>2, <2>4 DEF Msg
    <2> QED
      BY <1>0, <2>2, <2>3, <2>5, OwnersStay
  <1>7. ASSUME NEW m \in msgs, ReceiveRegistrationResponse(m) PROVE OwnInv'
    <2>1. \A n \in Nodes : e2NodeId'[n] \in {0, e2NodeId[n]}
                           \/ (m.node = n /\ m.id = e2NodeId'[n])
      BY <1>0, <1>7 DEF ReceiveRegistrationResponse, IdAfterRegResponse, TypeOK
    <2> QED
      BY <1>0, <1>7, <2>1, OwnersStay DEF ReceiveRegistrationResponse, MayBeListed
  <1>8. ASSUME NEW m \in msgs, ReceiveDeregistrationResponse(m) PROVE OwnInv'
    <2>1. \A n \in Nodes : e2NodeId'[n] \in {0, e2NodeId[n]}
      BY <1>0, <1>8 DEF ReceiveDeregistrationResponse, TypeOK
    <2> QED
      BY <1>0, <1>8, <2>1, OwnersStay DEF ReceiveDeregistrationResponse, MayBeListed
  <1>9. CASE InactivityEvent \/ QueryLms
    <2>1. CheckForInactivity
      BY <1>9 DEF InactivityEvent, QueryLms
    <2>2. PICK S \in SUBSET {i \in Ids : Expired(i) /\ MayBeListed(i)} :
             /\ \A i \in Ids \ S : registration'[i] = registration[i]
             /\ \A m \in msgs' \ msgs : m.id \in S /\ m.node = terminators[m.id]
      BY <1>0, <2>1, CheckShape
    <2>3. \A i \in Ids : registration'[i].registered \/ registration'[i].tied => MayBeListed(i)
      BY <2>2 DEF MayBeListed
    <2>4. \A m \in msgs' \ msgs : m.node \in Nodes /\ terminators[m.id] = m.node
      BY <2>2 DEF OwnInv, Listings
    <2>5. UNCHANGED <<conf, e2NodeId, lastId, lteRows, terminators>>
      BY <2>1 DEF CheckForInactivity
    <2> QED
      BY <1>0, <2>3, <2>4, <2>5, OwnersStay
  <1>10. CASE StopRic
    <2>1. /\ UNCHANGED <<conf, e2NodeId, msgs, terminators>> /\ "StopRic" \in conf.ops
          /\ lastId' = Stored[1] /\ registration' = Stored[2] /\ lteRows' = Stored[3]
      BY <1>10 DEF StopRic
    <2>2. Kept => conf.persistent
      BY <2>1 DEF Kept
    <2>3. Kept => lastId' = lastId /\ lteRows' = lteRows
      BY <2>1, <2>2 DEF Stored
    <2>4. \A i \in Ids : registration'[i].registered \/ registration'[i].tied => MayBeListed(i)
      BY <2>1 DEF Stored, MayBeListed, NoRow
    <2> QED
      BY <1>0, <2>1, <2>3, <2>4, OwnersStay
  <1>11. ASSUME UNCHANGED <<conf, e2NodeId, msgs, dataVars, terminators>> PROVE OwnInv'
    BY <1>0, <1>11, OwnersStay DEF MayBeListed
  <1>12. ASSUME NEW i \in Ids, ComputeCommand(i) \/ SendCommand(i) PROVE OwnInv'
    BY <1>11, <1>12 DEF ComputeCommand, SendCommand
  <1>13. CASE StartRic \/ Tick \/ UNCHANGED vars
    BY <1>11, <1>13 DEF StartRic, Tick, vars
  <1> QED
    BY <1>1, <1>2, <1>3, <1>4, <1>5, <1>6, <1>7, <1>8, <1>9, <1>10, <1>12, <1>13
       DEF Next, Ended

(* Nobody has an id at first.                                              *)
LEMMA InitOwn == Init => OwnInv
  <1> SUFFICES ASSUME Init PROVE Listings /\ Owners
    BY InitTyped DEF OwnInv
  <1>1. Listings
    BY DEF Init, Listings, MayBeListed, NoRow
  <1>2. HandedOut /\ HeldByOwner /\ SentByOwner /\ FiledByOwner
    BY DEF Init, HandedOut, HeldByOwner, SentByOwner, FiledByOwner
  <1> QED
    BY <1>1, <1>2 DEF Owners

(* With a database that outlives its closing, an id never changes hands,   *)
(* for any number of nodes and whatever is lost, overtaken, deregistered   *)
(* or restarted.                                                           *)
THEOREM IdsNeverChangeHands == Spec => []IdsOwned
  <1>1. OwnInv => IdsOwned
    BY DEF OwnInv, Owners, Kept, HeldByOwner, SentByOwner, FiledByOwner, IdsOwned
  <1> QED
    BY <1>1, InitOwn, OwnStep, PTL DEF Spec

-----------------------------------------------------------------------------
(***************************************************************************)
(* An inactive node forgets its id.  While a RIC that is never stopped     *)
(* runs, the node's deregistration request or the response to it is under  *)
(* way as long as an inactive node has an id, whatever overtakes it.       *)
(***************************************************************************)

\* A RIC that is never stopped runs from the first registration on.
Alive == "StopRic" \notin conf.ops /\ lastId # 0 => ricActive

Leaves(m, n) == /\ m.kind \in {"DeregRequest", "DeregResponse"}
                /\ m.node = n /\ m.id # 0

Leaving ==
    "StopRic" \notin conf.ops
    => \A n \in Nodes : ~nodeActive[n] /\ e2NodeId[n] # 0 => \E m \in msgs : Leaves(m, n)

ForgetInv == OwnInv /\ Alive /\ Leaving

(* A step that leaves the nodes' activity alone, takes no message that     *)
(* Leaving is about, and gives no inactive node an id.                     *)
LEMMA LeavingStays ==
    ASSUME Leaving, UNCHANGED <<conf, nodeActive>>,
           \A n \in Nodes : ~nodeActive[n] => e2NodeId'[n] \in {0, e2NodeId[n]},
           \A n \in Nodes, m \in msgs : /\ "StopRic" \notin conf.ops
                                        /\ Leaves(m, n) /\ e2NodeId'[n] # 0
                                        => \E x \in msgs' : Leaves(x, n)
    PROVE  Leaving'
  BY DEF Leaving

(* Every step keeps the deregistration of an inactive node under way.      *)
LEMMA ForgetStep == ForgetInv /\ [Next]_vars => ForgetInv'
  <1> SUFFICES ASSUME ForgetInv, [Next]_vars PROVE Alive' /\ Leaving'
    BY OwnStep DEF ForgetInv
  <1> USE DEF nodeVars, ricVars, dataVars
  <1>0. /\ TypeOK /\ Leaving /\ Alive /\ OwnInv
        /\ lastId \in Nat /\ Ids \subseteq Nat /\ NoNode \notin Nodes
        /\ e2NodeId \in [Nodes -> Ids] /\ nodeActive \in [Nodes -> BOOLEAN]
    BY NodeAssumption, IdNumbers DEF ForgetInv, OwnInv, TypeOK
  <1>1. ASSUME NEW n \in Nodes, ActivateNode(n) PROVE Alive' /\ Leaving'
    <2>1. /\ msgs \subseteq msgs' /\ nodeActive' = [nodeActive EXCEPT ![n] = TRUE]
          /\ UNCHANGED <<conf, ricActive, lastId, e2NodeId>>
      BY <1>1 DEF ActivateNode, Register
    <2>2. \A k \in Nodes : ~nodeActive'[k] => ~nodeActive[k]
      BY <1>0, <2>1
    <2> QED
      BY <1>0, <2>1, <2>2 DEF Alive, Leaving
  <1>2. ASSUME NEW n \in Nodes, Refresh(n) PROVE Alive' /\ Leaving'
    BY <1>0, <1>2 DEF Refresh, Register, Alive, Leaving
  <1>3. ASSUME NEW n \in Nodes, DeactivateNode(n) PROVE Alive' /\ Leaving'
    <2>1. PICK d \in conf.delays :
             msgs' = msgs \cup {Msg("DeregRequest", n, e2NodeId[n], now + d, requests[n] + 1)}
      BY <1>3 DEF DeactivateNode
    <2>2. /\ nodeActive' = [nodeActive EXCEPT ![n] = FALSE]
          /\ UNCHANGED <<conf, ricActive, lastId, e2NodeId>>
      BY <1>3 DEF DeactivateNode
    <2>3. e2NodeId[n] # 0 =>
             Leaves(Msg("DeregRequest", n, e2NodeId[n], now + d, requests[n] + 1), n)
      BY DEF Leaves, Msg
    <2>4. \A k \in Nodes \ {n} : nodeActive'[k] = nodeActive[k]
      BY <1>0, <2>2
    <2> QED
      BY <1>0, <2>1, <2>2, <2>3, <2>4 DEF Alive, Leaving
  <1>4. ASSUME NEW m \in msgs, ReceiveRegistrationRequest(m) PROVE Alive' /\ Leaving'
    <2>1. /\ UNCHANGED <<conf, ricActive, nodeActive, e2NodeId>>
          /\ lastId' = lastId \/ ricActive
          /\ \A x \in msgs : x # m => x \in msgs'
          /\ m.kind = "RegRequest"
      BY <1>4 DEF ReceiveRegistrationRequest, Due
    <2>2. \A n \in Nodes, x \in msgs : Leaves(x, n) => x \in msgs'
      BY <2>1 DEF Leaves
    <2>3. Leaving'
      BY <1>0, <2>1, <2>2, LeavingStays
    <2> QED
      BY <1>0, <2>1, <2>3 DEF Alive
  <1>5. ASSUME NEW m \in msgs, ReceiveDeregistrationRequest(m) PROVE Alive' /\ Leaving'
    <2>1. /\ UNCHANGED <<conf, ricActive, lastId, nodeActive, e2NodeId>>
          /\ \A x \in msgs : x # m => x \in msgs'
      BY <1>5 DEF ReceiveDeregistrationRequest
    <2>2. ASSUME NEW n \in Nodes, NEW x \in msgs, "StopRic" \notin conf.ops,
                 Leaves(x, n), e2NodeId'[n] # 0
          PROVE  \E y \in msgs' : Leaves(y, n)
      <3>1. CASE x # m
        BY <2>1, <2>2, <3>1
      <3>2. CASE x = m
        <4>1. Kept
          BY <2>2 DEF Kept
        <4>2. HandedOut /\ SentByOwner /\ HeldByOwner
          BY <1>0, <4>1 DEF OwnInv, Owners
        <4>3. terminators[m.id] = n /\ m.id # 0
          BY <2>2, <3>2, <4>2 DEF SentByOwner, Leaves
        <4>4. lastId # 0
          <5>1. e2NodeId[n] \in Ids /\ e2NodeId[n] # 0 /\ terminators[e2NodeId[n]] = n
            BY <1>0, <2>1, <2>2, <4>2 DEF HeldByOwner
          <5>2. e2NodeId[n] <= lastId /\ e2NodeId[n] \in Nat
            BY <1>0, <4>2, <5>1 DEF HandedOut
          <5> QED
            BY <1>0, <5>1, <5>2
        <4>5. ricActive
          BY <1>0, <2>2, <4>4 DEF Alive
        <4>6. PICK d \in conf.delays :
                 msgs' = (msgs \ {m}) \cup
                            {Msg("DeregResponse", terminators[m.id], m.id, now + d, m.no)}
          BY <1>5, <4>5 DEF ReceiveDeregistrationRequest
        <4>7. Leaves(Msg("DeregResponse", terminators[m.id], m.id, now + d, m.no), n)
          BY <4>3 DEF Leaves, Msg
        <4> QED
          BY <4>6, <4>7
      <3> QED
        BY <3>1, <3>2
    <2>3. Leaving'
      BY <1>0, <2>1, <2>2, LeavingStays
    <2> QED
      BY <1>0, <2>1, <2>3 DEF Alive
  <1>6. ASSUME NEW m \in msgs, ReceiveRegistrationResponse(m) PROVE Alive' /\ Leaving'
    <2>1. /\ UNCHANGED <<conf, ricActive, lastId, nodeActive>>
          /\ msgs' = msgs \ {m} /\ m.kind = "RegResponse"
          /\ e2NodeId' = IdAfterRegResponse(m)
      BY <1>6 DEF ReceiveRegistrationResponse, Due
    <2>2. \A n \in Nodes : ~nodeActive[n] => e2NodeId'[n] = e2NodeId[n]
      BY <1>0, <2>1 DEF IdAfterRegResponse
    <2>3. \A n \in Nodes, x \in msgs : Leaves(x, n) => x \in msgs'
      BY <2>1 DEF Leaves
    <2>4. Leaving'
      BY <1>0, <2>1, <2>2, <2>3, LeavingStays
    <2> QED
      BY <1>0, <2>1, <2>4 DEF Alive
  <1>7. ASSUME NEW m \in msgs, ReceiveDeregistrationResponse(m) PROVE Alive' /\ Leaving'
    <2>1. /\ UNCHANGED <<conf, ricActive, lastId, nodeActive>>
          /\ msgs' = msgs \ {m}
          /\ m.node # NoNode => e2NodeId' = [e2NodeId EXCEPT ![m.node] = 0]
          /\ m.node = NoNode => e2NodeId' = e2NodeId
      BY <1>7 DEF ReceiveDeregistrationResponse
    <2>2. \A n \in Nodes : e2NodeId'[n] \in {0, e2NodeId[n]} /\ (n = m.node => e2NodeId'[n] = 0)
      BY <1>0, <2>1
    <2>3. \A n \in Nodes, x \in msgs : Leaves(x, n) /\ e2NodeId'[n] # 0 => x \in msgs'
      BY <2>1, <2>2 DEF Leaves
    <2>4. Leaving'
      BY <1>0, <2>1, <2>2, <2>3, LeavingStays
    <2> QED
      BY <1>0, <2>1, <2>4 DEF Alive
  <1>8. CASE InactivityEvent \/ QueryLms
    <2>1. CheckForInactivity
      BY <1>8 DEF InactivityEvent, QueryLms
    <2>2. msgs \subseteq msgs' /\ UNCHANGED <<conf, ricActive, lastId, nodeActive, e2NodeId>>
      BY <2>1 DEF CheckForInactivity
    <2> QED
      BY <1>0, <2>2 DEF Alive, Leaving
  <1>9. CASE StopRic
    BY <1>0, <1>9 DEF StopRic, Alive, Leaving
  <1>10. CASE StartRic
    BY <1>0, <1>10 DEF StartRic, Alive, Leaving
  <1>11. ASSUME UNCHANGED <<conf, ricActive, lastId, nodeActive, e2NodeId, msgs>>
         PROVE  Alive' /\ Leaving'
    BY <1>0, <1>11 DEF Alive, Leaving
  <1>12. ASSUME NEW i \in Ids, ComputeCommand(i) \/ SendCommand(i) PROVE Alive' /\ Leaving'
    BY <1>11, <1>12 DEF ComputeCommand, SendCommand
  <1>13. CASE Tick \/ UNCHANGED vars
    BY <1>11, <1>13 DEF Tick, vars
  <1> QED
    BY <1>1, <1>2, <1>3, <1>4, <1>5, <1>6, <1>7, <1>8, <1>9, <1>10, <1>12, <1>13
       DEF Next, Ended

(* A node that is not active, and that no message is about, has no id      *)
(* left, however its refreshes, deregistrations and activations overtake   *)
(* each other.                                                             *)
THEOREM InactiveNodesForget == Spec => []InactiveForgetsId
  <1>1. Init => ForgetInv
    BY InitOwn DEF Init, ForgetInv, Alive, Leaving
  <1>2. ForgetInv => InactiveForgetsId
    BY DEF ForgetInv, Leaving, Leaves, InactiveForgetsId
  <1> QED
    BY <1>1, <1>2, ForgetStep, PTL DEF Spec

-----------------------------------------------------------------------------
(***************************************************************************)
(* How long an id stays registered.  While the RIC runs a check is pending *)
(* whose time is at most one check interval after the last one, and the    *)
(* last one left no expired row behind.                                    *)
(***************************************************************************)
CheckAhead ==
    /\ ricActive => /\ checkEvent \in Nat /\ now <= checkEvent
                    /\ \E c \in conf.checkIntervals : checkEvent <= now + c
    /\ \A i \in Ids : registration[i].at <= now

RowsInTime ==
    "StopRic" \notin conf.ops
    => \A i \in Ids : MustBeListed(i)
         => /\ ricActive
            /\ \E c \in conf.checkIntervals :
                  checkEvent <= registration[i].at + conf.threshold + c

CheckInv == TypeOK /\ CheckAhead /\ RowsInTime

(* Every step keeps the next check close enough.                           *)
LEMMA CheckStep == CheckInv /\ [Next]_vars => CheckInv'
  <1> SUFFICES ASSUME CheckInv, [Next]_vars PROVE CheckAhead' /\ RowsInTime'
    BY NextTyped DEF CheckInv
  <1> USE DEF nodeVars, ricVars, dataVars
  <1>0. /\ TypeOK /\ CheckAhead /\ RowsInTime
        /\ now \in Nat /\ registration \in [Ids -> Row]
        /\ conf.threshold \in Nat /\ conf.checkIntervals \in SUBSET (Nat \ {0})
    BY ConfTyped DEF CheckInv, TypeOK, Row
  <1>1. ASSUME UNCHANGED <<conf, now, ricActive, checkEvent, registration>>
        PROVE  CheckAhead' /\ RowsInTime'
    BY <1>0, <1>1 DEF CheckAhead, RowsInTime, MustBeListed
  <1>2. ASSUME NEW id \in Ids, NEW v \in BOOLEAN, ricActive,
               registration' = LogRegistration(registration, id, v),
               UNCHANGED <<conf, now, ricActive, checkEvent>>
        PROVE  CheckAhead' /\ RowsInTime'
    <2>1. /\ \A i \in Ids : i # id => registration'[i] = registration[i]
          /\ registration'[id].at = now
      BY <1>0, <1>2, Logged
    <2>2. CheckAhead'
      BY <1>0, <1>2, <2>1 DEF CheckAhead
    <2>3. ASSUME "StopRic" \notin conf.ops, NEW i \in Ids, MustBeListed(i)'
          PROVE  \E c \in conf.checkIntervals :
                    checkEvent <= registration'[i].at + conf.threshold + c
      <3>1. CASE i # id
        BY <1>0, <2>1, <2>3, <3>1 DEF RowsInTime, MustBeListed
      <3>2. CASE i = id
        BY <1>0, <1>2, <2>1, <3>2 DEF CheckAhead
      <3> QED
        BY <3>1, <3>2
    <2>4. RowsInTime'
      BY <1>2, <2>3 DEF RowsInTime
    <2> QED
      BY <2>2, <2>4
  <1>3. ASSUME NEW n \in Nodes, ActivateNode(n) \/ Refresh(n) \/ DeactivateNode(n)
        PROVE  CheckAhead' /\ RowsInTime'
    BY <1>1, <1>3 DEF ActivateNode, Refresh, DeactivateNode
  <1>4. ASSUME NEW m \in msgs, ReceiveRegistrationRequest(m) PROVE CheckAhead' /\ RowsInTime'
    <2>1. CASE ~ricActive
      BY <1>1, <1>4, <2>1 DEF ReceiveRegistrationRequest
    <2>2. CASE ricActive
      <3>1. m.id \in Ids /\ lastId \in Ids
        BY <1>0, MessageShape DEF TypeOK
      <3>2. Assigned(m) \in Ids
        BY <1>4, <3>1, IdNumbers DEF Assigned, ReceiveRegistrationRequest, Running, Ids
      <3>3. /\ registration' = LogRegistration(registration, Assigned(m), TRUE)
            /\ UNCHANGED <<conf, now, ricActive, checkEvent>>
        BY <1>4, <2>2 DEF ReceiveRegistrationRequest
      <3> QED
        BY <1>2, <2>2, <3>2, <3>3
    <2> QED
      BY <2>1, <2>2
  <1>5. ASSUME NEW m \in msgs, ReceiveDeregistrationRequest(m) PROVE CheckAhead' /\ RowsInTime'
    <2>1. CASE ~ricActive
      BY <1>1, <1>5, <2>1 DEF ReceiveDeregistrationRequest
    <2>2. CASE ricActive
      <3>1. m.id \in Ids
        BY <1>0, MessageShape DEF TypeOK
      <3>2. /\ registration' = LogRegistration(registration, m.id, FALSE)
            /\ UNCHANGED <<conf, now, ricActive, checkEvent>>
        BY <1>5, <2>2 DEF ReceiveDeregistrationRequest
      <3> QED
        BY <1>2, <2>2, <3>1, <3>2
    <2> QED
      BY <2>1, <2>2
  <1>6. ASSUME NEW m \in msgs, ReceiveRegistrationResponse(m) \/ ReceiveDeregistrationResponse(m)
        PROVE  CheckAhead' /\ RowsInTime'
    BY <1>1, <1>6 DEF ReceiveRegistrationResponse, ReceiveDeregistrationResponse
  <1>7. ASSUME NEW i \in Ids, ComputeCommand(i) \/ SendCommand(i)
        PROVE  CheckAhead' /\ RowsInTime'
    BY <1>1, <1>7 DEF ComputeCommand, SendCommand
  <1>8. CASE InactivityEvent \/ QueryLms
    <2>1. CheckForInactivity /\ ricActive
      BY <1>8 DEF InactivityEvent, QueryLms
    <2>2. UNCHANGED <<conf, now, ricActive>>
      BY <2>1 DEF CheckForInactivity
    <2>3. PICK S \in SUBSET {i \in Ids : Expired(i) /\ MayBeListed(i)},
               c \in conf.checkIntervals :
             /\ \A i \in Ids : Expired(i) /\ MustBeListed(i) => i \in S
             /\ \A i \in Ids \ S : registration'[i] = registration[i]
             /\ \A i \in S : ~registration'[i].registered
             /\ checkEvent' = now + c
      BY <1>0, <2>1, CheckShape
    <2>4. \A i \in Ids : registration'[i].at \in {now, registration[i].at}
      <3>1. \A i \in Ids : registration'[i] \in {registration[i],
                                                LogRegistration(registration, i, FALSE)[i]}
        BY <2>1 DEF CheckForInactivity
      <3>2. \A i \in Ids : LogRegistration(registration, i, FALSE)[i].at = now
        BY <1>0 DEF LogRegistration
      <3> QED
        BY <3>1, <3>2
    <2>5. CheckAhead'
      BY <1>0, <2>2, <2>3, <2>4 DEF CheckAhead
    <2>6. ASSUME NEW i \in Ids, MustBeListed(i)'
          PROVE  checkEvent' <= registration'[i].at + conf.threshold + c
      <3>1. i \notin S /\ registration'[i] = registration[i] /\ MustBeListed(i)
        BY <2>3, <2>6 DEF MustBeListed
      <3>2. registration[i].at \in Nat /\ ~(now - registration[i].at > conf.threshold)
        BY <1>0, <2>3, <3>1 DEF Expired, Row
      <3> QED
        BY <1>0, <2>3, <3>1, <3>2
    <2>7. RowsInTime'
      BY <2>1, <2>2, <2>3, <2>6 DEF RowsInTime
    <2> QED
      BY <2>5, <2>7
  <1>9. CASE StartRic
    <2>1. PICK c \in conf.checkIntervals : checkEvent' = now + c
      BY <1>9 DEF StartRic, NextCheck
    <2>2. CheckAhead'
      BY <1>0, <1>9, <2>1 DEF StartRic, CheckAhead
    <2>3. RowsInTime'
      BY <1>0, <1>9 DEF StartRic, RowsInTime, MustBeListed
    <2> QED
      BY <2>2, <2>3
  <1>10. CASE StopRic
    <2>1. CheckAhead'
      BY <1>0, <1>10 DEF StopRic, CheckAhead, Stored, NoRow
    <2> QED
      BY <1>10, <2>1 DEF StopRic, RowsInTime
  <1>11. CASE Tick
    <2>1. /\ now' = now + 1 /\ checkEvent # now
          /\ UNCHANGED <<conf, ricActive, checkEvent, registration>>
      BY <1>11 DEF Tick
    <2>2. CheckAhead'
      <3>1. \A i \in Ids : registration[i].at \in Nat
        BY <1>0 DEF Row
      <3> QED
        BY <1>0, <2>1, <3>1 DEF CheckAhead
    <2>3. RowsInTime'
      BY <1>0, <2>1 DEF RowsInTime, MustBeListed
    <2> QED
      BY <2>2, <2>3
  <1>12. CASE UNCHANGED vars
    BY <1>1, <1>12 DEF vars
  <1> QED
    BY <1>3, <1>4, <1>5, <1>6, <1>7, <1>8, <1>9, <1>10, <1>11, <1>12 DEF Next, Ended

(* A RIC that is not stopped keeps no id registered longer than the        *)
(* threshold and one check interval after its last refresh, for all        *)
(* thresholds and intervals.                                               *)
THEOREM InactiveIdsGo == Spec => []InactivityBound
  <1>1. Init => CheckInv
    BY InitTyped DEF Init, CheckInv, CheckAhead, RowsInTime, MustBeListed, NoRow
  <1>2. CheckInv => InactivityBound
    <2> SUFFICES ASSUME CheckInv, "StopRic" \notin conf.ops, NEW i \in Ids, MustBeListed(i)
                 PROVE  \E c \in conf.checkIntervals :
                           now - registration[i].at <= conf.threshold + c
      BY DEF InactivityBound
    <2>1. /\ ricActive /\ checkEvent \in Nat /\ now <= checkEvent
          /\ \E c \in conf.checkIntervals :
                checkEvent <= registration[i].at + conf.threshold + c
      BY DEF CheckInv, CheckAhead, RowsInTime
    <2>2. /\ now \in Nat /\ registration[i].at \in Nat
          /\ conf.threshold \in Nat /\ conf.checkIntervals \in SUBSET (Nat \ {0})
      BY ConfTyped DEF CheckInv, TypeOK
    <2> QED
      BY <2>1, <2>2
  <1> QED
    BY <1>1, <1>2, CheckStep, PTL DEF Spec

-----------------------------------------------------------------------------
(***************************************************************************)
(* Prompt refreshes.  A registration is answered before the next one is    *)
(* sent, so a node has at most one message under way, and each row is      *)
(* refreshed before it expires.                                            *)
(***************************************************************************)

\* No node leaves, and no deregistration is ever logged or sent.
Clean ==
    /\ \A m \in msgs : m.kind \in {"RegRequest", "RegResponse"}
    /\ \A i \in Ids : registration[i] = NoRow
                      \/ (registration[i].registered /\ ~registration[i].tied)

\* The next refresh of an active node is ahead; an inactive one never began.
NodesInTime ==
    \A n \in Nodes : /\ nodeActive[n] => regEvent[n] \in Nat /\ now <= regEvent[n]
                     /\ ~nodeActive[n] => e2NodeId[n] = 0 /\ regEvent[n] = Never

\* A message, and the response to it, arrive before the next refresh.
MsgsInTime ==
    \A m \in msgs :
        /\ nodeActive[m.node] /\ now <= m.due
        /\ m.kind = "RegRequest" => /\ \A d \in conf.delays : m.due + d < regEvent[m.node]
                                    /\ \E r \in conf.regIntervals : regEvent[m.node] <= m.due + r
        /\ m.kind = "RegResponse" => m.due < regEvent[m.node]

OneMessage == \A x, y \in msgs : x.node = y.node => x = y

\* A request carries the id of the node, a response its id to be.
Carried ==
    \A m \in msgs :
        /\ m.kind = "RegRequest" => m.id = e2NodeId[m.node]
        /\ m.kind = "RegResponse" => /\ m.id # 0 /\ registration[m.id].registered
                                     /\ terminators[m.id] = m.node
                                     /\ e2NodeId[m.node] \in {0, m.id}

HeldIsRegistered == \A n \in Nodes : e2NodeId[n] # 0 => registration[e2NodeId[n]].registered

\* A registered id is the one its node has, or is about to get.
Used(i) ==
    LET n == terminators[i] IN
    \/ e2NodeId[n] = i
    \/ e2NodeId[n] = 0 /\ \E m \in msgs : m.kind = "RegResponse" /\ m.node = n /\ m.id = i
RegisteredIsUsed == \A i \in Ids : registration[i].registered => Used(i)

\* The next refresh of a registered id arrives before the row expires.
Refreshed(i) ==
    LET n == terminators[i]
        limit == registration[i].at + conf.threshold
    IN  IF \E m \in msgs : m.kind = "RegRequest" /\ m.node = n
          THEN \A m \in msgs : m.kind = "RegRequest" /\ m.node = n => m.due <= limit
          ELSE \A d \in conf.delays : regEvent[n] + d <= limit
RefreshInTime == \A i \in Ids : registration[i].registered => Refreshed(i)

PromptParts == /\ Clean /\ NodesInTime /\ MsgsInTime /\ OneMessage /\ Carried
               /\ HeldIsRegistered /\ RegisteredIsUsed /\ RefreshInTime

PromptInv == ForgetInv /\ (Prompt => PromptParts)

(* What the proof needs of a prompt scenario.                              *)
LEMMA PromptFacts ==
    ASSUME PromptInv, Prompt
    PROVE  /\ TypeOK /\ PromptParts /\ now \in Nat /\ conf.threshold \in Nat
           /\ conf.delays \in SUBSET Nat /\ conf.delays # {}
           /\ conf.regIntervals \in SUBSET Nat
           /\ registration \in [Ids -> Row] /\ e2NodeId \in [Nodes -> Ids]
           /\ nodeActive \in [Nodes -> BOOLEAN] /\ terminators \in [Ids -> Nodes \cup {NoNode}]
           /\ \A m \in msgs : m.id \in Ids /\ m.due \in Nat /\ m.node \in Nodes
           /\ \A i \in Ids : registration[i].registered =>
                 i # 0 /\ terminators[i] \in Nodes /\ i <= lastId /\ ricActive
           /\ \A n \in Nodes : e2NodeId[n] # 0 => terminators[e2NodeId[n]] = n
           /\ lastId \in Ids /\ Ids \subseteq Nat
           /\ \A d1, d2 \in conf.delays, r \in conf.regIntervals : d1 + d2 < r
           /\ \A d \in conf.delays, r \in conf.regIntervals : r + d <= conf.threshold
  <1>1. TypeOK /\ OwnInv /\ Alive /\ PromptParts
    BY DEF PromptInv, ForgetInv, OwnInv
  <1>2. /\ now \in Nat /\ conf.threshold \in Nat /\ conf.delays \in SUBSET Nat
        /\ conf.delays # {} /\ conf.regIntervals \in SUBSET Nat
    BY <1>1, ConfTyped DEF TypeOK
  <1>3. /\ registration \in [Ids -> Row] /\ e2NodeId \in [Nodes -> Ids]
        /\ nodeActive \in [Nodes -> BOOLEAN] /\ terminators \in [Ids -> Nodes \cup {NoNode}]
        /\ lastId \in Ids /\ Ids \subseteq Nat
    BY <1>1, IdNumbers DEF TypeOK, Row
  <1>4. \A m \in msgs : m.id \in Ids /\ m.due \in Nat /\ m.node \in Nodes
    <2>1. \A m \in msgs : m \in Message /\ m.kind # "DeregResponse"
      BY <1>1 DEF PromptParts, Clean, TypeOK
    <2> QED
      BY <2>1, MessageShape
  <1>5. "StopRic" \notin conf.ops /\ Kept
    BY DEF Prompt, Kept
  <1>6. HandedOut /\ HeldByOwner
    BY <1>1, <1>5 DEF OwnInv, Owners
  <1>7. ASSUME NEW i \in Ids, registration[i].registered
        PROVE  i # 0 /\ terminators[i] \in Nodes /\ i <= lastId /\ ricActive
    <2>1. i # 0 /\ terminators[i] \in Nodes
      BY <1>1, <1>7 DEF OwnInv, Listings, MayBeListed
    <2>2. i <= lastId
      BY <1>6, <2>1, NodeAssumption DEF HandedOut
    <2>3. lastId # 0
      BY <1>3, <2>1, <2>2
    <2> QED
      BY <1>1, <1>5, <2>1, <2>2, <2>3 DEF Alive
  <1>8. /\ \A d1, d2 \in conf.delays, r \in conf.regIntervals : d1 + d2 < r
        /\ \A d \in conf.delays, r \in conf.regIntervals : r + d <= conf.threshold
    BY DEF Prompt
  <1> QED
    BY <1>1, <1>2, <1>3, <1>4, <1>6, <1>7, <1>8 DEF HeldByOwner

(* Sending a registration request when the node has no message under way.  *)
LEMMA RegisterPrompt ==
    ASSUME PromptInv, Prompt, NEW n \in Nodes, Register(n),
           \A m \in msgs : m.node # n,
           nodeActive[n] => regEvent[n] = now,
           nodeActive' = [nodeActive EXCEPT ![n] = TRUE],
           UNCHANGED <<conf, now, e2NodeId, registration, terminators>>
    PROVE  PromptParts'
  <1>0. TypeOK /\ PromptParts
    BY PromptFacts
  <1>1. PICK d \in conf.delays, r \in conf.regIntervals :
           /\ msgs' = msgs \cup {Msg("RegRequest", n, e2NodeId[n], now + d, requests[n] + 1)}
           /\ regEvent' = [regEvent EXCEPT ![n] = now + r]
    BY DEF Register
  <1> DEFINE new == Msg("RegRequest", n, e2NodeId[n], now + d, requests[n] + 1)
  <1>2. /\ msgs' = msgs \cup {new} /\ new.kind = "RegRequest" /\ new.node = n
        /\ new.id = e2NodeId[n] /\ new.due = now + d
    BY <1>1 DEF Msg
  <1> HIDE DEF new
  <1>3. /\ regEvent'[n] = now + r /\ nodeActive'[n]
        /\ \A k \in Nodes \ {n} : regEvent'[k] = regEvent[k] /\ nodeActive'[k] = nodeActive[k]
    BY <1>0, <1>1, PromptFacts DEF TypeOK
  <1>4. now \in Nat /\ d \in Nat /\ r \in Nat
    BY PromptFacts
  <1>5. Clean'
    BY <1>0, <1>2 DEF PromptParts, Clean
  <1>6. NodesInTime'
    BY <1>0, <1>3, <1>4 DEF PromptParts, NodesInTime
  <1>7. MsgsInTime'
    <2>1. ASSUME NEW m \in msgs
          PROVE  /\ nodeActive'[m.node] /\ now' <= m.due
                 /\ m.kind = "RegRequest" =>
                       /\ \A e \in conf.delays : m.due + e < regEvent'[m.node]
                       /\ \E q \in conf.regIntervals : regEvent'[m.node] <= m.due + q
                 /\ m.kind = "RegResponse" => m.due < regEvent'[m.node]
      <3>1. m.node \in Nodes \ {n}
        BY PromptFacts
      <3> QED
        BY <1>0, <1>3, <3>1 DEF PromptParts, MsgsInTime
    <2>2. \A e \in conf.delays : now + d + e < now + r
      BY <1>4, PromptFacts
    <2>3. now + r <= now + d + r
      BY <1>4
    <2> QED
      BY <1>2, <1>3, <1>4, <2>1, <2>2, <2>3 DEF MsgsInTime
  <1>8. OneMessage'
    BY <1>0, <1>2 DEF PromptParts, OneMessage
  <1>9. Carried'
    BY <1>0, <1>2 DEF PromptParts, Carried
  <1>10. HeldIsRegistered'
    BY <1>0 DEF PromptParts, HeldIsRegistered
  <1>11. RegisteredIsUsed'
    BY <1>0, <1>2 DEF PromptParts, RegisteredIsUsed, Used
  <1>12. RefreshInTime'
    <2> SUFFICES ASSUME NEW i \in Ids, registration[i].registered PROVE Refreshed(i)'
      BY DEF RefreshInTime
    <2>1. Refreshed(i) /\ Used(i) /\ terminators[i] \in Nodes
      BY <1>0, PromptFacts DEF PromptParts, RefreshInTime, RegisteredIsUsed
    <2>2. CASE terminators[i] # n
      BY <1>2, <1>3, <2>1, <2>2 DEF Refreshed
    <2>3. CASE terminators[i] = n
      <3>1. nodeActive[n]
        <4>1. e2NodeId[n] = i /\ i # 0
          BY <2>1, <2>3, PromptFacts DEF Used
        <4> QED
          BY <1>0, <4>1 DEF PromptParts, NodesInTime
      <3>2. now + d <= registration[i].at + conf.threshold
        BY <2>1, <2>3, <3>1 DEF Refreshed
      <3>3. \A m \in msgs' : m.kind = "RegRequest" /\ m.node = n
                             => m.due <= registration[i].at + conf.threshold
        BY <1>2, <3>2
      <3> QED
        BY <1>2, <2>3, <3>3 DEF Refreshed
    <2> QED
      BY <2>2, <2>3
  <1> QED
    BY <1>5, <1>6, <1>7, <1>8, <1>9, <1>10, <1>11, <1>12 DEF PromptParts


(* Answering a request: the row is written, and the response is the only   *)
(* message of the node.                                                    *)
LEMMA AnswerPrompt ==
    ASSUME PromptInv, Prompt, NEW m \in msgs, ReceiveRegistrationRequest(m), ricActive
    PROVE  PromptParts'
  <1> USE DEF nodeVars, ricVars, dataVars
  <1> DEFINE id == Assigned(m)
             n == m.node
  <1>0. /\ TypeOK /\ Clean /\ NodesInTime /\ MsgsInTime /\ OneMessage /\ Carried
        /\ HeldIsRegistered /\ RegisteredIsUsed /\ RefreshInTime
    BY PromptFacts DEF PromptParts
  <1>1. /\ m.kind = "RegRequest" /\ m.due = now /\ lastId < MaxId
        /\ n \in Nodes /\ m.id \in Ids /\ m.id = e2NodeId[n]
    BY <1>0, PromptFacts DEF ReceiveRegistrationRequest, Due, Running, Carried
  <1>2. lastId \in Ids /\ Ids \subseteq Nat /\ MaxId \in Nat
    BY PromptFacts, IdNumbers
  <1>3. /\ id \in Ids /\ id # 0
        /\ m.id = 0 => id = lastId + 1
        /\ m.id # 0 => id = m.id
    BY <1>1, <1>2 DEF Assigned, Ids
  <1>4. PICK d \in conf.delays :
           msgs' = (msgs \ {m}) \cup {Msg("RegResponse", n, id, now + d, m.no)}
    BY DEF ReceiveRegistrationRequest
  <1>5. /\ registration' = LogRegistration(registration, id, TRUE)
        /\ terminators' = [terminators EXCEPT ![id] = n]
        /\ UNCHANGED <<conf, now, nodeActive, e2NodeId, regEvent>>
    BY DEF ReceiveRegistrationRequest
  <1> DEFINE new == Msg("RegResponse", n, id, now + d, m.no)
  <1>6. /\ msgs' = (msgs \ {m}) \cup {new} /\ new.kind = "RegResponse" /\ new.node = n
        /\ new.id = id /\ new.due = now + d
    BY <1>4 DEF Msg
  <1> HIDE DEF id, n, new
  <1>7. /\ terminators'[id] = n
        /\ \A i \in Ids \ {id} : terminators'[i] = terminators[i]
    BY <1>3, <1>5, PromptFacts
  <1>8. /\ \A i \in Ids \ {id} : registration'[i] = registration[i]
        /\ registration'[id].registered
        /\ registration'[id].at = now
        /\ registration'[id].tied => /\ registration[id] # NoRow
                                     /\ registration[id].tied \/ registration[id].registered # TRUE
    BY <1>0, <1>3, <1>5, Logged
  <1>9. \A x \in msgs \ {m} : x.node # n
    BY <1>0 DEF OneMessage, n
  <1>10. \A i \in Ids \ {id} : registration[i].registered => terminators[i] # n
    <2> SUFFICES ASSUME NEW i \in Ids, i # id, registration[i].registered, terminators[i] = n
                 PROVE  FALSE
      OBVIOUS
    <2>1. Used(i) /\ i # 0
      BY <1>0, PromptFacts DEF RegisteredIsUsed
    <2>2. e2NodeId[n] # i
      BY <1>1, <1>3, <2>1
    <2>3. PICK x \in msgs : x.kind = "RegResponse" /\ x.node = n
      BY <2>1, <2>2 DEF Used
    <2> QED
      BY <1>1, <1>9, <2>3
  <1>11. Clean'
    BY <1>0, <1>3, <1>6, <1>8 DEF Clean
  <1>12. NodesInTime'
    BY <1>0, <1>5 DEF NodesInTime
  <1>13. MsgsInTime'
    <2>1. nodeActive[n] /\ now + d < regEvent[n]
      BY <1>0, <1>1 DEF MsgsInTime, n
    <2>2. now <= now + d
      BY PromptFacts
    <2> QED
      BY <1>0, <1>5, <1>6, <2>1, <2>2 DEF MsgsInTime
  <1>14. OneMessage'
    BY <1>0, <1>6, <1>9 DEF OneMessage
  <1>15. HeldIsRegistered'
    BY <1>0, <1>5, <1>8, PromptFacts DEF HeldIsRegistered
  <1>16. Carried'
    <2>1. ASSUME NEW x \in msgs \ {m}
          PROVE  /\ x.kind = "RegRequest" => x.id = e2NodeId'[x.node]
                 /\ x.kind = "RegResponse" => /\ x.id # 0 /\ registration'[x.id].registered
                                              /\ terminators'[x.id] = x.node
                                              /\ e2NodeId'[x.node] \in {0, x.id}
      <3>1. x.id \in Ids
        BY PromptFacts
      <3>2. x.kind = "RegResponse" => x.id # id
        <4> SUFFICES ASSUME x.kind = "RegResponse", x.id = id PROVE FALSE
          OBVIOUS
        <4>1. registration[id].registered /\ terminators[id] = x.node
          BY <1>0 DEF Carried
        <4>2. id <= lastId
          BY <1>3, <4>1, PromptFacts
        <4>3. id = m.id
          BY <1>2, <1>3, <4>2
        <4>4. terminators[id] = n
          BY <1>1, <1>3, <4>3, PromptFacts
        <4> QED
          BY <1>9, <4>1, <4>4
      <3> QED
        BY <1>0, <1>5, <1>7, <1>8, <3>1, <3>2 DEF Carried
    <2>2. e2NodeId[n] \in {0, id}
      BY <1>1, <1>3
    <2> QED
      BY <1>3, <1>5, <1>6, <1>7, <1>8, <2>1, <2>2 DEF Carried
  <1>17. RegisteredIsUsed'
    <2> SUFFICES ASSUME NEW i \in Ids, registration'[i].registered PROVE Used(i)'
      BY DEF RegisteredIsUsed
    <2>1. CASE i = id
      BY <1>1, <1>3, <1>5, <1>6, <1>7, <2>1 DEF Used
    <2>2. CASE i # id
      <3>1. Used(i) /\ terminators[i] # n /\ terminators'[i] = terminators[i]
        BY <1>0, <1>7, <1>8, <1>10, <2>2 DEF RegisteredIsUsed
      <3>2. \A x \in msgs : x.node = terminators[i] => x \in msgs'
        BY <1>6, <3>1 DEF n
      <3> QED
        BY <1>5, <3>1, <3>2 DEF Used
    <2> QED
      BY <2>1, <2>2
  <1>18. RefreshInTime'
    <2> SUFFICES ASSUME NEW i \in Ids, registration'[i].registered PROVE Refreshed(i)'
      BY DEF RefreshInTime
    <2>1. CASE i = id
      <3>1. \A x \in msgs' : ~(x.kind = "RegRequest" /\ x.node = n)
        BY <1>6, <1>9
      <3>2. PICK r \in conf.regIntervals : regEvent[n] <= now + r
        BY <1>0, <1>1 DEF MsgsInTime, n
      <3>3. regEvent[n] \in Nat
        BY <1>0, <1>1 DEF NodesInTime, MsgsInTime, n
      <3>4. \A e \in conf.delays : regEvent[n] + e <= now + conf.threshold
        <4> TAKE e \in conf.delays
        <4>1. e \in Nat /\ r \in Nat /\ now \in Nat /\ conf.threshold \in Nat
              /\ r + e <= conf.threshold
          BY PromptFacts
        <4> QED
          BY <3>2, <3>3, <4>1
      <3> QED
        BY <1>5, <1>7, <1>8, <2>1, <3>1, <3>4 DEF Refreshed
    <2>2. CASE i # id
      <3>1. /\ Refreshed(i) /\ terminators[i] # n /\ terminators'[i] = terminators[i]
            /\ registration'[i] = registration[i]
        BY <1>0, <1>7, <1>8, <1>10, <2>2 DEF RefreshInTime
      <3>2. \A x : x.kind = "RegRequest" /\ x.node = terminators[i] => (x \in msgs <=> x \in msgs')
        BY <1>6, <3>1 DEF n
      <3> QED
        BY <1>5, <3>1, <3>2 DEF Refreshed
    <2> QED
      BY <2>1, <2>2
  <1> QED
    BY <1>11, <1>12, <1>13, <1>14, <1>15, <1>16, <1>17, <1>18 DEF PromptParts

(* A response that arrives is taken by its node, which is active.          *)
LEMMA TakePrompt ==
    ASSUME PromptInv, Prompt, NEW m \in msgs, ReceiveRegistrationResponse(m)
    PROVE  PromptParts' /\ \A n \in Nodes : e2NodeId[n] # 0 => e2NodeId'[n] = e2NodeId[n]
  <1> USE DEF nodeVars, ricVars, dataVars
  <1>0. /\ TypeOK /\ Clean /\ NodesInTime /\ MsgsInTime /\ OneMessage /\ Carried
        /\ HeldIsRegistered /\ RegisteredIsUsed /\ RefreshInTime
    BY PromptFacts DEF PromptParts
  <1>1. /\ m.kind = "RegResponse" /\ msgs' = msgs \ {m}
        /\ e2NodeId' = IdAfterRegResponse(m)
        /\ UNCHANGED <<conf, now, nodeActive, regEvent, registration, terminators>>
    BY DEF ReceiveRegistrationResponse, Due
  <1>2. /\ m.node \in Nodes /\ m.id \in Ids /\ nodeActive[m.node]
        /\ m.id # 0 /\ registration[m.id].registered
        /\ e2NodeId[m.node] \in {0, m.id} /\ terminators[m.id] = m.node
    BY <1>0, <1>1, PromptFacts DEF MsgsInTime, Carried
  <1>3. e2NodeId'[m.node] = m.id /\ \A n \in Nodes \ {m.node} : e2NodeId'[n] = e2NodeId[n]
    BY <1>1, <1>2, PromptFacts DEF IdAfterRegResponse
  <1>4. \A n \in Nodes : e2NodeId[n] # 0 => e2NodeId'[n] = e2NodeId[n]
    BY <1>2, <1>3
  <1>5. Clean' /\ NodesInTime' /\ MsgsInTime' /\ OneMessage'
    <2>1. Clean'
      BY <1>0, <1>1 DEF Clean
    <2>2. NodesInTime'
      BY <1>0, <1>1, <1>2, <1>3 DEF NodesInTime
    <2>3. MsgsInTime'
      BY <1>0, <1>1 DEF MsgsInTime
    <2>4. OneMessage'
      BY <1>0, <1>1 DEF OneMessage
    <2> QED
      BY <2>1, <2>2, <2>3, <2>4
  <1>6. \A x \in msgs' : x.node \in Nodes \ {m.node} /\ x \in msgs
    BY <1>0, <1>1, PromptFacts DEF OneMessage
  <1>7. Carried'
    BY <1>0, <1>1, <1>3, <1>6 DEF Carried
  <1>8. HeldIsRegistered'
    BY <1>0, <1>1, <1>2, <1>3 DEF HeldIsRegistered
  <1>9. RegisteredIsUsed'
    <2> SUFFICES ASSUME NEW i \in Ids, registration[i].registered PROVE Used(i)'
      BY <1>1 DEF RegisteredIsUsed
    <2>1. Used(i) /\ terminators[i] \in Nodes /\ i # 0
      BY <1>0, PromptFacts DEF RegisteredIsUsed
    <2>2. CASE terminators[i] # m.node
      BY <1>1, <1>3, <2>1, <2>2 DEF Used
    <2>3. CASE terminators[i] = m.node
      <3>1. m.id = i
        BY <1>0, <1>2, <2>1, <2>3 DEF Used, OneMessage
      <3> QED
        BY <1>1, <1>2, <1>3, <3>1 DEF Used
    <2> QED
      BY <2>2, <2>3
  <1>10. RefreshInTime'
    <2>1. \A x : x.kind = "RegRequest" => (x \in msgs <=> x \in msgs')
      BY <1>1
    <2> QED
      BY <1>0, <1>1, <2>1 DEF RefreshInTime, Refreshed
  <1> QED
    BY <1>4, <1>5, <1>7, <1>8, <1>9, <1>10 DEF PromptParts

(* Nothing that is registered has expired, so the check changes nothing.   *)
LEMMA CheckPrompt ==
    ASSUME PromptInv, Prompt, CheckForInactivity
    PROVE  UNCHANGED <<registration, msgs>>
  <1>0. Clean /\ NodesInTime /\ MsgsInTime /\ RegisteredIsUsed /\ RefreshInTime /\ Carried
    BY PromptFacts DEF PromptParts
  <1>1. ASSUME NEW i \in Ids, MayBeListed(i), Expired(i) PROVE FALSE
    <2>1. registration[i].registered
      BY <1>0, <1>1 DEF Clean, MayBeListed, NoRow
    <2> DEFINE n == terminators[i]
    <2>2. Refreshed(i) /\ Used(i) /\ n \in Nodes /\ i # 0
      BY <1>0, <2>1, PromptFacts DEF RefreshInTime, RegisteredIsUsed
    <2>3. nodeActive[n] /\ regEvent[n] \in Nat /\ now <= regEvent[n]
      BY <1>0, <2>2, PromptFacts DEF Used, NodesInTime, MsgsInTime
    <2>4. PICK d \in conf.delays : TRUE
      BY PromptFacts
    <2>5. now \in Nat /\ d \in Nat /\ registration[i].at \in Nat /\ conf.threshold \in Nat
      BY PromptFacts DEF Row
    <2>6. \A m \in msgs : m.due \in Nat /\ now <= m.due
      BY <1>0, PromptFacts DEF MsgsInTime
    <2>7. now <= registration[i].at + conf.threshold
      BY <2>2, <2>3, <2>4, <2>5, <2>6 DEF Refreshed
    <2> QED
      BY <1>1, <2>5, <2>7 DEF Expired
  <1>2. PICK S \in SUBSET {i \in Ids : Expired(i) /\ MayBeListed(i)} :
           /\ registration' = [i \in Ids |->
                 IF i \in S THEN LogRegistration(registration, i, FALSE)[i]
                            ELSE registration[i]]
           /\ \E d \in [S -> conf.delays] :
                 msgs' = msgs \cup
                    {Msg("DeregResponse", terminators[i], i, now + d[i], 0) : i \in S}
    BY DEF CheckForInactivity
  <1>3. S = {}
    BY <1>1, <1>2
  <1>4. registration' = registration
    BY <1>2, <1>3, PromptFacts
  <1>5. msgs' = msgs
    BY <1>2, <1>3
  <1> QED
    BY <1>4, <1>5

(* In a prompt scenario every step keeps its invariant, and the ids.       *)
LEMMA PromptPartsStep ==
    ASSUME PromptInv, Prompt, [Next]_vars
    PROVE  PromptParts' /\ \A n \in Nodes : e2NodeId[n] # 0 => e2NodeId'[n] = e2NodeId[n]
  <1> DEFINE Goal == PromptParts' /\ \A n \in Nodes : e2NodeId[n] # 0 => e2NodeId'[n] = e2NodeId[n]
  <1> SUFFICES Goal
    OBVIOUS
  <1> USE DEF nodeVars, ricVars, dataVars
  <1>0. /\ TypeOK /\ PromptParts /\ Clean /\ NodesInTime /\ MsgsInTime /\ OneMessage /\ Carried
        /\ HeldIsRegistered /\ RegisteredIsUsed /\ RefreshInTime
    BY PromptFacts DEF PromptParts
  <1>a. "DeactivateNode" \notin conf.ops /\ "StopRic" \notin conf.ops
    BY DEF Prompt
  <1>1. ASSUME UNCHANGED <<conf, now, nodeActive, e2NodeId, regEvent, msgs, registration,
                           terminators>>
        PROVE  Goal
    BY <1>0, <1>1 DEF PromptParts, Clean, NodesInTime, MsgsInTime, OneMessage, Carried,
                      HeldIsRegistered, RegisteredIsUsed, Used, RefreshInTime, Refreshed
  <1>2. ASSUME NEW n \in Nodes, ActivateNode(n) PROVE Goal
    <2>1. /\ Register(n) /\ ~nodeActive[n] /\ nodeActive' = [nodeActive EXCEPT ![n] = TRUE]
          /\ UNCHANGED <<conf, now, e2NodeId, registration, terminators>>
      BY <1>2 DEF ActivateNode
    <2>2. \A m \in msgs : m.node # n
      BY <1>0, <2>1 DEF MsgsInTime
    <2>3. PromptParts'
      BY <2>1, <2>2, RegisterPrompt
    <2> QED
      BY <2>1, <2>3
  <1>3. ASSUME NEW n \in Nodes, Refresh(n) PROVE Goal
    <2>1. /\ Register(n) /\ regEvent[n] = now /\ nodeActive' = nodeActive
          /\ UNCHANGED <<conf, now, e2NodeId, registration, terminators>>
      BY <1>3 DEF Refresh
    <2>2. nodeActive[n] /\ now \in Nat
      BY <1>0, <2>1, PromptFacts DEF NodesInTime, Never
    <2>3. nodeActive' = [nodeActive EXCEPT ![n] = TRUE]
      BY <2>1, <2>2, PromptFacts
    <2>4. \A m \in msgs : m.node # n
      <3> SUFFICES ASSUME NEW m \in msgs, m.node = n PROVE FALSE
        OBVIOUS
      <3>1. m.kind \in {"RegRequest", "RegResponse"} /\ now <= m.due
        BY <1>0 DEF Clean, MsgsInTime
      <3>2. m.kind = "RegResponse" => m.due < now
        BY <1>0, <2>1 DEF MsgsInTime
      <3>3. PICK d \in conf.delays : d \in Nat
        BY PromptFacts
      <3>4. m.kind = "RegRequest" => m.due + d < now
        BY <1>0, <2>1, <3>3 DEF MsgsInTime
      <3> QED
        BY <2>2, <3>1, <3>2, <3>3, <3>4, PromptFacts
    <2>5. PromptParts'
      BY <2>1, <2>3, <2>4, RegisterPrompt
    <2> QED
      BY <2>1, <2>5
  <1>4. ASSUME NEW n \in Nodes, DeactivateNode(n) PROVE FALSE
    BY <1>4, <1>a DEF DeactivateNode
  <1>5. ASSUME NEW m \in msgs, ReceiveRegistrationRequest(m) PROVE Goal
    <2>1. UNCHANGED e2NodeId
      BY <1>5 DEF ReceiveRegistrationRequest
    <2>2. CASE ricActive
      BY <1>5, <2>1, <2>2, AnswerPrompt
    <2>3. CASE ~ricActive
      <3>1. /\ msgs' = msgs \ {m}
            /\ UNCHANGED <<conf, now, nodeActive, e2NodeId, regEvent, registration, terminators>>
        BY <1>5, <2>3 DEF ReceiveRegistrationRequest
      <3>2. \A i \in Ids : ~registration[i].registered
        BY <2>3, PromptFacts
      <3>3. Clean' /\ NodesInTime' /\ OneMessage'
        BY <1>0, <3>1 DEF Clean, NodesInTime, OneMessage
      <3>4. MsgsInTime' /\ Carried'
        BY <1>0, <3>1 DEF MsgsInTime, Carried
      <3>5. HeldIsRegistered' /\ RegisteredIsUsed' /\ RefreshInTime'
        BY <1>0, <3>1, <3>2 DEF HeldIsRegistered, RegisteredIsUsed, RefreshInTime
      <3> QED
        BY <3>1, <3>3, <3>4, <3>5 DEF PromptParts
    <2> QED
      BY <2>2, <2>3
  <1>6. ASSUME NEW m \in msgs,
               ReceiveDeregistrationRequest(m) \/ ReceiveDeregistrationResponse(m)
        PROVE  FALSE
    BY <1>0, <1>6 DEF ReceiveDeregistrationRequest, ReceiveDeregistrationResponse, Due, Clean
  <1>7. ASSUME NEW m \in msgs, ReceiveRegistrationResponse(m) PROVE Goal
    BY <1>7, TakePrompt
  <1>8. ASSUME NEW i \in Ids, ComputeCommand(i) \/ SendCommand(i) PROVE Goal
    BY <1>1, <1>8 DEF ComputeCommand, SendCommand
  <1>9. CASE InactivityEvent \/ QueryLms
    <2>1. CheckForInactivity
      BY <1>9 DEF InactivityEvent, QueryLms
    <2>2. UNCHANGED <<registration, msgs>>
      BY <2>1, CheckPrompt
    <2> QED
      BY <1>1, <2>1, <2>2 DEF CheckForInactivity
  <1>10. CASE StartRic
    BY <1>1, <1>10 DEF StartRic
  <1>11. CASE StopRic
    BY <1>11, <1>a DEF StopRic
  <1>12. CASE Tick
    <2>1. /\ now' = now + 1 /\ \A n \in Nodes : regEvent[n] # now
          /\ \A m \in msgs : m.due # now
          /\ UNCHANGED <<conf, nodeActive, e2NodeId, regEvent, msgs, registration, terminators>>
      BY <1>12 DEF Tick
    <2>2. now \in Nat /\ \A m \in msgs : m.due \in Nat
      BY PromptFacts
    <2>3. NodesInTime'
      BY <1>0, <2>1, <2>2 DEF NodesInTime
    <2>4. MsgsInTime'
      BY <1>0, <2>1, <2>2 DEF MsgsInTime
    <2>5. Clean' /\ OneMessage' /\ Carried' /\ HeldIsRegistered'
      BY <1>0, <2>1 DEF Clean, OneMessage, Carried, HeldIsRegistered
    <2>6. RegisteredIsUsed' /\ RefreshInTime'
      BY <1>0, <2>1 DEF RegisteredIsUsed, Used, RefreshInTime, Refreshed
    <2> QED
      BY <2>1, <2>3, <2>4, <2>5, <2>6 DEF PromptParts
  <1>13. CASE UNCHANGED vars
    BY <1>1, <1>13 DEF vars
  <1> QED
    BY <1>2, <1>3, <1>4, <1>5, <1>6, <1>7, <1>8, <1>9, <1>10, <1>11, <1>12, <1>13
       DEF Next, Ended

(* The configuration is fixed.                                             *)
LEMMA ConfStays == ASSUME [Next]_vars PROVE conf' = conf
  <1> USE DEF nodeVars, ricVars, dataVars
  <1>1. ASSUME NEW n \in Nodes, ActivateNode(n) \/ Refresh(n) \/ DeactivateNode(n)
        PROVE  conf' = conf
    BY <1>1 DEF ActivateNode, Refresh, DeactivateNode
  <1>2. ASSUME NEW m, ReceiveRegistrationRequest(m) \/ ReceiveDeregistrationRequest(m)
        PROVE  conf' = conf
    BY <1>2 DEF ReceiveRegistrationRequest, ReceiveDeregistrationRequest
  <1>3. ASSUME NEW m, ReceiveRegistrationResponse(m) \/ ReceiveDeregistrationResponse(m)
        PROVE  conf' = conf
    BY <1>3 DEF ReceiveRegistrationResponse, ReceiveDeregistrationResponse
  <1>4. ASSUME NEW i, ComputeCommand(i) \/ SendCommand(i) PROVE conf' = conf
    BY <1>4 DEF ComputeCommand, SendCommand
  <1>5. CASE InactivityEvent \/ QueryLms
    BY <1>5 DEF InactivityEvent, QueryLms, CheckForInactivity
  <1>6. CASE StartRic \/ StopRic \/ Tick \/ UNCHANGED vars
    BY <1>6 DEF StartRic, StopRic, Tick, vars
  <1> QED
    BY <1>1, <1>2, <1>3, <1>4, <1>5, <1>6 DEF Next, Ended

(* Every step keeps the invariant of prompt refreshes.                     *)
LEMMA PromptStep == PromptInv /\ [Next]_vars => PromptInv'
  <1> SUFFICES ASSUME PromptInv, [Next]_vars PROVE PromptInv'
    OBVIOUS
  <1>1. ForgetInv'
    BY ForgetStep DEF PromptInv
  <1>2. Prompt' <=> Prompt
    BY ConfStays DEF Prompt
  <1>3. Prompt => PromptParts'
    BY PromptPartsStep
  <1> QED
    BY <1>1, <1>2, <1>3 DEF PromptInv

(* The invariant holds before anything happened.                           *)
LEMMA InitPrompt == Init => PromptInv
  <1> SUFFICES ASSUME Init PROVE PromptInv
    OBVIOUS
  <1>1. ForgetInv
    BY InitOwn DEF Init, ForgetInv, Alive, Leaving
  <1>2. Clean /\ NodesInTime /\ MsgsInTime /\ OneMessage /\ Carried
    BY DEF Init, Clean, NodesInTime, MsgsInTime, OneMessage, Carried
  <1>3. HeldIsRegistered /\ RegisteredIsUsed /\ RefreshInTime
    BY DEF Init, HeldIsRegistered, RegisteredIsUsed, RefreshInTime, NoRow
  <1> QED
    BY <1>1, <1>2, <1>3 DEF PromptInv, PromptParts

(* When refreshes are prompt - a registration is answered before the next  *)
(* one, and refreshes arrive within E2NodeInactivityThreshold, exactly at  *)
(* it even - the RIC has one registered id for each node that registered,  *)
(* the one the node uses, for any number of nodes, all delays and          *)
(* intervals.                                                              *)
THEOREM OneIdWhenPrompt == Spec => []OneIdPerNode
  <1>1. PromptInv => OneIdPerNode
    <2> SUFFICES ASSUME PromptInv, Prompt
                 PROVE  /\ \A i, j \in Ids : registration[i].registered /\ registration[j].registered
                                             /\ terminators[i] = terminators[j] => i = j
                        /\ \A n \in Nodes : e2NodeId[n] # 0 => registration[e2NodeId[n]].registered
      BY DEF OneIdPerNode, IsNodeRegistered
    <2>1. HeldIsRegistered /\ RegisteredIsUsed /\ OneMessage
      BY PromptFacts DEF PromptParts
    <2>2. ASSUME NEW i \in Ids, NEW j \in Ids, registration[i].registered,
                 registration[j].registered, terminators[i] = terminators[j]
          PROVE  i = j
      <3>1. Used(i) /\ Used(j) /\ i # 0 /\ j # 0
        BY <2>1, <2>2, PromptFacts DEF RegisteredIsUsed
      <3> QED
        BY <2>1, <2>2, <3>1 DEF Used, OneMessage
    <2> QED
      BY <2>1, <2>2 DEF HeldIsRegistered
  <1> QED
    BY <1>1, InitPrompt, PromptStep, PTL DEF Spec

(* When refreshes are prompt, a node keeps the id it was given: neither    *)
(* CheckForInactivity nor a late response ever changes it.                 *)
THEOREM IdsStayWhenPrompt == Spec => StableId
  <1>1. PromptInv /\ [Next]_vars =>
           [Prompt => \A n \in Nodes : e2NodeId[n] # 0 => e2NodeId'[n] = e2NodeId[n]]_vars
    BY PromptPartsStep
  <1> QED
    BY <1>1, InitPrompt, PromptStep, PTL DEF Spec, StableId
=============================================================================
