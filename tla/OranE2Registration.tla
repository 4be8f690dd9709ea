-------------------------- MODULE OranE2Registration --------------------------
(***************************************************************************)
(* Registration of E2 nodes with the Near-RT RIC: the node terminators     *)
(* (oran-e2-node-terminator.cc), the RIC's terminator                      *)
(* (oran-near-rt-ric-e2terminator.cc), the registration tables of the      *)
(* repository (oran-data-repository-sqlite.cc), and the RIC's inactivity   *)
(* check (oran-near-rt-ric.cc).                                            *)
(*                                                                         *)
(* A node asks for an id by registering with id 0 and refreshes its        *)
(* registration periodically; the RIC deregisters ids that were not        *)
(* refreshed for longer than a threshold.  Each message takes its own      *)
(* random delay, so messages overtake each other.  Time is in ticks, as in *)
(* module OranRicCycle; the events of a tick happen in any order.          *)
(*                                                                         *)
(* noderegistration is a log whose rows are added in time order.  All      *)
(* queries look at the latest rows of an id, so a log is kept as the last  *)
(* row, its time, and whether an earlier row of the same time disagrees    *)
(* with it.  What the handlers do to the reporters and to the sending of   *)
(* reports changes no state of this module.                                *)
(***************************************************************************)
EXTENDS Integers, FiniteSets

CONSTANTS
    Nodes,      \* the node terminators
    NoNode,     \* the null terminator pointer
    UeNodes,    \* those of LTE UEs
    EnbNodes,   \* those of LTE eNBs; all others are wired nodes
    Configs,    \* attribute values and calls of the scenarios
    MaxId,      \* bound: the scenario ends after this many ids
    MaxRounds,  \* bound: activations of one terminator, and starts of the RIC
    Horizon     \* bound: the tick at which the simulation stops

Operations == {"DeactivateNode", "StopRic", "QueryLms", "Command"}

Config == [ nodes          : SUBSET Nodes,       \* the terminators that are used
            regIntervals   : SUBSET (Nat \ {0}), \* values of RegistrationIntervalRv
            delays         : SUBSET Nat,         \* values of the TransmissionDelayRvs
            threshold      : Nat,                \* E2NodeInactivityThreshold
            checkIntervals : SUBSET (Nat \ {0}), \* values of E2NodeInactivityIntervalRv
            persistent     : BOOLEAN,            \* the database outlives its closing
            ops            : SUBSET Operations ]

ASSUME NodeAssumption ==
    /\ NoNode \notin Nodes
    /\ UeNodes \subseteq Nodes
    /\ EnbNodes \subseteq Nodes
    /\ UeNodes \cap EnbNodes = {}

ASSUME ConfigAssumption ==
    /\ Configs \subseteq Config
    /\ \A c \in Configs : c.regIntervals # {} /\ c.delays # {} /\ c.checkIntervals # {}
    /\ MaxId \in Nat /\ MaxRounds \in Nat /\ Horizon \in Nat

VARIABLES
    conf,         \* the configuration of this scenario
    now,          \* Simulator::Now
    ricActive,    \* m_active of the RIC, its E2 terminator and its repository
    checkEvent,   \* when m_e2NodeInactivityEvent is due
    nodeActive,   \* OranE2NodeTerminator::m_active
    e2NodeId,     \* OranE2NodeTerminator::m_e2NodeId
    regEvent,     \* when OranE2NodeTerminator::m_registrationEvent is due
    msgs,         \* the messages in flight
    lastId,       \* table node: the last AUTOINCREMENT id
    registration, \* table noderegistration
    lteRows,      \* tables lteue and lteenb
    terminators,  \* OranNearRtRicE2Terminator::m_nodeTerminators
    targets,      \* targets of commands computed by the LMs, not yet sent
    requests,     \* history: requests sent by each node (numbers its messages)
    rounds,       \* history: activations of each node
    starts,       \* history: starts of the RIC
    crashed       \* a call through a null terminator pointer

nodeVars == <<nodeActive, e2NodeId, regEvent, requests, rounds>>
ricVars == <<ricActive, checkEvent, starts>>
dataVars == <<lastId, registration, lteRows>>
vars == <<conf, now, ricVars, nodeActive, e2NodeId, regEvent, msgs,
          lastId, registration, lteRows, terminators, targets, requests, rounds,
          starts, crashed>>

-----------------------------------------------------------------------------
Never == -1
Ids == 0..MaxId
NoRow == [registered |-> FALSE, at |-> 0, tied |-> FALSE]

RegRequest    == [kind : {"RegRequest"}, node : Nodes, id : Ids, due : Nat, no : Nat]
DeregRequest  == [kind : {"DeregRequest"}, node : Nodes, id : Ids, due : Nat, no : Nat]
RegResponse   == [kind : {"RegResponse"}, node : Nodes, id : Ids, due : Nat, no : Nat]
DeregResponse == [kind : {"DeregResponse"}, node : Nodes \cup {NoNode}, id : Ids,
                  due : Nat, no : Nat]
Message == RegRequest \cup DeregRequest \cup RegResponse \cup DeregResponse

Msg(kind, node, id, due, no) ==
    [kind |-> kind, node |-> node, id |-> id, due |-> due, no |-> no]

TypeOK ==
    /\ conf \in Configs
    /\ now \in Nat
    /\ ricActive \in BOOLEAN
    /\ checkEvent \in Nat \cup {Never}
    /\ nodeActive \in [Nodes -> BOOLEAN]
    /\ e2NodeId \in [Nodes -> Ids]
    /\ regEvent \in [Nodes -> Nat \cup {Never}]
    /\ msgs \in SUBSET Message
    /\ lastId \in Ids
    /\ registration \in [Ids -> [registered : BOOLEAN, at : Nat, tied : BOOLEAN]]
    /\ lteRows \in SUBSET (Ids \X (UeNodes \cup EnbNodes))
    /\ terminators \in [Ids -> Nodes \cup {NoNode}]
    /\ targets \in SUBSET Ids
    /\ requests \in [Nodes -> Nat]
    /\ rounds \in [Nodes -> Nat]
    /\ starts \in Nat
    /\ crashed \in BOOLEAN

Init ==
    /\ conf \in Configs
    /\ now = 0
    /\ ricActive = FALSE
    /\ checkEvent = Never
    /\ nodeActive = [n \in Nodes |-> FALSE]
    /\ e2NodeId = [n \in Nodes |-> 0]
    /\ regEvent = [n \in Nodes |-> Never]
    /\ msgs = {}
    /\ lastId = 0
    /\ registration = [i \in Ids |-> NoRow]
    /\ lteRows = {}
    /\ terminators = [i \in Ids |-> NoNode]
    /\ targets = {}
    /\ requests = [n \in Nodes |-> 0]
    /\ rounds = [n \in Nodes |-> 0]
    /\ starts = 0
    /\ crashed = FALSE

-----------------------------------------------------------------------------
(***************************************************************************)
(* The repository.                                                         *)
(***************************************************************************)

\* INSERT INTO noderegistration (id, value, Now)
LogRegistration(log, id, value) ==
    [log EXCEPT ![id] =
        [registered |-> value, at |-> now,
         tied |-> @.at = now /\ @ # NoRow /\ (@.tied \/ @.registered # value)]]

\* CHECK_NODE_REGISTERED: ORDER BY simulationtime DESC, entryid DESC
IsNodeRegistered(id) == registration[id].registered

\* HAVING registered = 1 with MAX(simulationtime): of several rows of the
\* latest time SQLite takes any.
MayBeListed(id) == registration[id].registered \/ registration[id].tied
MustBeListed(id) == registration[id].registered /\ ~registration[id].tied

\* INSERT OR REPLACE INTO lteue / lteenb: nodeid is the primary key of both,
\* and the IMSI is unique.
InsertLteRow(id, n) ==
    {r \in lteRows : r[1] # id /\ ~(r[2] = n /\ n \in UeNodes)} \cup {<<id, n>>}

\* Fault: wired nodes get a row, too.
LteRowsAfter_AnyType(requested, assigned, n) == InsertLteRow(requested, n)

\* RegisterNodeLteUe and RegisterNodeLteEnb bind the requested id, which is 0
\* in a first request, not the id that RegisterNode returned.
LteRowsAfter(requested, assigned, n) ==
    IF n \in UeNodes \cup EnbNodes THEN InsertLteRow(requested, n) ELSE lteRows

\* GetLteUeE2NodeIds, GetLteEnbE2NodeIds
Listed(id) == MayBeListed(id) /\ \E n \in Nodes : <<id, n>> \in lteRows

-----------------------------------------------------------------------------
(***************************************************************************)
(* The node terminator.                                                    *)
(***************************************************************************)
Running == ~crashed /\ lastId < MaxId

\* Fault: a refresh does not carry the id the node has.
Register_WithoutId(n) ==
    \E d \in conf.delays, r \in conf.regIntervals :
        /\ msgs' = msgs \cup {Msg("RegRequest", n, 0, now + d, requests[n] + 1)}
        /\ regEvent' = [regEvent EXCEPT ![n] = now + r]
        /\ requests' = [requests EXCEPT ![n] = @ + 1]

\* Register: send a request with the current id and schedule the next one.
Register(n) ==
    \E d \in conf.delays, r \in conf.regIntervals :
        /\ msgs' = msgs \cup {Msg("RegRequest", n, e2NodeId[n], now + d, requests[n] + 1)}
        /\ regEvent' = [regEvent EXCEPT ![n] = now + r]
        /\ requests' = [requests EXCEPT ![n] = @ + 1]

\* Activate
ActivateNode(n) ==
    /\ Running
    /\ n \in conf.nodes
    /\ ~nodeActive[n]
    /\ rounds[n] < MaxRounds
    /\ rounds' = [rounds EXCEPT ![n] = @ + 1]
    /\ nodeActive' = [nodeActive EXCEPT ![n] = TRUE]
    /\ Register(n)
    /\ UNCHANGED <<conf, now, ricVars, e2NodeId, dataVars, terminators,
                   targets, crashed>>

\* m_registrationEvent fires.
Refresh(n) ==
    /\ Running
    /\ regEvent[n] = now
    /\ Register(n)
    /\ UNCHANGED <<conf, now, ricVars, nodeActive, e2NodeId, dataVars,
                   terminators, targets, rounds, crashed>>

\* Deactivate, with Deregister: the id is kept until the response comes.
DeactivateNode(n) ==
    /\ Running
    /\ "DeactivateNode" \in conf.ops
    /\ nodeActive[n]
    /\ nodeActive' = [nodeActive EXCEPT ![n] = FALSE]
    /\ regEvent' = [regEvent EXCEPT ![n] = Never]
    /\ requests' = [requests EXCEPT ![n] = @ + 1]
    /\ \E d \in conf.delays :
          msgs' = msgs \cup {Msg("DeregRequest", n, e2NodeId[n], now + d, requests[n] + 1)}
    /\ UNCHANGED <<conf, now, ricVars, e2NodeId, dataVars, terminators,
                   targets, rounds, crashed>>

Due(m, kind) == m \in msgs /\ m.kind = kind /\ m.due = now

\* Fault: an inactive terminator takes the id as well.
IdAfterRegResponse_Inactive(m) == [e2NodeId EXCEPT ![m.node] = m.id]

IdAfterRegResponse(m) ==
    IF nodeActive[m.node] THEN [e2NodeId EXCEPT ![m.node] = m.id] ELSE e2NodeId

ReceiveRegistrationResponse(m) ==
    /\ Running
    /\ Due(m, "RegResponse")
    /\ msgs' = msgs \ {m}
    /\ e2NodeId' = IdAfterRegResponse(m)
    /\ UNCHANGED <<conf, now, ricVars, nodeActive, regEvent, requests,
                   rounds, dataVars, terminators, targets, crashed>>

\* The id in the response is not looked at.  The RIC sends the response also
\* when it knows no terminator for the id.
ReceiveDeregistrationResponse(m) ==
    /\ Running
    /\ Due(m, "DeregResponse")
    /\ msgs' = msgs \ {m}
    /\ \/ /\ m.node # NoNode
          /\ e2NodeId' = [e2NodeId EXCEPT ![m.node] = 0]
          /\ UNCHANGED crashed
       \/ /\ m.node = NoNode
          /\ crashed' = TRUE
          /\ UNCHANGED e2NodeId
    /\ UNCHANGED <<conf, now, ricVars, nodeActive, regEvent, requests,
                   rounds, dataVars, terminators, targets>>

-----------------------------------------------------------------------------
(***************************************************************************)
(* The RIC's terminator.                                                   *)
(***************************************************************************)

\* RegisterNode: id 0 asks for a new id, any other id is taken as it is.
Assigned(m) == IF m.id = 0 THEN lastId + 1 ELSE m.id

ReceiveRegistrationRequest(m) ==
    /\ Running
    /\ Due(m, "RegRequest")
    /\ \/ /\ ricActive
          /\ LET id == Assigned(m) IN
                /\ lastId' = IF id > lastId THEN id ELSE lastId
                /\ registration' = LogRegistration(registration, id, TRUE)
                /\ lteRows' = LteRowsAfter(m.id, id, m.node)
                /\ terminators' = [terminators EXCEPT ![id] = m.node]
                /\ \E d \in conf.delays :
                      msgs' = (msgs \ {m}) \cup
                                 {Msg("RegResponse", m.node, id, now + d, m.no)}
       \/ /\ ~ricActive
          /\ msgs' = msgs \ {m}
          /\ UNCHANGED <<dataVars, terminators>>
    /\ UNCHANGED <<conf, now, ricVars, nodeVars, targets, crashed>>

ReceiveDeregistrationRequest(m) ==
    /\ Running
    /\ Due(m, "DeregRequest")
    /\ \/ /\ ricActive
          /\ registration' = LogRegistration(registration, m.id, FALSE)
          /\ \E d \in conf.delays :
                msgs' = (msgs \ {m}) \cup
                           {Msg("DeregResponse", terminators[m.id], m.id, now + d, m.no)}
       \/ /\ ~ricActive
          /\ msgs' = msgs \ {m}
          /\ UNCHANGED registration
    /\ UNCHANGED <<conf, now, ricVars, nodeVars, lastId, lteRows,
                   terminators, targets, crashed>>

\* An LM, run by the RIC, computes a command for a listed node.
ComputeCommand(id) ==
    /\ Running
    /\ "Command" \in conf.ops
    /\ ricActive
    /\ Listed(id)
    /\ targets' = targets \cup {id}
    /\ UNCHANGED <<conf, now, ricVars, nodeVars, msgs, dataVars,
                   terminators, crashed>>

\* SendCommand: the command goes to the terminator the map names.
SendCommand(id) ==
    /\ Running
    /\ ricActive
    /\ id \in targets
    /\ targets' = targets \ {id}
    /\ UNCHANGED <<conf, now, ricVars, nodeVars, msgs, dataVars,
                   terminators, crashed>>

-----------------------------------------------------------------------------
(***************************************************************************)
(* The RIC.                                                                *)
(***************************************************************************)

\* Fault: the bound itself already counts as inactivity.
Expired_AtThreshold(id) == now - registration[id].at >= conf.threshold

Expired(id) == now - registration[id].at > conf.threshold

\* Fault: the next check is not scheduled.
NextCheck_Missing == {Never}

\* The times at which the next check may be scheduled.
NextCheck == {now + c : c \in conf.checkIntervals}

\* CheckForInactivity of an active RIC: the expired ids among those that
\* GetLastRegistrationRequests returns are deregistered; these responses
\* answer no request and have number 0.
CheckForInactivity ==
    \E S \in SUBSET {i \in Ids : Expired(i) /\ MayBeListed(i)} :
        /\ \A i \in Ids : Expired(i) /\ MustBeListed(i) => i \in S
        /\ registration' = [i \in Ids |->
              IF i \in S THEN LogRegistration(registration, i, FALSE)[i]
                         ELSE registration[i]]
        /\ \E d \in [S -> conf.delays] :
              msgs' = msgs \cup
                 {Msg("DeregResponse", terminators[i], i, now + d[i], 0) : i \in S}
        /\ checkEvent' \in NextCheck
        /\ UNCHANGED <<conf, now, ricActive, starts, nodeVars, lastId, lteRows,
                       terminators, targets, crashed>>

\* m_e2NodeInactivityEvent fires; Stop cancels it.
InactivityEvent ==
    /\ Running
    /\ ricActive
    /\ checkEvent = now
    /\ CheckForInactivity

\* QueryLms, which a report may trigger at any time, checks as well.
QueryLms ==
    /\ Running
    /\ "QueryLms" \in conf.ops
    /\ ricActive
    /\ CheckForInactivity

StartRic ==
    /\ Running
    /\ ~ricActive
    /\ starts < MaxRounds
    /\ starts' = starts + 1
    /\ ricActive' = TRUE
    /\ checkEvent' \in NextCheck
    /\ UNCHANGED <<conf, now, nodeVars, msgs, dataVars, terminators, targets, crashed>>

\* Fault: stopping the RIC loses the tables of a database on disk, too.
Stored_Lost == <<0, [i \in Ids |-> NoRow], {}>>

\* Closing the database: an in-memory or temporary one starts empty again.
Stored ==
    IF conf.persistent THEN <<lastId, registration, lteRows>>
                       ELSE <<0, [i \in Ids |-> NoRow], {}>>

StopRic ==
    /\ Running
    /\ "StopRic" \in conf.ops
    /\ ricActive
    /\ ricActive' = FALSE
    /\ checkEvent' = Never
    /\ lastId' = Stored[1] /\ registration' = Stored[2] /\ lteRows' = Stored[3]
    /\ UNCHANGED <<conf, now, starts, nodeVars, msgs, terminators, targets, crashed>>

-----------------------------------------------------------------------------
Tick ==
    /\ Running
    /\ now < Horizon
    /\ checkEvent # now
    /\ \A n \in Nodes : regEvent[n] # now
    /\ \A m \in msgs : m.due # now
    /\ now' = now + 1
    /\ UNCHANGED <<conf, ricVars, nodeVars, msgs, dataVars, terminators,
                   targets, crashed>>

\* The program crashed, the ids of the scenario are used up, or the
\* simulation has reached its stop time.
Ended ==
    /\ ~Running \/ now = Horizon
    /\ UNCHANGED vars

Next ==
    \/ \E n \in Nodes : ActivateNode(n)
    \/ \E n \in Nodes : Refresh(n)
    \/ \E n \in Nodes : DeactivateNode(n)
    \/ \E m \in msgs : ReceiveRegistrationRequest(m)
    \/ \E m \in msgs : ReceiveDeregistrationRequest(m)
    \/ \E m \in msgs : ReceiveRegistrationResponse(m)
    \/ \E m \in msgs : ReceiveDeregistrationResponse(m)
    \/ \E i \in Ids : ComputeCommand(i)
    \/ \E i \in Ids : SendCommand(i)
    \/ InactivityEvent
    \/ QueryLms
    \/ StartRic
    \/ StopRic
    \/ Tick
    \/ Ended

Spec == Init /\ [][Next]_vars

-----------------------------------------------------------------------------
(***************************************************************************)
(* Properties.                                                             *)
(***************************************************************************)

(* With a database that outlives its closing, an id never changes hands:   *)
(* whatever is lost, overtaken, deregistered or restarted, an id a node    *)
(* holds, or that is in a request of its or a response to it, is the id of *)
(* this node's terminator in m_nodeTerminators, and so no two nodes ever   *)
(* have the same id and no command or deregistration goes to a wrong node. *)
IdsOwned ==
    conf.persistent =>
        /\ \A n \in Nodes : e2NodeId[n] # 0 => terminators[e2NodeId[n]] = n
        /\ \A m \in msgs : m.id # 0 => terminators[m.id] = m.node
        /\ \A r \in lteRows : r[1] # 0 => terminators[r[1]] = r[2]

(* A node that is not active, and to or from which no message is under way,*)
(* has no id left - also when its last refresh, deregistration request and *)
(* their responses overtake each other, and when it was activated again in *)
(* between - provided the RIC was not stopped meanwhile.                   *)
InactiveForgetsId ==
    "StopRic" \notin conf.ops /\ ~crashed
    => \A n \in Nodes :
          ~nodeActive[n] /\ (\A m \in msgs : m.node # n) => e2NodeId[n] = 0

\* No id can be missed: a node has its id before it registers again, and
\* refreshes arrive within the threshold.
Prompt ==
    /\ conf.ops \cap {"DeactivateNode", "StopRic"} = {}
    /\ \A d1, d2 \in conf.delays, r \in conf.regIntervals : d1 + d2 < r
    /\ \A d \in conf.delays, r \in conf.regIntervals : r + d <= conf.threshold

(* When refreshes are prompt - at the threshold exactly, even - a node's   *)
(* id, once assigned, is its id for good: neither the inactivity check nor *)
(* a message that overtakes another one ever takes it away.                *)
StableId ==
    [][Prompt => \A n \in Nodes : e2NodeId[n] # 0 => e2NodeId'[n] = e2NodeId[n]]_vars

(* When refreshes are prompt, the RIC has one registered id for each       *)
(* node that has registered, and it is the one the node uses.              *)
OneIdPerNode ==
    Prompt =>
        /\ \A i, j \in Ids : IsNodeRegistered(i) /\ IsNodeRegistered(j)
                               /\ terminators[i] = terminators[j] => i = j
        /\ \A n \in Nodes : e2NodeId[n] # 0 => IsNodeRegistered(e2NodeId[n])

(* A RIC that is not stopped keeps no id registered much longer than the   *)
(* threshold: after its last refresh, an id is registered for at most the  *)
(* threshold and one check interval, although every query restarts the     *)
(* interval.  (Except when a row of the same time says otherwise, where    *)
(* the query is ambiguous.)                                                *)
InactivityBound ==
    "StopRic" \notin conf.ops
    => \A i \in Ids : MustBeListed(i)
         => \E c \in conf.checkIntervals :
               now - registration[i].at <= conf.threshold + c

(* oran-data-repository.h:122, "If the UE is already registered, return    *)
(* the currently assigned E2 Node ID": no UE has two registered ids.       *)
OneIdPerUe ==
    \A i, j \in Ids : /\ IsNodeRegistered(i) /\ IsNodeRegistered(j)
                      /\ terminators[i] = terminators[j]
                      /\ terminators[i] \in UeNodes
                      => i = j
=============================================================================
