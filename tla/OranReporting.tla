---------------------------- MODULE OranReporting ----------------------------
(***************************************************************************)
(* How an E2 node produces reports and gets them to the RIC: report        *)
(* triggers (oran-report-trigger.cc, -periodic.cc, -location-change.cc,    *)
(* -lte-ue-handover.cc) make reporters (oran-reporter.cc) generate         *)
(* reports, the node's E2 terminator (oran-e2-node-terminator.cc) keeps    *)
(* and sends them, and the RIC's terminator saves those of registered      *)
(* nodes (oran-near-rt-ric-e2terminator.cc).                               *)
(*                                                                         *)
(* All intervals and delays are random variables, so there is no clock: a  *)
(* pending event or a message comes at any time and in any order.  The     *)
(* simulation script may activate and deactivate the terminator and its    *)
(* reporters one by one.  Registration is here only as far as it drives    *)
(* reporting; module OranE2Registration has the rest.                      *)
(***************************************************************************)
EXTENDS Integers, Sequences, FiniteSets, Bags

CONSTANTS
    Reporters,   \* the reporters of the node, numbered as they were added
    Configs      \* the scenarios

Config == [ periodic : SUBSET Reporters,  \* they have a periodic trigger, the others a trace sink
            initial  : SUBSET Reporters,  \* their trigger has InitialReport set
            loss     : SUBSET Reporters,  \* they are OranReporterAppLoss: at most one
            maxOps      : Nat,    \* bound: calls of the script
            maxReports  : Nat,    \* bound: reports after which no trigger fires
            maxChecks   : Nat,    \* bound: inactivity deregistrations
            maxMsgs     : Nat \ {0},  \* bound: registrations under way
            maxSends    : Nat \ {0},  \* bound: send events after which no registration is repeated
            maxPackets  : Nat ]   \* bound: packets of the application

ASSUME ReportingAssumption ==
    /\ Reporters = 1..Cardinality(Reporters) /\ IsFiniteSet(Reporters)
    /\ Configs \subseteq Config
    /\ \A c \in Configs : Cardinality(c.loss) <= 1

VARIABLES
    conf,         \* the configuration of this scenario
    active,       \* OranE2NodeTerminator::m_active
    e2NodeId,     \* m_e2NodeId, 0 when there is none
    reports,      \* m_reports
    registration, \* m_registrationEvent is pending
    sends,        \* pending DoSendReports events
    reporter,     \* the reporters with their triggers
    msgs,         \* bag of registration messages under way
    flying,       \* bag of reports under way
    registered,   \* ids the repository has as registered
    lastId,       \* the last id it assigned
    saved,        \* bag of the reports it saved
    packets,      \* m_tx and m_rx of OranReporterAppLoss, and packets under way
    fatal,        \* why the program was ended by a fatal error
    ops,          \* history: calls of the script
    checks,       \* history: inactivity deregistrations
    made,         \* history: number of reports generated
    gone,         \* history: bag of reports that were given up
    renewals,     \* history: ids the node got
    off,          \* history: reporters that have been deactivated; 0 is the terminator
    lost,         \* history: packets of the application that were lost
    reported      \* history: packets missing according to the reports

nodeVars == <<active, e2NodeId, reports, registration, sends>>
ricVars == <<registered, lastId, saved>>
lossVars == <<packets, lost, reported>>
history == <<ops, checks, made, gone, renewals, off>>
vars == <<conf, nodeVars, reporter, msgs, flying, ricVars, lossVars, fatal, history>>

-----------------------------------------------------------------------------
\* A timer: is the event that the EventId refers to pending, and how many
\* events are pending that an EventId referred to before?
Timer == [current : BOOLEAN, loose : Nat]
NoEvents == [current |-> FALSE, loose |-> 0]
Pending(t) == t.loose + (IF t.current THEN 1 ELSE 0)

\* Simulator::Schedule, whose result replaces what the EventId referred to.
Schedule(t) == [current |-> TRUE, loose |-> Pending(t)]

\* EventId::Cancel
Cancel(t) == [t EXCEPT !.current = FALSE]

\* Fault: events that were cancelled take place nonetheless.
Fired_Cancelled(t) == {[t EXCEPT !.current = FALSE], [t EXCEPT !.loose = @ - 1]}

\* A pending event takes place: the current one or a loose one.
Fired(t) ==
    {u \in {[t EXCEPT !.current = FALSE], [t EXCEPT !.loose = @ - 1]} :
        Pending(u) = Pending(t) - 1 /\ u.loose >= 0}

\* A reporter: m_active, which its trigger shares, whether it has a trigger
\* (m_trigger), the events of a periodic trigger, and the number of trace
\* sinks of another one.
Reporter == [active : BOOLEAN, trigger : BOOLEAN, events : Timer, sinks : Nat]

Report == [from : Reporters, id : Nat, no : Nat \ {0}]
Message == [kind : {"RegRequest", "RegResponse", "DeregRequest", "DeregResponse"}, id : Nat]

BagOf(S, B) == IsABag(B) /\ BagToSet(B) \subseteq S

TypeOK ==
    /\ conf \in Configs
    /\ active \in BOOLEAN
    /\ e2NodeId \in Nat
    /\ reports \in Seq(Report)
    /\ registration \in BOOLEAN
    /\ sends \in Timer
    /\ reporter \in [Reporters -> Reporter]
    /\ BagOf(Message, msgs)
    /\ BagOf(Report, flying) /\ BagOf(Report, saved) /\ BagOf(Report, gone)
    /\ registered \in SUBSET Nat
    /\ lastId \in Nat
    /\ packets \in [tx : Nat, rx : Nat, air : Nat]
    /\ fatal \in {"no", "NULL reporter", "NULL trigger", "NULL terminator"}
    /\ off \in SUBSET (Reporters \cup {0})
    /\ {ops, checks, made, renewals, lost, reported} \subseteq Nat

Init ==
    /\ conf \in Configs
    /\ active = FALSE
    /\ e2NodeId = 0
    /\ reports = <<>>
    /\ registration = FALSE
    /\ sends = NoEvents
    /\ reporter = [r \in Reporters |-> [active |-> FALSE, trigger |-> TRUE,
                                        events |-> NoEvents, sinks |-> 0]]
    /\ msgs = EmptyBag
    /\ flying = EmptyBag
    /\ registered = {}
    /\ lastId = 0
    /\ saved = EmptyBag
    /\ packets = [tx |-> 0, rx |-> 0, air |-> 0]
    /\ fatal = "no"
    /\ ops = 0 /\ checks = 0 /\ made = 0 /\ renewals = 0 /\ lost = 0 /\ reported = 0
    /\ gone = EmptyBag
    /\ off = {}

Running == fatal = "no"

\* One more call of the script.
Call == Running /\ ops < conf.maxOps /\ ops' = ops + 1

One(x) == SetToBag({x})

\* What is deactivated in this step.
SwitchOff ==
    off' = off \cup {r \in Reporters : reporter[r].active /\ ~reporter'[r].active}
               \cup {n \in {0} : active /\ ~active'}

-----------------------------------------------------------------------------
(***************************************************************************)
(* Reporters and triggers.                                                 *)
(***************************************************************************)

\* OranReportTriggerPeriodic::Activate and Deactivate
PeriodicActivate(events) == Schedule(events)
PeriodicDeactivate(events) == Cancel(events)

\* OranReportTriggerLocationChange::Activate and DisconnectSink, which removes
\* all sinks; OranReportTriggerLteUeHandover does the same with two traces.
ConnectSink(sinks) == sinks + 1
DisconnectSink(sinks) == 0

\* OranReportTrigger::Activate, of a trigger that is not active
ActivateTrigger(r, x) ==
    [active  |-> TRUE,
     trigger |-> TRUE,
     events  |-> IF r \in conf.periodic THEN PeriodicActivate(x.events) ELSE x.events,
     sinks   |-> IF r \in conf.periodic THEN x.sinks ELSE ConnectSink(x.sinks)]

\* Fault: the event of a periodic trigger is not cancelled.
DeactivateTrigger_NoCancel(r, x) ==
    [active |-> FALSE, trigger |-> FALSE, events |-> x.events, sinks |-> 0]

\* OranReportTrigger::Deactivate takes the trigger away from the reporter.
DeactivateTrigger(r, x) ==
    [active  |-> FALSE,
     trigger |-> FALSE,
     events  |-> IF r \in conf.periodic THEN PeriodicDeactivate(x.events) ELSE x.events,
     sinks   |-> IF r \in conf.periodic THEN x.sinks ELSE DisconnectSink(x.sinks)]

\* OranReporter::Deactivate
DeactivateReporter(r, x) == IF x.active THEN DeactivateTrigger(r, x) ELSE x

\* Fault: an active trigger is activated once more.
ActivateReporter_Again(r, x) == IF x.trigger THEN ActivateTrigger(r, x) ELSE x

\* OranReporter::Activate: of an active reporter it is Deactivate.
ActivateReporter(r, x) ==
    IF ~x.active /\ x.trigger THEN ActivateTrigger(r, x) ELSE DeactivateReporter(r, x)

\* Fault: only the packets sent are counted anew.
Reset_TxOnly(p) == [p EXCEPT !.tx = 0]

\* The counters start again with each report.
Reset(p) == [p EXCEPT !.tx = 0, !.rx = 0]

\* OranReporterAppLoss::GenerateReports: the packets reported as missing.
Missing(p) == IF p.rx <= p.tx /\ p.tx > 0 THEN p.tx - p.rx ELSE 0

\* PerformReport of the reporters of sequence s, one after the other, with the
\* id the node has by then: StoreReport ignores them if it is not active.
PerformReports(s, id) ==
    LET new == [i \in DOMAIN s |-> [from |-> s[i], id |-> id, no |-> made + i]]
        loss == {i \in DOMAIN s : s[i] \in conf.loss} # {}
    IN  /\ made' = made + Len(s)
        /\ reports' = IF active THEN reports \o new ELSE reports
        /\ gone' = IF active THEN gone ELSE gone (+) SetToBag({new[i] : i \in DOMAIN s})
        /\ reported' = IF loss THEN reported + Missing(packets) ELSE reported
        /\ packets' = IF loss THEN Reset(packets) ELSE packets
        /\ UNCHANGED lost

\* OranReportTriggerPeriodic::TriggerReport: the next event is scheduled, and
\* the reporter reports - if the trigger still has one.
TriggerEvent(r) ==
    /\ Running
    /\ made < conf.maxReports
    /\ \E t \in Fired(reporter[r].events) :
          \/ /\ reporter[r].active
             /\ reporter' = [reporter EXCEPT ![r].events = Schedule(t)]
             /\ PerformReports(<<r>>, e2NodeId)
             /\ UNCHANGED fatal
          \/ /\ ~reporter[r].active
             /\ reporter' = [reporter EXCEPT ![r].events = t]
             /\ fatal' = "NULL reporter"
             /\ UNCHANGED <<reports, lossVars, made, gone>>
    /\ UNCHANGED <<conf, active, e2NodeId, registration, sends, msgs, flying, ricVars,
                   ops, checks, renewals, off>>

\* CourseChangedSink, HandoverCompleteSink and ConnectionEstablishedSink
TraceSink(r) ==
    /\ Running
    /\ made < conf.maxReports
    /\ reporter[r].sinks > 0
    /\ PerformReports([i \in 1..reporter[r].sinks |-> r], e2NodeId)
    /\ UNCHANGED <<conf, active, e2NodeId, registration, sends, reporter, msgs, flying,
                   ricVars, fatal, ops, checks, renewals, off>>

\* The script activates or deactivates one reporter.
CallActivateReporter(r) ==
    /\ Call
    /\ reporter' = [reporter EXCEPT ![r] = ActivateReporter(r, @)]
    /\ UNCHANGED <<conf, nodeVars, msgs, flying, ricVars, lossVars, fatal, checks, made,
                   gone, renewals>>
    /\ SwitchOff

CallDeactivateReporter(r) ==
    /\ Call
    /\ reporter' = [reporter EXCEPT ![r] = DeactivateReporter(r, @)]
    /\ UNCHANGED <<conf, nodeVars, msgs, flying, ricVars, lossVars, fatal, checks, made,
                   gone, renewals>>
    /\ SwitchOff

\* The script sets the attribute Trigger of a reporter that has none, to the
\* trigger it had.
SetTrigger(r) ==
    /\ Call
    /\ ~reporter[r].trigger
    /\ reporter' = [reporter EXCEPT ![r].trigger = TRUE]
    /\ UNCHANGED <<conf, nodeVars, msgs, flying, ricVars, lossVars, fatal, checks, made,
                   gone, renewals, off>>

-----------------------------------------------------------------------------
(***************************************************************************)
(* OranReporterAppLoss: the application's packets.                         *)
(***************************************************************************)
AddTx ==
    /\ Running
    /\ conf.loss # {}
    /\ packets.tx + packets.rx + packets.air + lost + reported < conf.maxPackets
    /\ packets' = [packets EXCEPT !.tx = @ + 1, !.air = @ + 1]
    /\ UNCHANGED <<conf, nodeVars, reporter, msgs, flying, ricVars, lost, reported, fatal,
                   history>>

AddRx ==
    /\ Running
    /\ packets.air > 0
    /\ packets' = [packets EXCEPT !.rx = @ + 1, !.air = @ - 1]
    /\ UNCHANGED <<conf, nodeVars, reporter, msgs, flying, ricVars, lost, reported, fatal,
                   history>>

\* The network loses a packet.
LosePacket ==
    /\ Running
    /\ packets.air > 0
    /\ packets' = [packets EXCEPT !.air = @ - 1]
    /\ lost' = lost + 1
    /\ UNCHANGED <<conf, nodeVars, reporter, msgs, flying, ricVars, reported, fatal, history>>

-----------------------------------------------------------------------------
(***************************************************************************)
(* The node's terminator.                                                  *)
(***************************************************************************)

\* Activate, with Register: reports that were not sent are given up.
Activate ==
    /\ Call
    /\ ~active
    /\ active' = TRUE
    /\ reports' = <<>>
    /\ gone' = gone (+) SetToBag({reports[i] : i \in DOMAIN reports})
    /\ msgs' = msgs (+) One([kind |-> "RegRequest", id |-> e2NodeId])
    /\ registration' = TRUE
    /\ reporter' = [r \in Reporters |-> ActivateReporter(r, reporter[r])]
    /\ SwitchOff
    /\ UNCHANGED <<conf, e2NodeId, sends, flying, ricVars, lossVars, fatal, checks, made,
                   renewals>>

\* Deactivate, with Deregister: only the latest send event is cancelled.
Deactivate ==
    /\ Call
    /\ active
    /\ active' = FALSE
    /\ reporter' = [r \in Reporters |-> DeactivateReporter(r, reporter[r])]
    /\ SwitchOff
    /\ sends' = Cancel(sends)
    /\ registration' = FALSE
    /\ msgs' = msgs (+) One([kind |-> "DeregRequest", id |-> e2NodeId])
    /\ UNCHANGED <<conf, e2NodeId, reports, flying, ricVars, lossVars, fatal, checks, made,
                   gone, renewals>>

Registrations ==
    BagCardinality([m \in {x \in BagToSet(msgs) : x.kind \in {"RegRequest", "RegResponse"}} |->
                       msgs[m]])

\* The next periodic Register.
Register ==
    /\ Running
    /\ registration
    /\ Registrations < conf.maxMsgs
    /\ Registrations + Pending(sends) < conf.maxSends
    /\ msgs' = msgs (+) One([kind |-> "RegRequest", id |-> e2NodeId])
    /\ UNCHANGED <<conf, nodeVars, reporter, flying, ricVars, lossVars, fatal, history>>

Receive(m) == Running /\ BagIn(m, msgs)

\* The reporters whose trigger makes an initial report, in order.
Notified ==
    LET N == {r \in conf.initial : reporter[r].active} IN
    {s \in [1..Cardinality(N) -> N] : \A i, j \in DOMAIN s : i < j => s[i] < s[j]}

\* Fault: no report is sent.
AfterResponse_Nothing(t) == t

\* The trailing ScheduleNextSend of ReceiveRegistrationResponse.
AfterResponse(t) == Schedule(t)

\* ReceiveRegistrationResponse: a new id is notified to all reporters, which
\* must have a trigger; a periodic trigger that reports schedules its next
\* event as always.  A send event is scheduled in any case.
ReceiveRegistrationResponse(m) ==
    /\ Receive(m)
    /\ m.kind = "RegResponse"
    /\ msgs' = msgs (-) One(m)
    /\ \/ /\ active /\ e2NodeId # m.id
          /\ \A r \in Reporters : reporter[r].trigger
          /\ e2NodeId' = m.id
          /\ renewals' = renewals + 1
          /\ \E s \in Notified : PerformReports(s, m.id)
          /\ reporter' = [r \in Reporters |->
                IF reporter[r].active /\ r \in conf.initial \cap conf.periodic
                  THEN [reporter[r] EXCEPT !.events = Schedule(@)]
                  ELSE reporter[r]]
          /\ sends' = AfterResponse(sends)
          /\ UNCHANGED fatal
       \/ /\ active /\ e2NodeId # m.id
          /\ \E r \in Reporters : ~reporter[r].trigger
          /\ fatal' = "NULL trigger"
          /\ UNCHANGED <<e2NodeId, renewals, reporter, sends, reports, lossVars, made, gone>>
       \/ /\ active /\ e2NodeId = m.id
          /\ sends' = AfterResponse(sends)
          /\ UNCHANGED <<e2NodeId, renewals, reporter, reports, lossVars, made, gone, fatal>>
       \/ /\ ~active
          /\ UNCHANGED <<e2NodeId, renewals, reporter, sends, reports, lossVars, made, gone,
                         fatal>>
    /\ UNCHANGED <<conf, active, registration, flying, ricVars, ops, checks, off>>

\* ReceiveDeregistrationResponse; the RIC has no terminator for the id 0.
ReceiveDeregistrationResponse(m) ==
    /\ Receive(m)
    /\ m.kind = "DeregResponse"
    /\ msgs' = msgs (-) One(m)
    /\ \/ m.id # 0 /\ e2NodeId' = 0 /\ UNCHANGED fatal
       \/ m.id = 0 /\ fatal' = "NULL terminator" /\ UNCHANGED e2NodeId
    /\ UNCHANGED <<conf, active, reports, registration, sends, reporter, flying, ricVars,
                   lossVars, history>>

\* Fault: reports that are sent are kept.
Sent_Kept(q) == q

\* m_reports once its reports have been sent.
Sent(q) == <<>>

\* DoSendReports: all reports are sent, and the next event is scheduled.
DoSendReports ==
    /\ Running
    /\ \E t \in Fired(sends) :
          \/ /\ active
             /\ flying' = flying (+) SetToBag({reports[i] : i \in DOMAIN reports})
             /\ reports' = Sent(reports)
             /\ sends' = Schedule(t)
          \/ /\ ~active
             /\ sends' = t
             /\ UNCHANGED <<flying, reports>>
    /\ UNCHANGED <<conf, active, e2NodeId, registration, reporter, msgs, ricVars, lossVars,
                   fatal, history>>

-----------------------------------------------------------------------------
(***************************************************************************)
(* The RIC's terminator and the repository.                                *)
(***************************************************************************)
ReceiveRegistrationRequest(m) ==
    /\ Receive(m)
    /\ m.kind = "RegRequest"
    /\ LET id == IF m.id = 0 THEN lastId + 1 ELSE m.id IN
          /\ lastId' = IF m.id = 0 THEN id ELSE lastId
          /\ registered' = registered \cup {id}
          /\ msgs' = (msgs (-) One(m)) (+) One([kind |-> "RegResponse", id |-> id])
    /\ UNCHANGED <<conf, nodeVars, reporter, flying, saved, lossVars, fatal, history>>

ReceiveDeregistrationRequest(m) ==
    /\ Receive(m)
    /\ m.kind = "DeregRequest"
    /\ registered' = registered \ {m.id}
    /\ msgs' = (msgs (-) One(m)) (+) One([kind |-> "DeregResponse", id |-> m.id])
    /\ UNCHANGED <<conf, nodeVars, reporter, flying, lastId, saved, lossVars, fatal, history>>

\* CheckForInactivity deregisters an id whose registrations came too late.
CheckForInactivity(id) ==
    /\ Running
    /\ checks < conf.maxChecks
    /\ id \in registered
    /\ checks' = checks + 1
    /\ registered' = registered \ {id}
    /\ msgs' = msgs (+) One([kind |-> "DeregResponse", id |-> id])
    /\ UNCHANGED <<conf, nodeVars, reporter, flying, lastId, saved, lossVars, fatal, ops,
                   made, gone, renewals, off>>

\* SavePosition, SaveLteUeCellInfo, SaveAppLoss and SaveLteCellLoad ignore a
\* report with an id that is not registered.
Saves(x) == x.id \in registered

ReceiveReport(x) ==
    /\ Running
    /\ BagIn(x, flying)
    /\ flying' = flying (-) One(x)
    /\ \/ Saves(x) /\ saved' = saved (+) One(x) /\ UNCHANGED gone
       \/ ~Saves(x) /\ gone' = gone (+) One(x) /\ UNCHANGED saved
    /\ UNCHANGED <<conf, nodeVars, reporter, msgs, registered, lastId, lossVars, fatal, ops,
                   checks, made, renewals, off>>

-----------------------------------------------------------------------------
\* The program has ended by a fatal error, or the script is done with a node
\* that is off.
Ended ==
    /\ \/ ~Running
       \/ ~active /\ msgs = EmptyBag /\ flying = EmptyBag /\ Pending(sends) = 0
    /\ UNCHANGED vars

Next ==
    \/ \E r \in Reporters : TriggerEvent(r)
    \/ \E r \in Reporters : TraceSink(r)
    \/ \E r \in Reporters : CallActivateReporter(r)
    \/ \E r \in Reporters : CallDeactivateReporter(r)
    \/ \E r \in Reporters : SetTrigger(r)
    \/ AddTx
    \/ AddRx
    \/ LosePacket
    \/ Activate
    \/ Deactivate
    \/ Register
    \/ \E m \in BagToSet(msgs) : ReceiveRegistrationResponse(m)
    \/ \E m \in BagToSet(msgs) : ReceiveDeregistrationResponse(m)
    \/ DoSendReports
    \/ \E m \in BagToSet(msgs) : ReceiveRegistrationRequest(m)
    \/ \E m \in BagToSet(msgs) : ReceiveDeregistrationRequest(m)
    \/ \E id \in registered : CheckForInactivity(id)
    \/ \E x \in BagToSet(flying) : ReceiveReport(x)
    \/ Ended

Spec == Init /\ [][Next]_vars

(***************************************************************************)
(* Scheduled events take place and messages arrive.                        *)
(***************************************************************************)
Fairness ==
    /\ WF_vars(Register)
    /\ WF_vars(DoSendReports)
    /\ WF_vars(\E m \in BagToSet(msgs) : ReceiveRegistrationRequest(m))
    /\ WF_vars(\E m \in BagToSet(msgs) : ReceiveRegistrationResponse(m))

FairSpec == Spec /\ Fairness

-----------------------------------------------------------------------------
(***************************************************************************)
(* Properties.                                                             *)
(***************************************************************************)

\* Every copy of a report, with the place it is in.
InBag(place, B) == UNION {{<<place, i, x>> : i \in 1..B[x]} : x \in BagToSet(B)}
Copies ==
    {<<"stored", i, reports[i]>> : i \in DOMAIN reports}
        \cup InBag("flying", flying) \cup InBag("saved", saved) \cup InBag("gone", gone)

(* A report is never duplicated and never vanishes: although any number of *)
(* send events may be pending, each report that was generated is exactly   *)
(* once in one place, waiting at the node, under way, saved, or given up   *)
(* (because the node was not active or its id not registered).             *)
EachReportOnce ==
    \A n \in 1..made : Cardinality({c \in Copies : c[3].no = n}) = 1

(* In whatever order the terminator and its reporters are activated,       *)
(* deactivated and notified of new ids, an active reporter always has      *)
(* something that triggers it, a trigger without InitialReport triggers it *)
(* at its own rate and not at all once it is off, and each id the node got *)
(* adds at most one more chain of events to a trigger with InitialReport.  *)
TriggerChains ==
    \A r \in Reporters :
        LET n == Pending(reporter[r].events) + reporter[r].sinks IN
        /\ reporter[r].active => n >= 1
        /\ r \notin conf.periodic \cap conf.initial => n <= (IF reporter[r].active THEN 1 ELSE 0)
        /\ n <= 1 + renewals

(* The reporting chain aborts the program only after a component was       *)
(* deactivated: for want of a reporter only in a periodic trigger with     *)
(* InitialReport, whose older events nobody cancels, for want of a trigger *)
(* after a reporter was, and for want of a terminator after the node was.  *)
AbortOnlyAfterDeactivation ==
    /\ fatal = "NULL reporter" => off \cap conf.periodic \cap conf.initial # {}
    /\ fatal = "NULL trigger" => off \cap Reporters # {}
    /\ fatal = "NULL terminator" => 0 \in off

(* OranReporterAppLoss never understates: a packet that is received in a   *)
(* later period than it was sent in may be reported as missing, but no     *)
(* lost packet is made up for by such a late one.                          *)
LossNotUnderstated ==
    lost + packets.air <= reported + packets.tx - packets.rx

(* Registrations are repeated, and every response starts a chain of send   *)
(* events: a report that waits at an active node is sent some time, even   *)
(* if the node was deactivated and activated again, which cancels its      *)
(* sends, or deregistered by the RIC.                                      *)
StoredIsSent ==
    (active /\ reports # <<>>) ~> (reports = <<>> \/ ~active \/ ~Running)
=============================================================================
