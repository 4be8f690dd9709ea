----------------------------- MODULE OranRicCycle -----------------------------
(***************************************************************************)
(* The Near-RT RIC's Logic Module query cycle: OranNearRtRic               *)
(* (contrib/oran/model/oran-near-rt-ric.cc) with the Logic Modules it runs *)
(* (OranLm, contrib/oran/model/oran-lm.cc).                                *)
(*                                                                         *)
(* The RIC periodically (or when a report triggers it) starts every LM,    *)
(* collects what the LMs return in m_lmQueryCommands, and hands the        *)
(* collection to the conflict mitigation module and the E2 terminator when *)
(* all LMs have returned or a maximum wait time is over.                   *)
(*                                                                         *)
(* Time is the simulator's, in ticks: an event fires at the tick it is due *)
(* and time advances only when nothing is due.  ns-3 runs the events of    *)
(* one tick in the order they were scheduled; here they run in any order.  *)
(* What an LM computes is abstracted to the identity of the run that       *)
(* computed it (a Result).  The inactivity check that QueryLms also makes  *)
(* changes no state of this module: module OranE2Registration has it.      *)
(***************************************************************************)
EXTENDS Integers, FiniteSets

CONSTANTS
    LMs,            \* the Logic Modules of the scenario
    InitDefaultLm,  \* the default LM the RIC is created with
    InitAdditional, \* the additional LMs the RIC is created with
    Configs,        \* attribute values and API calls of the scenarios
    Horizon,        \* bound: the tick at which the simulation stops
    MaxQueries      \* bound: no report triggers a query beyond this many

(***************************************************************************)
(* The public operations of the RIC that a scenario may call at any time.  *)
(* "Report" stands for a report that makes a query trigger ask for a       *)
(* query.                                                                  *)
(***************************************************************************)
Operations == {"Activate", "Deactivate", "Start", "Stop", "AddLogicModule",
               "RemoveLogicModule", "SetDefaultLogicModule", "Report"}

Config == [ maxWait    : Nat,                \* LmQueryMaxWaitTime, 0: no limit
            latePolicy : {"DROP", "SAVE"},   \* LmQueryLateCommandPolicy
            interval   : Nat \ {0},          \* LmQueryInterval
            delays     : SUBSET Nat,         \* values of the LMs' ProcessingDelayRv
            ops        : SUBSET Operations ]

ASSUME LmAssumption ==
    /\ InitDefaultLm \in LMs
    /\ InitAdditional \subseteq LMs
    /\ IsFiniteSet(LMs)

ASSUME ConfigAssumption ==
    /\ Configs \subseteq Config
    /\ \A c \in Configs : c.delays # {}
    /\ Horizon \in Nat
    /\ MaxQueries \in Nat

VARIABLES
    conf,            \* the configuration of this scenario
    now,             \* Simulator::Now
    active,          \* m_active of the RIC, its E2 terminator, repository and CMM
    defaultLm,       \* m_defaultLm
    additionalLms,   \* m_additionalLms
    lmActive,        \* OranLm::m_active
    lmRun,           \* OranLm::m_finishRunEvent, m_cycle and m_commands
    lmQueryCycle,    \* m_lmQueryCycle
    lmQueryEvent,    \* when m_lmQueryEvent is due
    waitEvents,      \* the pending ProcessLmQueryCommands events
    processEvent,    \* m_processLmQueryCommandsEvent: which of them it names
    lmQueryCommands, \* m_lmQueryCommands
    sent,            \* history: the results handed to the E2 terminator
    queries,         \* history: number of queries made
    detached,        \* history: LMs removed or replaced in the middle of a run
    aborted          \* the reason of an NS_ABORT, which ends the program

lmVars == <<lmActive, lmRun>>
setupVars == <<conf, defaultLm, additionalLms>>
vars == <<conf, now, active, defaultLm, additionalLms, lmActive, lmRun,
          lmQueryCycle, lmQueryEvent, waitEvents, processEvent,
          lmQueryCommands, sent, queries, detached, aborted>>

-----------------------------------------------------------------------------
Never == -1                       \* an EventId with no pending event
Registered == additionalLms \cup {defaultLm}

\* What one run of an LM computed.
Result == [lm : LMs, cycle : Nat, query : Nat]

\* m_lmQueryCommands is a map from (LM name, is it the default) to commands.
Keys == LMs \X BOOLEAN
\* Fault: the key forgets whether the LM is the default one.
KeyOf_NameOnly(l) == <<l>>
KeyOf(l) == <<l, l = defaultLm>>
EmptyMap == [k \in {} |-> {}]
Put(map, k, v) == [x \in DOMAIN map \cup {k} |-> IF x = k THEN v ELSE map[x]]
Collected(map) == UNION {map[k] : k \in DOMAIN map}

NoRun == [running |-> FALSE, due |-> 0, cycle |-> 0, query |-> 0]
IsRunning(l) == lmRun[l].running
ResultOf(l) == [lm |-> l, cycle |-> lmRun[l].cycle, query |-> lmRun[l].query]

\* m_processLmQueryCommandsEvent.IsRunning()
Waiting == \E e \in waitEvents : e.query = processEvent
\* "commands still have yet to be processed"
InTime == Waiting \/ conf.maxWait = 0

TypeOK ==
    /\ conf \in Configs
    /\ now \in Nat
    /\ active \in BOOLEAN
    /\ defaultLm \in LMs
    /\ additionalLms \in SUBSET LMs
    /\ lmActive \in [LMs -> BOOLEAN]
    /\ lmRun \in [LMs -> [running : BOOLEAN, due : Nat, cycle : Nat, query : Nat]]
    /\ lmQueryCycle \in Nat
    /\ lmQueryEvent \in Nat \cup {Never}
    /\ waitEvents \in SUBSET [due : Nat, query : Nat]
    /\ processEvent \in Nat
    /\ DOMAIN lmQueryCommands \in SUBSET Keys
    /\ lmQueryCommands \in [DOMAIN lmQueryCommands -> SUBSET Result]
    /\ sent \in SUBSET Result
    /\ queries \in Nat
    /\ detached \in SUBSET LMs
    /\ aborted \in {"no", "already started", "unexpected cycle"}

Init ==
    /\ conf \in Configs
    /\ now = 0
    /\ active = FALSE
    /\ defaultLm = InitDefaultLm
    /\ additionalLms = InitAdditional
    /\ lmActive = [l \in LMs |-> FALSE]
    /\ lmRun = [l \in LMs |-> NoRun]
    /\ lmQueryCycle = 0
    /\ lmQueryEvent = Never
    /\ waitEvents = {}
    /\ processEvent = 0
    /\ lmQueryCommands = EmptyMap
    /\ sent = {}
    /\ queries = 0
    /\ detached = {}
    /\ aborted = "no"

-----------------------------------------------------------------------------
(***************************************************************************)
(* Processing the collected commands.                                      *)
(***************************************************************************)

\* m_processLmQueryCommandsEvent.Cancel(): only the event the handle names.
CancelProcessEvent(events) == {e \in events : e.query # processEvent}

\* Fault: the collected commands are not cleared once they are processed.
ProcessLmQueryCommands_NoClear(map, events) ==
    /\ active
    /\ waitEvents' = CancelProcessEvent(events)
    /\ sent' = sent \cup Collected(map)
    /\ lmQueryCommands' = map

\* ProcessLmQueryCommands, with `map` collected and `events` pending.
ProcessLmQueryCommands(map, events) ==
    \/ /\ active
       /\ waitEvents' = CancelProcessEvent(events)
       /\ sent' = sent \cup Collected(map)
       /\ lmQueryCommands' = EmptyMap
    \/ /\ ~active
       /\ waitEvents' = events
       /\ lmQueryCommands' = map
       /\ UNCHANGED sent

\* The wait time of some query is over.
WaitExpires ==
    /\ aborted = "no"
    /\ \E e \in waitEvents :
          /\ e.due = now
          /\ ProcessLmQueryCommands(lmQueryCommands, waitEvents \ {e})
    /\ UNCHANGED <<setupVars, now, active, lmVars, lmQueryCycle, lmQueryEvent,
                   processEvent, queries, detached, aborted>>

-----------------------------------------------------------------------------
(***************************************************************************)
(* Running the LMs.                                                        *)
(***************************************************************************)

\* Fault: an entry that is already there is not emptied.
Filed_NoReset(l) ==
    LET key == KeyOf(l)
        old == IF key \in DOMAIN lmQueryCommands THEN lmQueryCommands[key] ELSE {}
    IN  IF InTime \/ conf.latePolicy = "SAVE"
          THEN Put(lmQueryCommands, key, old \cup {ResultOf(l)})
          ELSE lmQueryCommands

\* Fault: late commands are kept whatever the policy.
Filed_IgnorePolicy(l) == Put(lmQueryCommands, KeyOf(l), {ResultOf(l)})

\* OranLm::FinishRun's caller-visible part: the commands of LM l after
\* NotifyLmFinished has filed them.  An entry that is already there is
\* emptied first, whatever it held.
Filed(l) ==
    LET key   == KeyOf(l)
        reset == IF key \in DOMAIN lmQueryCommands
                   THEN Put(lmQueryCommands, key, {})
                   ELSE lmQueryCommands
        old   == IF key \in DOMAIN reset THEN reset[key] ELSE {}
    IN  IF InTime \/ conf.latePolicy = "SAVE"
          THEN Put(reset, key, old \cup {ResultOf(l)})
          ELSE reset

\* Fault: the default LM is not counted.
AllReturned_NoDefault(map) == Cardinality(DOMAIN map) = Cardinality(additionalLms)

AllReturned(map) == Cardinality(DOMAIN map) = Cardinality(additionalLms) + 1

NotifyLmFinished(l) ==
    \/ /\ lmRun[l].cycle # lmQueryCycle
       /\ aborted' = "unexpected cycle"
       /\ UNCHANGED <<lmQueryCommands, waitEvents, sent>>
    \/ /\ lmRun[l].cycle = lmQueryCycle
       /\ IF AllReturned(Filed(l)) /\ InTime
            THEN ProcessLmQueryCommands(Filed(l), waitEvents)
            ELSE /\ lmQueryCommands' = Filed(l)
                 /\ UNCHANGED <<waitEvents, sent>>
       /\ UNCHANGED aborted

\* The processing delay of LM l's run is over.
FinishRun(l) ==
    /\ aborted = "no"
    /\ IsRunning(l)
    /\ lmRun[l].due = now
    /\ lmRun' = [lmRun EXCEPT ![l] = NoRun]
    /\ \/ lmActive[l] /\ NotifyLmFinished(l)
       \/ ~lmActive[l] /\ UNCHANGED <<lmQueryCommands, waitEvents, sent, aborted>>
    /\ UNCHANGED <<setupVars, now, active, lmActive, lmQueryCycle, lmQueryEvent,
                   processEvent, queries, detached>>

\* Fault: an LM that is still running is left to finish its old run.
RunLms_NoCancel(delay) ==
    [l \in LMs |-> IF l \in Registered /\ lmActive[l] /\ ~IsRunning(l)
                     THEN [running |-> TRUE, due |-> now + delay[l],
                           cycle |-> now, query |-> queries + 1]
                     ELSE lmRun[l]]

\* OranLm::Run, after CancelRun of a run that has not finished: both are void
\* for an LM that is not active.
RunLms(delay) ==
    [l \in LMs |-> IF l \in Registered /\ lmActive[l]
                     THEN [running |-> TRUE, due |-> now + delay[l],
                           cycle |-> now, query |-> queries + 1]
                     ELSE lmRun[l]]

\* Fault: the pending wait event is cancelled when its handle is reused.
QueryLms_CancelWait ==
    /\ queries' = queries + 1
    /\ lmQueryCycle' = now
    /\ waitEvents' = CancelProcessEvent(waitEvents) \cup
          {[due |-> now + conf.maxWait, query |-> queries + 1]}
    /\ processEvent' = queries + 1
    /\ \E delay \in [LMs -> conf.delays] : lmRun' = RunLms(delay)
    /\ lmQueryEvent' = now + conf.interval
    /\ UNCHANGED <<setupVars, now, active, lmActive, lmQueryCommands, sent,
                   detached, aborted>>

\* QueryLms of an active RIC.  The new wait event overwrites the handle of an
\* earlier one, which stays pending; m_lmQueryCommands is left as it is.
QueryLms ==
    /\ queries' = queries + 1
    /\ lmQueryCycle' = now
    /\ IF conf.maxWait > 0
         THEN /\ waitEvents' = waitEvents \cup
                    {[due |-> now + conf.maxWait, query |-> queries + 1]}
              /\ processEvent' = queries + 1
         ELSE UNCHANGED <<waitEvents, processEvent>>
    /\ \E delay \in [LMs -> conf.delays] : lmRun' = RunLms(delay)
    /\ lmQueryEvent' = now + conf.interval
    /\ UNCHANGED <<setupVars, now, active, lmActive, lmQueryCommands, sent,
                   detached, aborted>>

\* m_lmQueryEvent fires; in a deactivated RIC nothing follows.
PeriodicQuery ==
    /\ aborted = "no"
    /\ lmQueryEvent = now
    /\ \/ active /\ QueryLms
       \/ /\ ~active
          /\ lmQueryEvent' = Never
          /\ UNCHANGED <<setupVars, now, active, lmVars, lmQueryCycle,
                         waitEvents, processEvent, lmQueryCommands, sent,
                         queries, detached, aborted>>

\* NotifyReportReceived when a query trigger answers true.  The E2 terminator
\* drops reports unless it, hence the RIC, is active.
NotifyReportReceived ==
    /\ aborted = "no"
    /\ "Report" \in conf.ops
    /\ queries < MaxQueries
    /\ active
    /\ QueryLms

-----------------------------------------------------------------------------
(***************************************************************************)
(* Activation and the set of LMs.                                          *)
(***************************************************************************)

\* Activate: the LMs are activated only when the RIC was not active yet.
ActivatedLms ==
    IF active THEN lmActive
              ELSE [l \in LMs |-> lmActive[l] \/ l \in Registered]

\* OranLm::CancelRun of the deactivated LMs: it does nothing, since
\* OranLm::Deactivate has already cleared the m_active it tests.
RunsAfterDeactivate == lmRun

\* Deactivate
DeactivateLms ==
    /\ active' = FALSE
    /\ \/ /\ active
          /\ lmActive' = [l \in LMs |-> lmActive[l] /\ l \notin Registered]
          /\ lmRun' = RunsAfterDeactivate
       \/ ~active /\ UNCHANGED lmVars

Activate ==
    /\ aborted = "no"
    /\ "Activate" \in conf.ops
    /\ active' = TRUE
    /\ lmActive' = ActivatedLms
    /\ UNCHANGED <<setupVars, now, lmRun, lmQueryCycle, lmQueryEvent, waitEvents,
                   processEvent, lmQueryCommands, sent, queries, detached, aborted>>

Deactivate ==
    /\ aborted = "no"
    /\ "Deactivate" \in conf.ops
    /\ DeactivateLms
    /\ UNCHANGED <<setupVars, now, lmQueryCycle, lmQueryEvent, waitEvents,
                   processEvent, lmQueryCommands, sent, queries, detached, aborted>>

\* Start aborts when the query event or the inactivity event is pending.  The
\* two are set and cancelled together, but after a mere Deactivate the second
\* one (which is not in this module) may be the only one left.
Start ==
    /\ aborted = "no"
    /\ "Start" \in conf.ops
    /\ active' = TRUE
    /\ lmActive' = ActivatedLms
    /\ \/ /\ lmQueryEvent # Never \/ "Deactivate" \in conf.ops
          /\ aborted' = "already started"
          /\ UNCHANGED lmQueryEvent
       \/ /\ lmQueryEvent = Never
          /\ lmQueryEvent' = now + conf.interval
          /\ UNCHANGED aborted
    /\ UNCHANGED <<setupVars, now, lmRun, lmQueryCycle, waitEvents, processEvent,
                   lmQueryCommands, sent, queries, detached>>

Stop ==
    /\ aborted = "no"
    /\ "Stop" \in conf.ops
    /\ DeactivateLms
    /\ lmQueryEvent' = Never
    /\ waitEvents' = CancelProcessEvent(waitEvents)
    /\ UNCHANGED <<setupVars, now, lmQueryCycle, processEvent, lmQueryCommands,
                   sent, queries, detached, aborted>>

\* AddLogicModule: the name is free.  The LM is not activated.
AddLogicModule(l) ==
    /\ aborted = "no"
    /\ "AddLogicModule" \in conf.ops
    /\ l \notin additionalLms
    /\ additionalLms' = additionalLms \cup {l}
    /\ UNCHANGED <<conf, now, active, defaultLm, lmVars, lmQueryCycle,
                   lmQueryEvent, waitEvents, processEvent, lmQueryCommands,
                   sent, queries, detached, aborted>>

\* The LMs that leave the RIC with a run pending.
Leaving(l) == IF IsRunning(l) THEN {l} ELSE {}

\* RemoveLogicModule: the name is known.  A pending run is not cancelled.
RemoveLogicModule(l) ==
    /\ aborted = "no"
    /\ "RemoveLogicModule" \in conf.ops
    /\ l \in additionalLms
    /\ additionalLms' = additionalLms \ {l}
    /\ detached' = detached \cup Leaving(l)
    /\ UNCHANGED <<conf, now, active, defaultLm, lmVars, lmQueryCycle,
                   lmQueryEvent, waitEvents, processEvent, lmQueryCommands,
                   sent, queries, aborted>>

\* SetDefaultLogicModule: neither LM is activated, deactivated or cancelled.
SetDefaultLogicModule(l) ==
    /\ aborted = "no"
    /\ "SetDefaultLogicModule" \in conf.ops
    /\ l # defaultLm
    /\ defaultLm' = l
    /\ detached' = detached \cup Leaving(defaultLm)
    /\ UNCHANGED <<conf, now, active, additionalLms, lmVars, lmQueryCycle,
                   lmQueryEvent, waitEvents, processEvent, lmQueryCommands,
                   sent, queries, aborted>>

-----------------------------------------------------------------------------
\* The simulator advances: nothing is due at this tick.
Tick ==
    /\ aborted = "no"
    /\ now < Horizon
    /\ lmQueryEvent # now
    /\ \A e \in waitEvents : e.due # now
    /\ \A l \in LMs : IsRunning(l) => lmRun[l].due # now
    /\ now' = now + 1
    /\ UNCHANGED <<setupVars, active, lmVars, lmQueryCycle, lmQueryEvent,
                   waitEvents, processEvent, lmQueryCommands, sent, queries,
                   detached, aborted>>

\* The program has aborted or the simulation has reached its stop time.
Ended ==
    /\ aborted # "no" \/ now = Horizon
    /\ UNCHANGED vars

Next ==
    \/ WaitExpires
    \/ \E l \in LMs : FinishRun(l)
    \/ PeriodicQuery
    \/ NotifyReportReceived
    \/ Activate
    \/ Deactivate
    \/ Start
    \/ Stop
    \/ \E l \in LMs : AddLogicModule(l)
    \/ \E l \in LMs : RemoveLogicModule(l)
    \/ \E l \in LMs : SetDefaultLogicModule(l)
    \/ Tick
    \/ Ended

Spec == Init /\ [][Next]_vars

-----------------------------------------------------------------------------
(***************************************************************************)
(* Properties.                                                             *)
(***************************************************************************)

\* The results that can still be handed to the E2 terminator.
Pending == {ResultOf(l) : l \in {m \in LMs : IsRunning(m)}}
              \cup Collected(lmQueryCommands)

(* Whatever the order of queries, cancelled runs, late returns, restarts   *)
(* and changes of the LM set, the commands of one run of an LM are handed  *)
(* to the E2 terminator at most once: what has been sent is neither still  *)
(* collected nor still to be returned by a running LM.                     *)
NoResend == Pending \cap sent = {}

(* NotifyLmFinished aborts the program when an LM returns commands for     *)
(* another cycle than the current one.  That happens only to an LM that    *)
(* was removed or replaced in the middle of a run: QueryLms cancels the    *)
(* runs of all others, also across Stop and Start, where Deactivate does   *)
(* not cancel them.                                                        *)
UnexpectedCycleOnlyIfDetached ==
    aborted = "unexpected cycle" => detached # {}

(* With a wait limit, and late commands dropped, a RIC that is not stopped *)
(* never holds commands longer than the limit, counted from the query that *)
(* asked for them - also when reports trigger queries while the RIC waits. *)
(* (The wait event that QueryLms orphans is what keeps this promise.)      *)
HoldBound ==
    /\ conf.maxWait > 0
    /\ conf.latePolicy = "DROP"
    /\ conf.ops \cap {"Stop", "Deactivate"} = {}
    => \A r \in Collected(lmQueryCommands) : now <= r.cycle + conf.maxWait

\* A RIC that is started and then left alone: queries are periodic only and
\* the set of LMs is fixed.
Undisturbed ==
    /\ conf.ops \subseteq {"Start", "Activate"}
    /\ defaultLm \notin additionalLms

\* No wait limit, and every LM finishes before the next query.
NoLimitFastLms ==
    /\ Undisturbed
    /\ conf.maxWait = 0
    /\ \A d \in conf.delays : d < conf.interval

\* The limit ends before the next query and late commands are dropped.
LimitWithinInterval ==
    /\ Undisturbed
    /\ conf.maxWait > 0
    /\ conf.maxWait < conf.interval
    /\ conf.latePolicy = "DROP"

(* m_lmQueryCommands is never cleared by QueryLms, so freshness is a       *)
(* matter of timing: in these two regimes the collection only ever holds   *)
(* results of the current cycle.                                           *)
FreshCollection ==
    NoLimitFastLms \/ LimitWithinInterval
    => \A r \in Collected(lmQueryCommands) : r.cycle = lmQueryCycle

(* Counting the entries of m_lmQueryCommands is the RIC's test for "all    *)
(* LMs have returned".  Without a wait limit and with LMs that finish      *)
(* before the next query the test is right: whatever is sent holds the     *)
(* current cycle's result of every LM.                                     *)
CompleteDispatch ==
    [][NoLimitFastLms /\ sent' # sent
       => \A l \in Registered : \E r \in sent' \ sent :
             r.lm = l /\ r.cycle = lmQueryCycle]_vars

(* An LM that keeps its role never has the results of two runs in one      *)
(* collection: an older result is dropped when a newer one arrives.        *)
OneResultPerLm ==
    "SetDefaultLogicModule" \notin conf.ops
    => \A r1, r2 \in Collected(lmQueryCommands) : r1.lm = r2.lm => r1 = r2

(* oran-near-rt-ric.cc:452, "Only process LM query commands from here once *)
(* all LMs have returned commands": when the last LM's return sends the    *)
(* collection, it holds a result of the current cycle of every LM.         *)
ProcessOnlyWhenAllReturned ==
    [][\A l \in LMs : FinishRun(l) /\ sent' # sent
         => \A m \in Registered : \E r \in sent' \ sent :
               r.lm = m /\ r.cycle = lmQueryCycle]_vars

(* oran-near-rt-ric.h:122, SAVE "Saves the commands for the next cycle":   *)
(* collected commands leave the collection only by being sent.             *)
SavedCommandsAreSent ==
    [][Collected(lmQueryCommands) \subseteq
          Collected(lmQueryCommands') \cup sent']_vars

(* oran-near-rt-ric.h:80, "Additional Logic Modules can be added and       *)
(* removed during the simulation": doing so never aborts the program.      *)
LmChangesNeverAbort == aborted # "unexpected cycle"
=============================================================================
