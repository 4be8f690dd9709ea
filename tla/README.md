# Verification of the O-RAN control loop of LTE-NS3

The repository is ns-3 with the O-RAN module `contrib/oran`. What it adds to ns-3 is a
closed control loop: E2 nodes (UEs, eNBs) report to a Near-RT RIC, Logic Modules (LMs) in
the RIC decide on handovers, a conflict mitigation module (CMM) filters their commands,
and the eNBs execute them. This directory holds TLA+ models of that loop and of the LTE
handover it drives, the TLC configurations that check them, and TLAPS proofs. Paths below are relative to the
repository root; `model/` stands for `contrib/oran/model/`.

Everything in ns-3 is single-threaded, but hardly sequential: each report, command,
registration, LM run, trigger and timer is an event of its own with a random delay, so
steps of different objects interleave, messages overtake each other, and an object is
deactivated while its events are pending. That is what the models are about.

## 1. The system

| Component | State | Operations | Hard behaviour | What makes it correct |
|---|---|---|---|---|
| Near-RT RIC, query cycle (`oran-near-rt-ric.cc`, `oran-lm.cc`) | active flag, LM set, `m_lmQueryCommands`, query/wait/inactivity events; each LM's run | Start, Stop, Activate, Deactivate, QueryLms, NotifyLmFinished, NotifyReportReceived, add/remove/replace LM | a query while the RIC still waits; late LMs; stop and restart or LM changes during a run | results sent once, in time, complete and of the current cycle; no abort |
| E2 registration (`oran-e2-node-terminator.cc`, `oran-near-rt-ric-e2terminator.cc`) | the node's id and registration event; the RIC's map from ids to terminators | Activate, Deactivate, Register, Deregister, four message handlers, SendCommand, CheckForInactivity | overtaking messages, refreshes at the threshold, restarts of the RIC | ids never change hands; prompt nodes keep theirs; silent ones are dropped in bounded time |
| Data repository (`oran-data-repository-sqlite.cc`) | tables of nodes, registrations, cells, positions, losses | Register..., Deregister..., Save..., Get... | rows of the same time; a database that outlives the RIC | answers queries with what was reported of registered nodes |
| Logic Modules (`oran-lm-lte-2-lte-*.cc`) | none between queries | Run | decide on old reports | the command names the UE's eNB and RNTI; UEs reach the closest cell |
| Conflict mitigation (`oran-cmm-*.cc`) | `m_pendingCmds` of OranCmmHandover | Filter | commands repeated each cycle, several LMs | at most one command per UE, default LM first; no second handover |
| eNB terminator and LTE RRC (`oran-e2-node-terminator-lte-enb.cc`, `src/lte/model/lte-enb-rrc.cc`, `lte-ue-rrc.cc`) | UeManagers with RNTI and state | ReceiveCommand, PrepareHandover, the X2 handover | a command in the middle of a handover; a reused RNTI | no wrong UE handed over; no fatal error |
| Reporters and triggers (`oran-reporter*.cc`, `oran-report-trigger*.cc`) | active flags, trigger of a reporter, pending events, trace sinks; `m_reports`; loss counters | Activate, Deactivate, TriggerReport, sinks, NotifyRegistrationComplete, PerformReport, StoreReport, DoSendReports | overwritten event handles, activation cycles, new ids | each report exactly once; reports keep coming, at a bounded rate, and are sent |
| Query triggers (`oran-query-trigger*.cc`) | a callback of the script | QueryLms | - | an input of the cycle module: a report triggers a query or not |
| Helper (`contrib/oran/helper`) | - | installs and connects objects | - | not modelled: runs before the simulation |
| X2 handover (`lte-enb-rrc.cc`, `lte-ue-rrc.cc`, `epc-x2.cc`) | the eNBs' UE contexts with state, five timers, bearers; the UE's state, cell and RNTI; `m_x2uTeidInfoMap` | the connection and handover messages of RRC and X2, the timeouts, cell selection, random access, radio link failure, release | a timer racing the message it waits for; a failure that leaves messages behind; a UE that comes back | one cell serves the UE; handovers end; no message meets a state it is not meant for |
| Core network (`epc-enb-`, `epc-mme-`, `epc-sgw-`, `epc-pgw-application.cc`) | maps between TEIDs, RNTIs, bearers and eNBs in four nodes | session creation, path switch, bearer release, downlink data | answers resolved by what the maps say now; a deletion that is overtaken by a new session | the maps agree; packets go where the UE is |
| Lower layers of LTE; ns-3 core | - | - | - | not modelled; the core is the time of the models |

Interactions: reports go node terminator -> RIC terminator -> repository, and to the RIC's
query triggers; LMs read the repository; their commands go RIC -> CMM -> RIC terminator ->
eNB terminator -> RRC; registration runs between the two terminators and drives reporters
(`NotifyRegistrationComplete`) and the sending of reports. `PROJECT.json` lists the hazards
at their lines.

## 2. The modules

Each component module models its neighbours only by what they do to it.

**OranRicCycle** - `OranNearRtRic` with its LMs. Time is in ticks: an event takes place at
the tick it is due, events of a tick in any order. An LM's commands are the identity of the
run that computed them. `lmRun`, `lmQueryCommands`, `waitEvents`/`processEvent` are the run
event of an LM, the collection and the wait events with the handle that names one of them;
the handle is overwritten by QueryLms and the older event stays pending, as in the code.
`FinishRun` is `OranLm::FinishRun` with the whole of `NotifyLmFinished`, including
`ProcessLmQueryCommands`; `PeriodicQuery` and `NotifyReportReceived` contain `QueryLms`;
`Start`, `Stop`, `Activate`, `Deactivate` contain what they do to the LMs. The "unexpected
cycle" NS_ABORT ends the behaviour.

**OranE2Registration** - node terminators, the RIC's terminator, the registration tables and
the inactivity check, again with a clock. The log `noderegistration` is kept as the last row
of each id, its time, and whether another row of the same time disagrees with it: then the
SQL query (`HAVING registered = 1` with `MAX(simulationtime)`) may take either, and the
model does both. `StopRic` closes the database, which may or may not outlive it. A call
through a null terminator pointer ends the behaviour (`crashed`). `ComputeCommand` and
`SendCommand` are a command from the decision of an LM to its sending.

**OranHandoverLoop** - the loop: cell and location reports with delays, the three LMs, the
three CMMs, eNBs and UEs. Queries do not overlap here and nodes stay registered (the two
modules above have that). There is no clock: an event comes after any time. The neural
networks of the ONNX and Torch LMs are a free choice; what is done with their answer is
modelled. The distance LM's uninitialised `oldCellNodeId`, for an unlisted eNB, is a free
choice of a node. The handover has the steps the loop can tell apart: preparation,
admission or refusal, the UE's reconfiguration, its completion, the path switch and the
context release; a command that meets the wrong state is the code's fatal error.

**OranReporting** - reporters, the three triggers, the terminator's store and send events,
the saving by the RIC, and the counters of `OranReporterAppLoss`. No clock either. A timer
is "the event its EventId names is pending" plus the number of older events that are pending
and that no EventId names: overwriting a handle is the hazard here. A trigger loses its
reporter on Deactivate (`oran-report-trigger.cc:106`), so the next periodic event, the next
new id, or a deregistration with id 0 meets a null pointer: `fatal` says which. The script
may activate and deactivate the terminator and each reporter and set a trigger again; it
keeps a pointer to the triggers, so a deactivated trigger is not freed while its events are
pending. With `active` a periodic trigger always has its handle's event pending.

**LteX2Handover** - the whole of a UE's life between two eNBs: attachment, X2 handover,
failure, reattachment. The state is that of five objects: `ue` (`LteUeRrc`), `ctx`,
`lastRnti`, `x2uTeidInfo` (`LteEnbRrc` of each cell), `app` (`EpcEnbApplication`), `mmeCell`,
`sgw`, `pgw`, and what is on its way: `x2` (each direction of an X2 link is in order and
carries X2-C and X2-U), `s11`, `s5`, `reply` (the links of the core network), `rrc`. RRC
messages go by the ideal protocol, as events of zero delay that happen before anything else,
or by the real one, in the air, where they are lost when the UE is elsewhere. Release and the
UE's request to remove its context are events of zero delay in both protocols, as in the
code. Each action is one handler with all it calls: `RecvReconfigurationCompleted` at the
target includes the path switch request of the S1 application and the MME's Modify Bearer
Request; `RemoveUe` includes what it does to the S1 application. S1-MME is a function call in
this code (`epc-enb-application.cc` and `epc-mme-application.cc` call each other's SAP), so
it is no step of its own. A timer is its name in the
context's `timers`; timers fire at any time, which covers every value of the timeout attributes, except that T300 is
not shorter than the connection request timer (its checker caps it at 15 ms).
Assertions and fatal errors end the behaviour with their reason in `fatal`; `mishaps`
remembers which kinds of failure have happened.

**LteHandoverService** - what a handover promises, as an abstract specification: the UE is
disconnected, connected, preparing or executing a handover; only a handover that was
requested and admitted moves it, to its target; a refusal leaves it where it is; what begins
ends. `LteX2Handover` implements all of it: what it may do (`ImplementsService`) and that what
begins ends (`HandoversEnd`). The refinement mapping is `ServicePhase`: the phase is that of the
context at the UE's place or, while none serves it there, of the one that sent it, unless that
one is about to hear that the UE arrived (among three cells such a source can still be there when
the next handover of the UE fails). The loop uses it: the steps of `OranHandoverLoop` do to each UE what
steps of the service do (`LoopUsesService`). So the few steps that the loop has for
a handover are those that the detailed model justifies.

`MC...` modules define the scenarios. A scenario is a record (`conf`, chosen in Init from the
constant `Configs`) of attribute values and of the calls the script may make, so that one
run covers several regimes. Operators named `X_...` before a definition `X` (comment "Fault") are
plausible bugs; each property is known to notice one of them.

## 3. Runs

| Run | Expect | What it shows |
|---|---|---|
| `ric_cycle` | pass, 1,293,994 states | Results are sent at most once (`NoResend`), held no longer than the wait limit (`HoldBound`), one per LM (`OneResultPerLm`); in the two regimes where timing allows it the collection is of the current cycle (`FreshCollection`), and complete when sent (`CompleteDispatch`); the abort is confined to LMs removed during a run. |
| `e2_registration` | pass, 1,839,758 states | Ids never change hands (`IdsOwned`), an inactive node forgets its id (`InactiveForgetsId`), prompt nodes keep one id for good (`StableId`, `OneIdPerNode`), a silent id is gone after threshold plus one interval (`InactivityBound`). |
| `loop` | pass, 334,464 states, fair | No command hands over a UE the LM did not mean (`RightUe`); OranCmmHandover prevents a second handover of a leaving UE (`NoSecondHandover`); the default LM precedes (`DefaultLmPrecedes`); UEs end up in the closest cell (`EventuallyClosest`); handovers are steps of the service (`LoopUsesService`). |
| `x2_handover` | pass, 488,085 states, fair | At most one cell serves the UE, and it is where the UE is (`OneServingCell`); a UE that believes it is connected is known there or will be released (`NotStranded`); the maps of RRC, S1 application and X2-U agree (`BearerMapsAgree`); at rest PGW and SGW lead to the UE (`PathLeadsToUe`); the program ends only for a message that a failure left behind (`AbortsExplained`); only a handover that was asked for and admitted moves the UE (`ImplementsService`), and each one ends (`HandoversEnd`). |
| `reporting` | pass, 352,183 states, fair | Each report is exactly once in one place (`EachReportOnce`); triggers fire, at a bounded rate (`TriggerChains`); null pointers are met only after the deactivation that explains them (`AbortOnlyAfterDeactivation`); losses are not understated (`LossNotUnderstated`); stored reports are sent (`StoredIsSent`). |
| `ric_overlap` | violation | Entries of an earlier cycle count as returns of the current one. |
| `ric_save` | violation | Commands kept by the SAVE policy are discarded when their LM returns in the next cycle. |
| `ric_lm_change` | violation | Removing an LM during its run aborts the program. |
| `e2_slow` | violation | A UE that asks again before the answer gets a second registered id. |
| `loop_refused` | violation, fair | After a refused handover OranCmmHandover suppresses the command for good. |
| `loop_torch` | violation | The Torch LM addresses the wrong eNB before all UEs are known. |
| `x2_setup_timeout` | violation | A connection setup that times out at the eNB leaves the UE connected to a cell that has forgotten it. |

Each violation run checks a sentence of a header, comment or document, which the comment
of its property and the finding in `PROJECT.json` quote.

Other things the models show, for which there is no run:

- Registration: `SendCommand` looks up the terminator, which deregistration leaves in place,
  so a command computed before the inactivity check is sent to a deregistered node
  (`oran-architecture.rst:126` says it is not). `RegisterNodeLteUe` files a first registration
  under the requested id, 0, so that a UE is in no list before its first refresh
  (`oran-data-repository.h:208`).
- Handover: the seven causes of `AbortsExplained` are all reachable, five of them
  with fast links too (for two the core network must be slower than the UE that attaches again).
  The design document says that handover failure is not handled properly
  (`src/lte/doc/source/lte-design.rst:3509`); the model says what that amounts to.
- With slow links a late Delete Bearer Response removes the bearer of the UE's new
  session at the PGW: `PathLeadsToUe` needs `fastLinks`. If it arrives twice,
  `UeInfo::RemoveBearer` (`epc-pgw-application.cc:58`) reads past the end of a map; the model
  takes the outcome of libstdc++, where nothing is removed.
- `DoRecvHandoverCancel` cancels the target's joining timer and releases its bearers, but
  does not remove the context: with a leaving timeout shorter than the joining one (the
  defaults are 500 and 200 ms) a context stays in `m_ueMap` for good. It serves nobody
  (`OneServingCell`), but its RNTI and SRS index are gone.
- With three cells and one slow X2 link, a UE can be handed from A to B and on to C before B's
  context release reaches A. A's leaving timer then fires while the UE is two cells away, and
  the cancel meets a state at B that `DoRecvHandoverCancel` is not meant for: a fatal error
  without any failure before it, so `AbortsExplained` does not hold. If the UE comes back to A
  meanwhile (A, B, C, A), the entry of `m_x2uTeidInfoMap` is overwritten and
  `BearerMapsAgree` fails as well. Both need a link slower than the whole of the next
  handover; the helper gives all X2 links one delay (`X2LinkDelay`), so a script must set
  the links up itself to meet them.
- A UE that has arrived is still released by the source when the target's context release
  is late; it reattaches (`ImplementsService` has that as a loss of the connection).

## 4. Bounds

Every bound is a constant or a field of a scenario, and only ends or delays behaviour.

- *RIC cycle*: three LMs (default, one additional, one to add), 5 ticks with intervals of 2,
  so that a run of one cycle can end in each of the next two; at most 3 queries before reports
  stop triggering. Interference needs two cycles and two LMs.
- *Registration*: 6 ticks, 3 ids, two nodes, two activations of a node and two starts of the
  RIC. Delays of 0..2 against intervals of 2 or 3 make every pair of messages overtake; the
  thresholds are hit exactly and missed by one.
- *Loop*: two UEs, three cells, two places, one or two moves, one refusal, one or two
  copies of a command under way, one report of a kind under way per UE, RNTIs up to 3.
  Two places of equal interest suffice to go back and forth; `maxRnti` ends handovers to a
  cell rather than reuse an RNTI: the wrap at 2^16 is out of reach of a scenario.
- *X2 handover*: two cells, two RNTIs each, two attachments, one downlink packet with the
  ideal protocol. A UE can be handed over, handed back and fail, then attach again while
  messages of its first life are under way; more RNTIs repeat this. Two cells are a real
  restriction of this run: `OneServingCell`, `NotStranded`, `PathLeadsToUe`, `ImplementsService` and
  `TypeOK` are proved for any number; `BearerMapsAgree` and `AbortsExplained` are properties of two cells and fail
  for three (section 3). `BearerMapsAgree` is proved for two cells and any number of the rest. A UE that finds no RNTI left stops, which is why
  the run does not ask for the absence of deadlock. `conf.first` breaks the symmetry of cells.
- *Reporting*: two reporters, up to four calls of the script (activate, deactivate, activate,
  deactivate), three reports, two registrations under way, three pending send events, one
  deregistration for inactivity, four packets.

## 5. Fairness

The modules with a clock are checked for safety only; their bounds in time (`HoldBound`,
`InactivityBound`) say more than fairness could. Their Tick is not taken while an event is due.

`OranHandoverLoop`: weak fairness of each UE's reports and their arrival, of queries and
their processing, of the arrival of each UE's commands and of each step of its handover. Reports
and queries are periodic events that always schedule the next one, and ns-3 delivers each
message after a finite delay; handover messages are sent over X2 and an ideal or reliable
RRC. Admission or refusal is fair as a whole: neither outcome is.

`OranReporting`: weak fairness of the periodic Register, of pending send events and of
registration messages. Nothing is assumed of triggers, packets, reports under way,
deregistrations or the script. Register is a periodic event while the node is active.

`LteX2Handover`: weak fairness of RRC events, of each X2 link, of the timers of each context
and of the core network: all of them are events that the simulator executes once they are
scheduled, and links that lose nothing. Nothing is assumed of what the UE does on its own
(cell selection, random access, failures) or of handover requests: a handover ends although
the UE may never access the target, because the timers run. Checked that this is needed:
without the answer of the target (a mutant) a preparation never ends, since no timer
supervises it.

## 6. Proofs

29 theorems, proved by TLAPS for every value of the constants under the ASSUMEs of the
modules alone: the types of the constants and of a scenario's fields (intervals are positive,
sets of delays not empty), UEs, cells and reporters numbered from 1 as the helpers number
them. No theorem fixes a bound. Two are about two cells and say so (`OneHandoverAtATime`,
`MapsAgree`). Each invariant was checked by TLC before its proof.

`OranRicCycleProofs` (any LMs, attributes, horizon):

- `TypeCorrect`: `[]TypeOK`.
- `AbortOnlyIfDetached`: `[]UnexpectedCycleOnlyIfDetached`. Not inductive: a run that would
  abort later must be excluded now. `CycleInv` adds `RunsOwned`: the run of a registered LM
  belongs to the current cycle, every other running LM is in `detached`. QueryLms preserves it
  because it cancels the runs of all registered LMs, including those that survived Stop.
- `AtMostOnce`: `[]NoResend`. `OnceInv` adds `RunsDistinct`: what is still to be returned,
  collected or sent are disjoint, and all carry numbers of queries made.
- `HeldWithinLimit`: `[]HoldBound`. `HoldInv` says that each collected result has a pending
  wait event due within the limit, possibly one that no handle names. It is the orphaned
  events that keep the bound; cancelling them in QueryLms would break it (a mutant does).
- `OneResultOfEachLm`: `[]OneResultPerLm`, from `EntryInv`: while roles are fixed, an entry of
  the collection has one result and its key is that of the LM it is from.
- `DispatchIsComplete`: `[]CompleteDispatch`. The code compares two sizes. `CountInv` says
  when that is right (`Counted`): while LMs run, the keys are exactly those of the LMs that
  have returned, and the collection is empty otherwise; every run is due before the next query.
- `CollectionIsFresh`: `[]FreshCollection`, in both regimes, from `CountInv` (no limit, LMs in
  time) and `HoldInv` (a limit that ends before the next query): either way the collection
  is empty when QueryLms runs.

`OranE2RegistrationProofs` (any nodes, delays, intervals, number of ids):

- `TypeCorrect`: `[]TypeOK`.
- `IdsNeverChangeHands`: `[]IdsOwned`. `OwnInv` follows an id through all its places: handed
  out by the RIC, held by the node, in a message, filed in a table. Each says the owner is
  the node the RIC gave the id to; none is inductive without the others.
- `InactiveNodesForget`: `[]InactiveForgetsId`. `ForgetInv` says that a node that leaves with
  an id has a deregistration, or the answer to it, under way.
- `InactiveIdsGo`: `[]InactivityBound`. `CheckInv`: the next check is never further ahead
  than an interval, and a registered row is not older than the threshold was at the last.
- `OneIdWhenPrompt`, `IdsStayWhenPrompt`: `[]OneIdPerNode` and the action property `StableId`.
  `PromptInv` is an invariant in time: at most one registration message per node,
  messages due before the node's next event, the registered id is the one held or
  carried, and the refresh arrives no later than the row expires. The last has no slack: a
  refresh exactly at the threshold is covered.

`OranReportingProofs` (any reporters, triggers, script, number of messages and ids):

- `TypeCorrect`: `[]TypeOK`.
- `ChainsBounded`: `[]TriggerChains`; `AbortCauses`: `[]AbortOnlyAfterDeactivation`. Both
  from `Ind`: types of what matters, `Messages` (a deregistration with id 0 was sent by a
  node that was deactivated), and for each reporter `Sound`: the handle of a periodic trigger
  names a pending event iff the trigger is active; unnamed events exist only with
  InitialReport, at most one per id; an inactive trigger with events, or a reporter without a
  trigger, was deactivated. TriggerChains counts events only, and does not say which of
  them Deactivate cancels: that is what `Sound` adds.
- `ReportsAreConserved`: `[]EachReportOnce`. `OnceInv`: numbers in the queue are distinct, the
  bags of reports under way and saved hold each once, and the places are disjoint and make up
  what was generated.
- `LossIsReported`: `[]LossNotUnderstated`, a balance of sent, received and reported packets.

`OranHandoverLoopProofs` (any UEs, cells, places, scenario):

- `TypeCorrect`: `[]TypeOK`.
- `CommandsMeetTheirUe`: `[]RightUe`. `OwnInv`: there is one map from cell and RNTI to UEs
  with which the cells, the reports, the rows of the repository, the LMs' commands and those
  under way all agree (where the repository lists the serving cells). It holds as long as RNTIs are not used again, the bound `maxRnti`.
- `DefaultPrecedes`: `DefaultLmPrecedes`, an action property, from `OwnInv`: the CMM keys commands
  by the node they affect, and that node is the UE the LM meant.
- `OneHandoverAtATime`: `[]NoSecondHandover` (two cells, as the property says). `SecondInv`:
  every command under way is there once and remembered by the CMM; a context that
  has begun its handover has its command remembered and none under way.
- `LoopRefinesService`: `LoopUsesService`, the refinement of `LteHandoverService` step by step
  (without its fairness). `ServiceInv`: the spots of a UE (cell, RNTI, state) are apart, the
  contexts that are left have different goals, every UE has a context where it is, and the
  leaving context of a UE and the joining one at its goal exist together.

`LteX2HandoverProofs`: `TypeCorrect`, `[]TypeOK`, with `OneEvent`: there is never more than one
event of zero delay, so that "before anything else" is a well-defined order.

`LteX2ServingProofs` (any number of cells, RNTIs and attachments; both RRC protocols; links of
any speed; all timers and failures):

- `StepEffects`: every step of `Next` has one of a few `Effects` on the contexts and the UE
  (a context appears, changes state, is released; the UE moves, connects, goes idle). The invariants below
  are proved over the effects, not over the 30-odd actions.
- `Base` = `TypeInv` and three layers, each needing the ones before. `Allocated`: every RNTI
  that a context, a message or the UE refers to was handed out by its cell; a new one is
  nobody's. `Protocol`: what two eNBs have under way for each other about a context fits its
  state, one request, or one answer that precedes a failure, on an ordered link; a context that expects the UE
  has its acceptance on the way to a source that still prepares. `Serving`: a serving context
  is where the UE is or is about to be removed (`Served`); a message of RRC still meets
  what it was sent for (`Rightly`); the place where a UE starts or is connected is not the
  destination of a handover (`NewIsNoTarget`).
- `ServedByOneCell`: `[]OneServingCell`, from `Base`.
- `Support` adds who will release a UE that nobody knows where it is: a context it left for
  that cell has its leaving timer running and no context release is on its way to it
  (`Supports`). A handover command in the air has this from the context that sent it
  (`CommandSupported`), a setup in the air has a context that waits (`SetupAwaited`), and a
  release on its way is for a context that the UE has left (`Releases`).
  `NobodyStranded`: `[]NotStranded`.

`LteX2PathProofs` (any number of cells, RNTIs and attachments; both RRC protocols; a core network
that is faster than a UE that attaches again, `fastLinks`, as the property says):

- `PathLeadsAlways`: `[]PathLeadsToUe`, from `Base`, `Support` and `PathInv`. The core network is
  busy only while the UE attaches, while the path is switched, or after the UE has lost
  its connection. `Waits`: a context that waits for the core network is the only one that uses
  it (`Creation`, `Switching` name the places a request passes). `Rests`: while no context
  waits and the UE is not being released, the core network is idle. A session begins when
  nothing is left of the one before (`Starts`, `CreatesAlone`), so one TEID is in use
  (`TeidsAgree`) and a Delete Bearer Response cannot meet a new session. `SessionEnds` is what
  makes that inductive: as long as the PGW has the session, somebody is still to delete it,
  a context that serves or one that waits for its context release. For that every context that the UE left must
  end: `LeavingEnds` says which context or message it will hear from, through `OffersStand`,
  `CommandsStand`, `Joins`. `CancelsLate` and `Connects` bound what timers can do
  to a UE that is served. `SessionStays` and `PathLeads` are then what the property needs.
- `CoreSteps`: every step of `Next` is one of a few moves of the core network, tied to what
  the contexts do; `PathInv` is proved over these and `StepEffects`.

`LteX2SessionProofs` (any number of RNTIs and attachments; both RRC protocols; links of any
speed):

- `MapsAgree`, for two cells: `TwoCells => (Spec => []BearerMapsAgree)`, from `Base`, `Support`, `SessionInv` and
  `MapsInv`. Maps by TEID are sound only if a cell has one context for a session. `Paired`
  says so: two contexts of a session are in two cells, and one hands it over to the other. What could
  break it is a request on its way for a session whose earlier context, in the cell it is for, is
  still there. `AskedAlone` excludes that by the order of one link: whatever has that session there
  is the asker itself, or is freed by a message ahead of the request; `AskerHolds` and `AskedOnce` say who
  asked, and that it asked once. With a third cell
  the message that frees the context can come by another link, and this is where the
  argument and the property fail. `Assigned` says that the SGW gives each TEID to one
  session: it is created, granted and used once each, in this order.
- `HandoverImplementsService`: `ImplementsService`, the refinement of `LteHandoverService`, for any
  number of cells; from `Base`, `Support` and `ServiceInv`. A context `Claims` another that it
  was offered for its UE or sent it to. `Claimed`: what is claimed was created for that source
  (`source`), not for a UE that comes by itself, and once the path is switched to it the source is
  told; `ClaimedOnce`: by one source. So while the UE is on its way or has arrived at a context
  that only waits, there is exactly one context whose handover this is, and `Described` gives
  the phase in each case. The step (`ServiceSimulated`) follows the UE: it stays and the context
  there changes (`SimulatesContext`), it is commanded (`SimulatesCommand`: the target is the one
  that was admitted, by `CommandsStand`, and expects it or has gone, by `Joins`), it arrives, it
  connects, or it is lost.
- `MapSteps`: every step clears the entries of a context that goes, sets those of one whose
  bearer is set up, adds that of an admitted one, or does nothing; `MapsInv` (each map leads
  to its context, each context is found, the two maps of S1 are inverse) is proved over these.

Only model-checked:

- Liveness under fairness, which is beyond the prover: `EventuallyClosest`, `RefusedIsRetried`,
  `StoredIsSent`, `HandoversEnd`.
- `AbortsExplained`: a property of two cells that fails for three. Its causes range over
  most handlers, and each needs an argument of its own about what can still be under way.
- What the violation runs refute.

## 7. Assumptions and what is left out

- NS_ABORT and NS_FATAL_ERROR, and NS_ASSERT as in a debug build, end the program.
- The Torch LM has the three eNBs its network is made for; the ONNX LM's cells 1 and 2 exist.
- Loop: radio link failure, the handover timers of the eNB and random access failure are left
  out; a handover is admitted or refused, and then completes. `LteX2Handover` has the rest.
- X2 handover: one UE with one bearer and one carrier. Left out: handover between cells of one
  eNB, carrier aggregation, measurements (when a handover is requested is an input),
  reestablishment (unimplemented), SN status transfer (its handler does nothing), uplink data,
  a lost random access response and the failure of a random access from idle mode (the UE
  tries again). Events of zero delay happen one after the other, before any other
  event; two that other components schedule for the same instant are not interleaved with
  them. An uplink PDU that reaches the MAC after the context is gone counts as lost.
- Repository: the getters for loss and load, the log tables and SQL errors are left out.
- Reporting: what reporters read from the simulation is left out but for the loss counters,
  and so is the load reporter's resource accounting; two events of one trigger may coincide
  there and divide by zero milliseconds (listed as a hazard).
- Query triggers and SetCmm: a report triggers a query or not; the CMM is fixed in a scenario.
- Helper, statistics, examples, LTE below RRC, ns-3 core and its other modules: set-up code,
  numerical simulation, or not this program's own logic.

## 8. Plan

Done, in this order: query cycle; registration; loop; reporting; the X2 handover with the core
network; the handover service and its two uses; the proofs of section 6.

1. Proofs: the causes of `AbortsExplained` that need no second cell (the
   connection setup and the UE's random access), for any number of cells.
2. A promise of the query cycle (each run's results at most once, within the limit, to the
   E2 terminator) as an abstract specification that `OranRicCycle` refines.
3. Two UEs in the X2 handover: the maps by IMSI, and packets of one for the other.
4. The getters and log of the repository; query triggers; the load reporter with its clock.
