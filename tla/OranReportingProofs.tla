-------------------------- MODULE OranReportingProofs --------------------------
(***************************************************************************)
(* Theorems about the reporting chain, for every set of reporters, every   *)
(* choice of their triggers and every length of a behaviour.               *)
(***************************************************************************)
EXTENDS OranReporting, FiniteSetTheorems, TLAPS

(***************************************************************************)
(* Bags.                                                                   *)
(***************************************************************************)

(* A message that is sent is added to those under way.                     *)
LEMMA BagAdd ==
    ASSUME NEW B, NEW x
    PROVE  BagToSet(B (+) One(x)) = BagToSet(B) \cup {x}
  BY DEF BagToSet, (+), One, SetToBag

(* A message that is taken out leaves no new one behind.                   *)
LEMMA BagRemove ==
    ASSUME NEW B, NEW x
    PROVE  BagToSet(B (-) One(x)) \subseteq BagToSet(B)
  BY DEF BagToSet, (-), One, SetToBag

(***************************************************************************)
(* The inductive invariant.                                                *)
(***************************************************************************)

(* What TriggerChains leaves unsaid about reporter r in state x, when the  *)
(* node has got n ids and the components in o have been deactivated: the   *)
(* handle of an active periodic trigger names a pending event, an inactive *)
(* one has loose events at most, and only if it was active before.         *)
Sound(r, x, n, o) ==
    /\ r \in conf.periodic => x.sinks = 0 /\ (x.events.current <=> x.active)
    /\ r \notin conf.periodic => x.events = NoEvents /\ x.sinks = (IF x.active THEN 1 ELSE 0)
    /\ x.events.loose <= (IF r \in conf.initial THEN n ELSE 0)
    /\ x.events.loose > 0 /\ ~x.active => r \in o
    /\ ~x.trigger => r \in o

Types ==
    /\ conf \in Configs
    /\ e2NodeId \in Nat
    /\ lastId \in Nat
    /\ renewals \in Nat
    /\ registered \in SUBSET (Nat \ {0})
    /\ reporter \in [Reporters -> Reporter]
    /\ BagToSet(msgs) \in SUBSET Message

\* A deregistration without an id was sent by a node that was deactivated.
Messages ==
    \A m \in BagToSet(msgs) :
        m.kind \in {"DeregRequest", "DeregResponse"} /\ m.id = 0 => 0 \in off

Ind ==
    /\ Types
    /\ Messages
    /\ \A r \in Reporters : Sound(r, reporter[r], renewals, off)
    /\ AbortOnlyAfterDeactivation

(***************************************************************************)
(* What the operations of reporters and triggers preserve.                 *)
(***************************************************************************)

(* More ids and more deactivations do no harm.                             *)
LEMMA SoundMonotone ==
    ASSUME NEW r, NEW x \in Reporter, NEW n \in Nat, NEW p \in Nat, n <= p,
           NEW o, NEW q, o \subseteq q, Sound(r, x, n, o)
    PROVE  Sound(r, x, p, q)
  BY DEF Sound, Reporter, Timer

(* Cancelling and scheduling events.                                       *)
LEMMA TimerOps ==
    ASSUME NEW t \in Timer
    PROVE  /\ Pending(t) \in Nat
           /\ t.current => Pending(t) = t.loose + 1
           /\ ~t.current => Pending(t) = t.loose
           /\ Schedule(t) \in Timer
           /\ Schedule(t).current
           /\ Schedule(t).loose = Pending(t)
           /\ Cancel(t) \in Timer
           /\ ~Cancel(t).current
           /\ Cancel(t).loose = t.loose
  <1>1. t.loose \in Nat /\ t.current \in BOOLEAN
    BY DEF Timer
  <1>2. t.current => Pending(t) = t.loose + 1
    BY DEF Pending
  <1>3. ~t.current => Pending(t) = t.loose
    BY <1>1 DEF Pending
  <1>4. Pending(t) \in Nat
    BY <1>1, <1>2, <1>3
  <1>5. Schedule(t) \in Timer /\ Schedule(t).current /\ Schedule(t).loose = Pending(t)
    BY <1>4 DEF Schedule, Timer
  <1>6. Cancel(t) \in Timer /\ ~Cancel(t).current /\ Cancel(t).loose = t.loose
    BY DEF Cancel, Timer
  <1> QED
    BY <1>2, <1>3, <1>4, <1>5, <1>6

(* OranReporter::Deactivate of an active reporter.                         *)
LEMMA DeactivateTriggerSound ==
    ASSUME NEW r, NEW x \in Reporter, NEW n \in Nat, NEW o, Sound(r, x, n, o), x.active
    PROVE  /\ DeactivateTrigger(r, x) \in Reporter
           /\ ~DeactivateTrigger(r, x).active
           /\ \A q : r \in q => Sound(r, DeactivateTrigger(r, x), n, q)
  <1> DEFINE y == DeactivateTrigger(r, x)
  <1>1. x.events \in Timer /\ x.sinks \in Nat /\ n \in Nat
    BY DEF Reporter
  <1>2. Cancel(x.events) \in Timer /\ ~Cancel(x.events).current
                                   /\ Cancel(x.events).loose = x.events.loose
    BY <1>1, TimerOps
  <1>3. ~y.active /\ ~y.trigger
    BY DEF DeactivateTrigger
  <1>4. CASE r \in conf.periodic
    <2>1. y.events = Cancel(x.events) /\ y.sinks = x.sinks
      BY <1>4 DEF DeactivateTrigger, PeriodicDeactivate
    <2>2. y \in Reporter
      BY <1>1, <1>2, <1>4 DEF DeactivateTrigger, PeriodicDeactivate, Reporter
    <2> HIDE DEF y
    <2>3. \A q : r \in q => Sound(r, y, n, q)
      BY <1>2, <1>3, <1>4, <2>1 DEF Sound
    <2> QED
      BY <1>3, <2>2, <2>3 DEF y
  <1>5. CASE r \notin conf.periodic
    <2>1. y.events = x.events /\ y.sinks = 0
      BY <1>5 DEF DeactivateTrigger, DisconnectSink
    <2>2. y \in Reporter
      BY <1>1, <1>5 DEF DeactivateTrigger, DisconnectSink, Reporter
    <2> HIDE DEF y
    <2>3. \A q : r \in q => Sound(r, y, n, q)
      BY <1>3, <1>5, <2>1 DEF Sound
    <2> QED
      BY <1>3, <2>2, <2>3 DEF y
  <1> QED
    BY <1>4, <1>5

(* OranReporter::Deactivate                                                *)
LEMMA DeactivateSound ==
    ASSUME NEW r, NEW x \in Reporter, NEW n \in Nat, NEW o, Sound(r, x, n, o)
    PROVE  /\ DeactivateReporter(r, x) \in Reporter
           /\ \A q : o \subseteq q /\ (x.active /\ ~DeactivateReporter(r, x).active => r \in q)
                     => Sound(r, DeactivateReporter(r, x), n, q)
  <1>1. CASE ~x.active
    <2>1. DeactivateReporter(r, x) = x
      BY <1>1 DEF DeactivateReporter
    <2> QED
      BY <1>1, <2>1, SoundMonotone
  <1>2. CASE x.active
    <2>1. DeactivateReporter(r, x) = DeactivateTrigger(r, x)
      BY <1>2 DEF DeactivateReporter
    <2> QED
      BY <1>2, <2>1, DeactivateTriggerSound
  <1> QED
    BY <1>1, <1>2

(* OranReporter::Activate of an inactive reporter that has a trigger.      *)
LEMMA ActivateTriggerSound ==
    ASSUME NEW r, NEW x \in Reporter, NEW n \in Nat, NEW o, Sound(r, x, n, o), ~x.active
    PROVE  /\ ActivateTrigger(r, x) \in Reporter
           /\ \A q : Sound(r, ActivateTrigger(r, x), n, q)
  <1> DEFINE y == ActivateTrigger(r, x)
  <1>1. x.events \in Timer /\ x.sinks \in Nat
    BY DEF Reporter
  <1>2. y.active /\ y.trigger
    BY DEF ActivateTrigger
  <1>3. CASE r \in conf.periodic
    <2>1. ~x.events.current
      BY <1>3 DEF Sound
    <2>2. /\ Schedule(x.events) \in Timer
          /\ Schedule(x.events).current
          /\ Schedule(x.events).loose = x.events.loose
      BY <1>1, <2>1, TimerOps
    <2>3. y.events = Schedule(x.events) /\ y.sinks = x.sinks
      BY <1>3 DEF ActivateTrigger, PeriodicActivate
    <2>4. y \in Reporter
      BY <1>1, <1>3, <2>2 DEF ActivateTrigger, PeriodicActivate, Reporter
    <2> HIDE DEF y
    <2>5. \A q : Sound(r, y, n, q)
      BY <1>2, <1>3, <2>2, <2>3 DEF Sound
    <2> QED
      BY <2>4, <2>5 DEF y
  <1>4. CASE r \notin conf.periodic
    <2>1. x.sinks = 0 /\ x.events = NoEvents
      BY <1>4 DEF Sound
    <2>2. y.events = x.events /\ y.sinks = 1
      BY <1>4, <2>1 DEF ActivateTrigger, ConnectSink
    <2>3. y \in Reporter
      BY <1>1, <1>4 DEF ActivateTrigger, ConnectSink, Reporter
    <2> HIDE DEF y
    <2>4. \A q : Sound(r, y, n, q)
      BY <1>2, <1>4, <2>1, <2>2 DEF Sound
    <2> QED
      BY <2>3, <2>4 DEF y
  <1> QED
    BY <1>3, <1>4

(* OranReporter::Activate                                                  *)
LEMMA ActivateSound ==
    ASSUME NEW r, NEW x \in Reporter, NEW n \in Nat, NEW o, Sound(r, x, n, o)
    PROVE  /\ ActivateReporter(r, x) \in Reporter
           /\ \A q : o \subseteq q /\ (x.active /\ ~ActivateReporter(r, x).active => r \in q)
                     => Sound(r, ActivateReporter(r, x), n, q)
  <1>1. CASE ~(~x.active /\ x.trigger)
    <2>1. ActivateReporter(r, x) = DeactivateReporter(r, x)
      BY <1>1 DEF ActivateReporter
    <2> QED
      BY <2>1, DeactivateSound
  <1>2. CASE ~x.active /\ x.trigger
    <2>1. ActivateReporter(r, x) = ActivateTrigger(r, x)
      BY <1>2 DEF ActivateReporter
    <2> QED
      BY <1>2, <2>1, ActivateTriggerSound
  <1> QED
    BY <1>1, <1>2

(* A pending event takes place.                                            *)
LEMMA FiredShape ==
    ASSUME NEW t \in Timer, NEW u \in Fired(t)
    PROVE  /\ u \in Timer
           /\ Pending(t) >= 1
           /\ Pending(u) = Pending(t) - 1
           /\ ~t.current => ~u.current /\ u.loose = t.loose - 1
  <1>1. /\ u = [t EXCEPT !.current = FALSE] \/ u = [t EXCEPT !.loose = t.loose - 1]
        /\ Pending(u) = Pending(t) - 1
        /\ u.loose >= 0
    BY DEF Fired
  <1>2. t.loose \in Nat /\ t.current \in BOOLEAN /\ Pending(t) \in Nat
    BY TimerOps DEF Timer
  <1>3. CASE u = [t EXCEPT !.current = FALSE]
    <2>1. u \in Timer /\ ~u.current /\ u.loose = t.loose
      BY <1>3 DEF Timer
    <2>2. Pending(u) = t.loose
      BY <2>1, TimerOps
    <2>3. t.current
      BY <1>1, <1>2, <2>2, TimerOps
    <2> QED
      BY <1>1, <1>2, <2>1, <2>2, <2>3
  <1>4. CASE u = [t EXCEPT !.loose = t.loose - 1]
    <2>1. u.loose = t.loose - 1 /\ u.current = t.current
      BY <1>4 DEF Timer
    <2>2. u.loose \in Nat
      BY <1>1, <1>2, <2>1
    <2>3. u \in Timer
      BY <1>4, <2>1, <2>2 DEF Timer
    <2>4. Pending(u) \in Nat
      BY <2>3, TimerOps
    <2> QED
      BY <1>1, <1>2, <2>1, <2>3, <2>4
  <1> QED
    BY <1>1, <1>3, <1>4

(* The event of a periodic trigger, as long as its reporter is active.     *)
LEMMA RescheduleSound ==
    ASSUME NEW r, NEW x \in Reporter, NEW n \in Nat, NEW o, Sound(r, x, n, o), x.active,
           NEW t \in Fired(x.events)
    PROVE  /\ [x EXCEPT !.events = Schedule(t)] \in Reporter
           /\ Sound(r, [x EXCEPT !.events = Schedule(t)], n, o)
  <1> DEFINE y == [x EXCEPT !.events = Schedule(t)]
  <1>1. x.events \in Timer
    BY DEF Reporter
  <1>2. t \in Timer /\ Pending(x.events) >= 1 /\ Pending(t) = Pending(x.events) - 1
    BY <1>1, FiredShape
  <1>3. Pending(NoEvents) = 0
    BY DEF Pending, NoEvents
  <1>4. r \in conf.periodic /\ x.sinks = 0 /\ x.events.current
    BY <1>2, <1>3 DEF Sound
  <1>5. /\ Schedule(t) \in Timer
        /\ Schedule(t).current
        /\ Schedule(t).loose = Pending(t)
    BY <1>2, TimerOps
  <1>6. Schedule(t).loose = x.events.loose
    <2>1. Pending(x.events) = x.events.loose + 1 /\ x.events.loose \in Nat
      BY <1>1, <1>4, TimerOps DEF Timer
    <2> QED
      BY <1>2, <1>5, <2>1
  <1>7. /\ y \in Reporter
        /\ y.events = Schedule(t)
        /\ y.active /\ y.trigger = x.trigger /\ y.sinks = x.sinks
    BY <1>5 DEF Reporter
  <1> HIDE DEF y
  <1>8. Sound(r, y, n, o)
    BY <1>4, <1>5, <1>6, <1>7 DEF Sound
  <1> QED
    BY <1>7, <1>8 DEF y

(* The event of a periodic trigger whose reporter is not active: it was    *)
(* deactivated, and the trigger has InitialReport.                         *)
LEMMA LooseEventSound ==
    ASSUME NEW r, NEW x \in Reporter, NEW n \in Nat, NEW o, Sound(r, x, n, o), ~x.active,
           NEW t \in Fired(x.events)
    PROVE  /\ [x EXCEPT !.events = t] \in Reporter
           /\ Sound(r, [x EXCEPT !.events = t], n, o)
           /\ r \in o /\ r \in conf.periodic /\ r \in conf.initial
  <1> DEFINE y == [x EXCEPT !.events = t]
  <1>1. x.events \in Timer
    BY DEF Reporter
  <1>2. t \in Timer /\ Pending(x.events) >= 1
    BY <1>1, FiredShape
  <1>3. Pending(NoEvents) = 0
    BY DEF Pending, NoEvents
  <1>4. r \in conf.periodic /\ x.sinks = 0 /\ ~x.events.current
    BY <1>2, <1>3 DEF Sound
  <1>5. ~t.current /\ t.loose = x.events.loose - 1
    BY <1>1, <1>4, FiredShape
  <1>6. x.events.loose \in Nat /\ x.events.loose > 0
    <2>1. x.events.loose \in Nat
      BY <1>1 DEF Timer
    <2>2. Pending(x.events) = x.events.loose
      BY <1>1, <1>4, TimerOps
    <2> QED
      BY <1>2, <2>1, <2>2
  <1>7. r \in o
    BY <1>6 DEF Sound
  <1>10. r \in conf.initial
    BY <1>6 DEF Sound
  <1>8. /\ y \in Reporter
        /\ y.events = t
        /\ ~y.active /\ y.trigger = x.trigger /\ y.sinks = x.sinks
    BY <1>2 DEF Reporter
  <1> HIDE DEF y
  <1>9. Sound(r, y, n, o)
    BY <1>4, <1>5, <1>6, <1>7, <1>8 DEF Sound
  <1> QED
    BY <1>4, <1>7, <1>10, <1>8, <1>9 DEF y

(* A new id: an active trigger with InitialReport schedules one more event. *)
LEMMA NotifiedSound ==
    ASSUME NEW r, NEW x \in Reporter, NEW n \in Nat, NEW o, Sound(r, x, n, o), x.active,
           r \in conf.initial, r \in conf.periodic
    PROVE  /\ [x EXCEPT !.events = Schedule(x.events)] \in Reporter
           /\ Sound(r, [x EXCEPT !.events = Schedule(x.events)], n + 1, o)
  <1> DEFINE y == [x EXCEPT !.events = Schedule(x.events)]
  <1>1. x.events \in Timer
    BY DEF Reporter
  <1>2. x.events.current /\ x.sinks = 0 /\ x.events.loose <= n
    BY DEF Sound
  <1>3. /\ Schedule(x.events) \in Timer
        /\ Schedule(x.events).current
        /\ Schedule(x.events).loose = x.events.loose + 1
    BY <1>1, <1>2, TimerOps
  <1>4. /\ y \in Reporter
        /\ y.events = Schedule(x.events)
        /\ y.active /\ y.trigger = x.trigger /\ y.sinks = x.sinks
    BY <1>3 DEF Reporter
  <1>5. x.events.loose \in Nat
    BY <1>1 DEF Timer
  <1> HIDE DEF y
  <1>6. Sound(r, y, n + 1, o)
    BY <1>2, <1>3, <1>4, <1>5 DEF Sound
  <1> QED
    BY <1>4, <1>6 DEF y

(***************************************************************************)
(* The invariant is inductive.                                             *)
(***************************************************************************)
LEMMA InitInd == Init => Ind
  <1> SUFFICES ASSUME Init PROVE Ind
    OBVIOUS
  <1>1. Types
    <2>1. BagToSet(msgs) = {}
      BY DEF Init, EmptyBag, SetToBag, BagToSet
    <2> QED
      BY <2>1 DEF Init, Types, Reporter, Timer, NoEvents
  <1>2. Messages
    BY DEF Init, EmptyBag, SetToBag, BagToSet, Messages
  <1>3. ASSUME NEW r \in Reporters PROVE Sound(r, reporter[r], renewals, off)
    <2>1. /\ ~reporter[r].active /\ reporter[r].trigger
          /\ reporter[r].events = NoEvents /\ reporter[r].sinks = 0
      BY DEF Init
    <2>2. ~NoEvents.current /\ NoEvents.loose = 0
      BY DEF NoEvents
    <2> QED
      BY <2>1, <2>2 DEF Init, Sound
  <1>4. AbortOnlyAfterDeactivation
    BY DEF Init, AbortOnlyAfterDeactivation
  <1> QED
    BY <1>1, <1>2, <1>3, <1>4 DEF Ind

(* Steps that leave the reporters, the ids the node got and the            *)
(* deactivated components alone.                                           *)
LEMMA QuietReporters ==
    ASSUME Ind, UNCHANGED <<conf, reporter, renewals, off>>
    PROVE  /\ conf' \in Configs /\ renewals' \in Nat
           /\ reporter' \in [Reporters -> Reporter]
           /\ \A r \in Reporters : Sound(r, reporter[r], renewals, off)'
  BY DEF Ind, Types, Sound

(* The same for the messages.                                              *)
LEMMA QuietMessages ==
    ASSUME Ind, UNCHANGED <<msgs>>, off \subseteq off'
    PROVE  BagToSet(msgs') \in SUBSET Message /\ Messages'
  BY DEF Ind, Types, Messages

(* A message that is received and perhaps answered.                        *)
LEMMA ReceivedMessages ==
    ASSUME Ind, UNCHANGED <<off>>, NEW m, msgs' = msgs (-) One(m)
    PROVE  BagToSet(msgs') \in SUBSET Message /\ Messages'
  <1>1. BagToSet(msgs') \subseteq BagToSet(msgs)
    BY BagRemove
  <1> QED
    BY <1>1 DEF Ind, Types, Messages

(* A message that is added keeps what is known of the messages.            *)
LEMMA AddedMessages ==
    ASSUME Ind, off \subseteq off', NEW a \in Message,
           a.kind \in {"DeregRequest", "DeregResponse"} /\ a.id = 0 => 0 \in off',
           BagToSet(msgs') \subseteq BagToSet(msgs) \cup {a}
    PROVE  BagToSet(msgs') \in SUBSET Message /\ Messages'
  BY DEF Ind, Types, Messages

(* Steps of single reporters: r takes the state y, the others keep theirs. *)
LEMMA OneReporter ==
    ASSUME Ind, UNCHANGED <<conf, renewals>>, off \subseteq off',
           NEW r \in Reporters, NEW y \in Reporter, Sound(r, y, renewals, off'),
           reporter' = [reporter EXCEPT ![r] = y]
    PROVE  /\ conf' \in Configs /\ renewals' \in Nat
           /\ reporter' \in [Reporters -> Reporter]
           /\ \A s \in Reporters : Sound(s, reporter[s], renewals, off)'
  <1>1. /\ conf' \in Configs /\ renewals' \in Nat
        /\ reporter' \in [Reporters -> Reporter]
    BY DEF Ind, Types
  <1>2. ASSUME NEW s \in Reporters PROVE Sound(s, reporter'[s], renewals, off')
    <2>1. CASE s = r
      <3>1. reporter'[s] = y
        BY <2>1 DEF Ind, Types
      <3> QED
        BY <2>1, <3>1
    <2>2. CASE s # r
      <3>1. reporter'[s] = reporter[s] /\ reporter[s] \in Reporter
        BY <2>2 DEF Ind, Types
      <3>2. Sound(s, reporter[s], renewals, off) /\ renewals \in Nat
        BY DEF Ind, Types
      <3> QED
        BY <3>1, <3>2, SoundMonotone
    <2> QED
      BY <2>1, <2>2
  <1>3. ASSUME NEW s \in Reporters PROVE Sound(s, reporter[s], renewals, off)'
    BY <1>2 DEF Sound
  <1> QED
    BY <1>1, <1>3

(* Steps of all reporters: each takes a sound state.                       *)
LEMMA AllReporters ==
    ASSUME Ind, UNCHANGED conf, renewals' \in Nat,
           reporter' \in [Reporters -> Reporter],
           \A r \in Reporters : Sound(r, reporter'[r], renewals', off')
    PROVE  /\ conf' \in Configs
           /\ \A r \in Reporters : Sound(r, reporter[r], renewals, off)'
  BY DEF Ind, Types, Sound

(* Every step preserves the invariant.                                     *)
LEMMA NextInd == Ind /\ [Next]_vars => Ind'
  <1> SUFFICES ASSUME Ind, [Next]_vars PROVE Ind'
    OBVIOUS
  <1>0. /\ Types /\ Messages /\ AbortOnlyAfterDeactivation
        /\ \A r \in Reporters : Sound(r, reporter[r], renewals, off)
        /\ renewals \in Nat /\ reporter \in [Reporters -> Reporter]
    BY DEF Ind, Types
  <1>1. ASSUME NEW r \in Reporters, TriggerEvent(r) PROVE Ind'
    <2>1. PICK t \in Fired(reporter[r].events) :
             \/ /\ reporter[r].active
                /\ reporter' = [reporter EXCEPT ![r].events = Schedule(t)]
                /\ UNCHANGED fatal
             \/ /\ ~reporter[r].active
                /\ reporter' = [reporter EXCEPT ![r].events = t]
                /\ fatal' = "NULL reporter"
      BY <1>1 DEF TriggerEvent
    <2>2. UNCHANGED <<conf, e2NodeId, lastId, registered, msgs, renewals, off>>
      BY <1>1 DEF TriggerEvent, ricVars
    <2>3. BagToSet(msgs') \in SUBSET Message /\ Messages'
      BY <2>2, QuietMessages
    <2>4. reporter[r] \in Reporter /\ Sound(r, reporter[r], renewals, off)
      BY <1>0
    <2>5. CASE reporter[r].active
      <3> DEFINE y == [reporter[r] EXCEPT !.events = Schedule(t)]
      <3>1. reporter' = [reporter EXCEPT ![r] = y] /\ UNCHANGED fatal
        BY <2>1, <2>5
      <3>2. y \in Reporter /\ Sound(r, y, renewals, off')
        BY <1>0, <2>2, <2>4, <2>5, RescheduleSound
      <3> HIDE DEF y
      <3>3. /\ conf' \in Configs /\ renewals' \in Nat
            /\ reporter' \in [Reporters -> Reporter]
            /\ \A s \in Reporters : Sound(s, reporter[s], renewals, off)'
        BY <2>2, <3>1, <3>2, OneReporter
      <3>4. Types'
        BY <1>0, <2>2, <2>3, <3>3 DEF Types
      <3>5. AbortOnlyAfterDeactivation'
        BY <1>0, <2>2, <3>1 DEF AbortOnlyAfterDeactivation
      <3> QED
        BY <2>3, <3>3, <3>4, <3>5 DEF Ind
    <2>6. CASE ~reporter[r].active
      <3> DEFINE y == [reporter[r] EXCEPT !.events = t]
      <3>1. reporter' = [reporter EXCEPT ![r] = y] /\ fatal' = "NULL reporter"
        BY <2>1, <2>6
      <3>2. /\ y \in Reporter /\ Sound(r, y, renewals, off')
            /\ r \in off /\ r \in conf.periodic /\ r \in conf.initial
        BY <1>0, <2>2, <2>4, <2>6, LooseEventSound
      <3> HIDE DEF y
      <3>3. /\ conf' \in Configs /\ renewals' \in Nat
            /\ reporter' \in [Reporters -> Reporter]
            /\ \A s \in Reporters : Sound(s, reporter[s], renewals, off)'
        BY <2>2, <3>1, <3>2, OneReporter
      <3>4. Types'
        BY <1>0, <2>2, <2>3, <3>3 DEF Types
      <3>5. AbortOnlyAfterDeactivation'
        BY <2>2, <3>1, <3>2 DEF AbortOnlyAfterDeactivation
      <3> QED
        BY <2>3, <3>3, <3>4, <3>5 DEF Ind
    <2> QED
      BY <2>5, <2>6
  <1>2. ASSUME NEW r \in Reporters, CallActivateReporter(r) PROVE Ind'
    <2> DEFINE y == ActivateReporter(r, reporter[r])
    <2>1. /\ reporter' = [reporter EXCEPT ![r] = y]
          /\ UNCHANGED <<conf, e2NodeId, lastId, registered, msgs, renewals, fatal>>
          /\ SwitchOff
      BY <1>2 DEF CallActivateReporter, ricVars, nodeVars
    <2>2. reporter[r] \in Reporter /\ Sound(r, reporter[r], renewals, off)
      BY <1>0
    <2>3. y \in Reporter
      BY <1>0, <2>2, ActivateSound
    <2>4. reporter'[r] = y
      BY <1>0, <2>1
    <2>5. off \subseteq off' /\ (reporter[r].active /\ ~y.active => r \in off')
      BY <2>1, <2>4 DEF SwitchOff
    <2>6. Sound(r, y, renewals, off')
      BY <1>0, <2>2, <2>5, ActivateSound
    <2> HIDE DEF y
    <2>7. /\ conf' \in Configs /\ renewals' \in Nat
          /\ reporter' \in [Reporters -> Reporter]
          /\ \A s \in Reporters : Sound(s, reporter[s], renewals, off)'
      BY <2>1, <2>3, <2>5, <2>6, OneReporter
    <2>8. BagToSet(msgs') \in SUBSET Message /\ Messages'
      BY <2>1, <2>5, QuietMessages
    <2>9. AbortOnlyAfterDeactivation'
      BY <1>0, <2>1, <2>5 DEF AbortOnlyAfterDeactivation
    <2>10. Types'
      BY <1>0, <2>1, <2>7, <2>8 DEF Types
    <2> QED
      BY <2>7, <2>8, <2>9, <2>10 DEF Ind
  <1>3. ASSUME NEW r \in Reporters, CallDeactivateReporter(r) PROVE Ind'
    <2> DEFINE y == DeactivateReporter(r, reporter[r])
    <2>1. /\ reporter' = [reporter EXCEPT ![r] = y]
          /\ UNCHANGED <<conf, e2NodeId, lastId, registered, msgs, renewals, fatal>>
          /\ SwitchOff
      BY <1>3 DEF CallDeactivateReporter, ricVars, nodeVars
    <2>2. reporter[r] \in Reporter /\ Sound(r, reporter[r], renewals, off)
      BY <1>0
    <2>3. y \in Reporter
      BY <1>0, <2>2, DeactivateSound
    <2>4. reporter'[r] = y
      BY <1>0, <2>1
    <2>5. off \subseteq off' /\ (reporter[r].active /\ ~y.active => r \in off')
      BY <2>1, <2>4 DEF SwitchOff
    <2>6. Sound(r, y, renewals, off')
      BY <1>0, <2>2, <2>5, DeactivateSound
    <2> HIDE DEF y
    <2>7. /\ conf' \in Configs /\ renewals' \in Nat
          /\ reporter' \in [Reporters -> Reporter]
          /\ \A s \in Reporters : Sound(s, reporter[s], renewals, off)'
      BY <2>1, <2>3, <2>5, <2>6, OneReporter
    <2>8. BagToSet(msgs') \in SUBSET Message /\ Messages'
      BY <2>1, <2>5, QuietMessages
    <2>9. AbortOnlyAfterDeactivation'
      BY <1>0, <2>1, <2>5 DEF AbortOnlyAfterDeactivation
    <2>10. Types'
      BY <1>0, <2>1, <2>7, <2>8 DEF Types
    <2> QED
      BY <2>7, <2>8, <2>9, <2>10 DEF Ind
  <1>4. ASSUME NEW r \in Reporters, SetTrigger(r) PROVE Ind'
    <2> DEFINE y == [reporter[r] EXCEPT !.trigger = TRUE]
    <2>1. /\ reporter' = [reporter EXCEPT ![r] = y]
          /\ UNCHANGED <<conf, e2NodeId, lastId, registered, msgs, renewals, fatal, off>>
      BY <1>4 DEF SetTrigger, ricVars, nodeVars
    <2>2. reporter[r] \in Reporter /\ Sound(r, reporter[r], renewals, off)
      BY <1>0
    <2>3. /\ y \in Reporter
          /\ y.active = reporter[r].active /\ y.trigger
          /\ y.events = reporter[r].events /\ y.sinks = reporter[r].sinks
      BY <2>2 DEF Reporter
    <2> HIDE DEF y
    <2>4. Sound(r, y, renewals, off')
      BY <2>1, <2>2, <2>3 DEF Sound
    <2>5. /\ conf' \in Configs /\ renewals' \in Nat
          /\ reporter' \in [Reporters -> Reporter]
          /\ \A s \in Reporters : Sound(s, reporter[s], renewals, off)'
      BY <2>1, <2>3, <2>4, OneReporter
    <2>6. BagToSet(msgs') \in SUBSET Message /\ Messages'
      BY <2>1, QuietMessages
    <2>7. AbortOnlyAfterDeactivation'
      BY <1>0, <2>1 DEF AbortOnlyAfterDeactivation
    <2>8. Types'
      BY <1>0, <2>1, <2>5, <2>6 DEF Types
    <2> QED
      BY <2>5, <2>6, <2>7, <2>8 DEF Ind
  <1>5. ASSUME UNCHANGED <<conf, e2NodeId, lastId, registered, msgs, reporter, renewals, off,
                           fatal>>
        PROVE  Ind'
    <2>1. BagToSet(msgs') \in SUBSET Message /\ Messages'
      BY <1>5, QuietMessages
    <2>2. /\ conf' \in Configs /\ renewals' \in Nat
          /\ reporter' \in [Reporters -> Reporter]
          /\ \A r \in Reporters : Sound(r, reporter[r], renewals, off)'
      BY <1>5, QuietReporters
    <2>3. Types' /\ AbortOnlyAfterDeactivation'
      BY <1>0, <1>5, <2>1, <2>2 DEF Types, AbortOnlyAfterDeactivation
    <2> QED
      BY <2>1, <2>2, <2>3 DEF Ind
  <1>6. CASE Activate
    <2> DEFINE y(r) == ActivateReporter(r, reporter[r])
    <2>1. /\ reporter' = [r \in Reporters |-> y(r)]
          /\ UNCHANGED <<conf, e2NodeId, lastId, registered, renewals, fatal>>
          /\ SwitchOff
      BY <1>6 DEF Activate, ricVars
    <2>2. off \subseteq off'
      BY <2>1 DEF SwitchOff
    <2>3. ASSUME NEW r \in Reporters
          PROVE  y(r) \in Reporter /\ Sound(r, y(r), renewals, off')
      <3>1. reporter[r] \in Reporter /\ Sound(r, reporter[r], renewals, off)
        BY <1>0
      <3>2. reporter[r].active /\ ~y(r).active => r \in off'
        BY <2>1 DEF SwitchOff
      <3> QED
        BY <1>0, <2>2, <3>1, <3>2, ActivateSound
    <2> HIDE DEF y
    <2>4. /\ renewals' \in Nat
          /\ reporter' \in [Reporters -> Reporter]
          /\ \A r \in Reporters : Sound(r, reporter'[r], renewals', off')
      BY <1>0, <2>1, <2>3
    <2>5. /\ conf' \in Configs
          /\ \A r \in Reporters : Sound(r, reporter[r], renewals, off)'
      BY <2>1, <2>4, AllReporters
    <2>6. BagToSet(msgs') \in SUBSET Message /\ Messages'
      <3> DEFINE a == [kind |-> "RegRequest", id |-> e2NodeId]
      <3>1. BagToSet(msgs') = BagToSet(msgs) \cup {a}
        BY <1>6, BagAdd DEF Activate
      <3>2. a \in Message /\ a.kind \notin {"DeregRequest", "DeregResponse"}
        BY <1>0 DEF Types, Message
      <3> HIDE DEF a
      <3> QED
        BY <2>2, <3>1, <3>2, AddedMessages
    <2>7. AbortOnlyAfterDeactivation'
      BY <1>0, <2>1, <2>2 DEF AbortOnlyAfterDeactivation
    <2>8. Types'
      BY <1>0, <2>1, <2>4, <2>5, <2>6 DEF Types
    <2> QED
      BY <2>5, <2>6, <2>7, <2>8 DEF Ind
  <1>7. CASE Deactivate
    <2> DEFINE y(r) == DeactivateReporter(r, reporter[r])
    <2>1. /\ reporter' = [r \in Reporters |-> y(r)]
          /\ UNCHANGED <<conf, e2NodeId, lastId, registered, renewals, fatal>>
          /\ SwitchOff
      BY <1>7 DEF Deactivate, ricVars
    <2>2. off \subseteq off'
      BY <2>1 DEF SwitchOff
    <2>3. ASSUME NEW r \in Reporters
          PROVE  y(r) \in Reporter /\ Sound(r, y(r), renewals, off')
      <3>1. reporter[r] \in Reporter /\ Sound(r, reporter[r], renewals, off)
        BY <1>0
      <3>2. reporter[r].active /\ ~y(r).active => r \in off'
        BY <2>1 DEF SwitchOff
      <3> QED
        BY <1>0, <2>2, <3>1, <3>2, DeactivateSound
    <2> HIDE DEF y
    <2>4. /\ renewals' \in Nat
          /\ reporter' \in [Reporters -> Reporter]
          /\ \A r \in Reporters : Sound(r, reporter'[r], renewals', off')
      BY <1>0, <2>1, <2>3
    <2>5. /\ conf' \in Configs
          /\ \A r \in Reporters : Sound(r, reporter[r], renewals, off)'
      BY <2>1, <2>4, AllReporters
    <2>6. BagToSet(msgs') \in SUBSET Message /\ Messages'
      <3> DEFINE a == [kind |-> "DeregRequest", id |-> e2NodeId]
      <3>1. BagToSet(msgs') = BagToSet(msgs) \cup {a}
        BY <1>7, BagAdd DEF Deactivate
      <3>2. a \in Message
        BY <1>0 DEF Types, Message
      <3>3. 0 \in off'
        BY <1>7 DEF Deactivate, SwitchOff
      <3> HIDE DEF a
      <3> QED
        BY <2>2, <3>1, <3>2, <3>3, AddedMessages
    <2>7. AbortOnlyAfterDeactivation'
      BY <1>0, <2>1, <2>2 DEF AbortOnlyAfterDeactivation
    <2>8. Types'
      BY <1>0, <2>1, <2>4, <2>5, <2>6 DEF Types
    <2> QED
      BY <2>5, <2>6, <2>7, <2>8 DEF Ind
  <1>8. CASE Register
    <2> DEFINE a == [kind |-> "RegRequest", id |-> e2NodeId]
    <2>1. /\ UNCHANGED <<conf, e2NodeId, lastId, registered, reporter, renewals, off, fatal>>
          /\ BagToSet(msgs') = BagToSet(msgs) \cup {a}
      BY <1>8, BagAdd DEF Register, nodeVars, ricVars, history
    <2>2. a \in Message /\ a.kind \notin {"DeregRequest", "DeregResponse"}
      BY <1>0 DEF Types, Message
    <2> HIDE DEF a
    <2>3. BagToSet(msgs') \in SUBSET Message /\ Messages'
      BY <2>1, <2>2, AddedMessages
    <2>4. /\ conf' \in Configs /\ renewals' \in Nat
          /\ reporter' \in [Reporters -> Reporter]
          /\ \A r \in Reporters : Sound(r, reporter[r], renewals, off)'
      BY <2>1, QuietReporters
    <2>5. Types' /\ AbortOnlyAfterDeactivation'
      BY <1>0, <2>1, <2>3, <2>4 DEF Types, AbortOnlyAfterDeactivation
    <2> QED
      BY <2>3, <2>4, <2>5 DEF Ind
  <1>9. ASSUME NEW m \in BagToSet(msgs), ReceiveRegistrationResponse(m) PROVE Ind'
    <2>1. /\ UNCHANGED <<conf, lastId, registered, off>>
          /\ msgs' = msgs (-) One(m)
      BY <1>9 DEF ReceiveRegistrationResponse, ricVars
    <2>2. BagToSet(msgs') \in SUBSET Message /\ Messages'
      BY <2>1, ReceivedMessages
    <2>3. m.id \in Nat
      BY <1>0 DEF Types, Message
    <2>4. CASE UNCHANGED <<e2NodeId, renewals, reporter, fatal>>
      <3>1. /\ conf' \in Configs /\ renewals' \in Nat
            /\ reporter' \in [Reporters -> Reporter]
            /\ \A r \in Reporters : Sound(r, reporter[r], renewals, off)'
        BY <2>1, <2>4, QuietReporters
      <3>2. Types' /\ AbortOnlyAfterDeactivation'
        BY <1>0, <2>1, <2>2, <2>4, <3>1 DEF Types, AbortOnlyAfterDeactivation
      <3> QED
        BY <2>2, <3>1, <3>2 DEF Ind
    <2>5. CASE /\ \E r \in Reporters : ~reporter[r].trigger
               /\ fatal' = "NULL trigger"
               /\ UNCHANGED <<e2NodeId, renewals, reporter>>
      <3>1. /\ conf' \in Configs /\ renewals' \in Nat
            /\ reporter' \in [Reporters -> Reporter]
            /\ \A r \in Reporters : Sound(r, reporter[r], renewals, off)'
        BY <2>1, <2>5, QuietReporters
      <3>2. off \cap Reporters # {}
        BY <1>0, <2>5 DEF Sound
      <3>3. Types' /\ AbortOnlyAfterDeactivation'
        BY <1>0, <2>1, <2>2, <2>5, <3>1, <3>2 DEF Types, AbortOnlyAfterDeactivation
      <3> QED
        BY <2>2, <3>1, <3>3 DEF Ind
    <2>6. CASE /\ e2NodeId' = m.id /\ renewals' = renewals + 1 /\ UNCHANGED fatal
               /\ reporter' = [r \in Reporters |->
                     IF reporter[r].active /\ r \in conf.initial \cap conf.periodic
                       THEN [reporter[r] EXCEPT !.events = Schedule(@)]
                       ELSE reporter[r]]
      <3>1. ASSUME NEW r \in Reporters
            PROVE  reporter'[r] \in Reporter /\ Sound(r, reporter'[r], renewals', off')
        <4>1. reporter[r] \in Reporter /\ Sound(r, reporter[r], renewals, off)
          BY <1>0
        <4>2. renewals' \in Nat /\ renewals <= renewals' /\ off \subseteq off'
          BY <1>0, <2>1, <2>6
        <4>3. CASE reporter[r].active /\ r \in conf.initial \cap conf.periodic
          <5>1. reporter'[r] = [reporter[r] EXCEPT !.events = Schedule(reporter[r].events)]
            BY <2>6, <4>3
          <5> QED
            BY <1>0, <2>1, <2>6, <4>1, <4>3, <5>1, NotifiedSound
        <4>4. CASE ~(reporter[r].active /\ r \in conf.initial \cap conf.periodic)
          <5>1. reporter'[r] = reporter[r]
            BY <2>6, <4>4
          <5> QED
            BY <1>0, <4>1, <4>2, <5>1, SoundMonotone
        <4> QED
          BY <4>3, <4>4
      <3>2. renewals' \in Nat /\ reporter' \in [Reporters -> Reporter]
        <4>1. DOMAIN reporter' = Reporters /\ reporter' = [r \in Reporters |-> reporter'[r]]
          BY <2>6
        <4> QED
          BY <1>0, <2>6, <3>1, <4>1
      <3>3. /\ conf' \in Configs
            /\ \A r \in Reporters : Sound(r, reporter[r], renewals, off)'
        BY <2>1, <3>1, <3>2, AllReporters
      <3>4. Types' /\ AbortOnlyAfterDeactivation'
        BY <1>0, <2>1, <2>2, <2>3, <2>6, <3>2, <3>3 DEF Types, AbortOnlyAfterDeactivation
      <3> QED
        BY <2>2, <3>3, <3>4 DEF Ind
    <2> QED
      BY <1>9, <2>4, <2>5, <2>6 DEF ReceiveRegistrationResponse
  <1>10. ASSUME NEW m \in BagToSet(msgs), ReceiveDeregistrationResponse(m) PROVE Ind'
    <2>1. /\ UNCHANGED <<conf, lastId, registered, reporter, renewals, off>>
          /\ msgs' = msgs (-) One(m)
          /\ m.kind = "DeregResponse"
          /\ \/ e2NodeId' = 0 /\ UNCHANGED fatal
             \/ m.id = 0 /\ fatal' = "NULL terminator" /\ UNCHANGED e2NodeId
      BY <1>10 DEF ReceiveDeregistrationResponse, ricVars, history
    <2>2. BagToSet(msgs') \in SUBSET Message /\ Messages'
      BY <2>1, ReceivedMessages
    <2>3. m.id = 0 => 0 \in off
      BY <1>0, <2>1 DEF Messages
    <2>4. /\ conf' \in Configs /\ renewals' \in Nat
          /\ reporter' \in [Reporters -> Reporter]
          /\ \A r \in Reporters : Sound(r, reporter[r], renewals, off)'
      BY <2>1, QuietReporters
    <2>5. Types'
      <3>1. e2NodeId \in Nat /\ lastId \in Nat /\ registered \in SUBSET (Nat \ {0})
        BY <1>0 DEF Types
      <3>2. e2NodeId' = 0 \/ e2NodeId' = e2NodeId
        BY <2>1
      <3>3. e2NodeId' \in Nat
        BY <3>1, <3>2
      <3>4. lastId' \in Nat /\ registered' \in SUBSET (Nat \ {0})
        BY <2>1, <3>1
      <3> QED
        BY <2>2, <2>4, <3>3, <3>4 DEF Types
    <2>6. AbortOnlyAfterDeactivation'
      BY <1>0, <2>1, <2>3 DEF AbortOnlyAfterDeactivation
    <2> QED
      BY <2>2, <2>4, <2>5, <2>6 DEF Ind
  <1>11. ASSUME NEW m \in BagToSet(msgs), ReceiveRegistrationRequest(m) PROVE Ind'
    <2> DEFINE id == IF m.id = 0 THEN lastId + 1 ELSE m.id
               a == [kind |-> "RegResponse", id |-> id]
    <2>1. /\ UNCHANGED <<conf, e2NodeId, reporter, renewals, off, fatal>>
          /\ lastId' = IF m.id = 0 THEN id ELSE lastId
          /\ registered' = registered \cup {id}
          /\ msgs' = (msgs (-) One(m)) (+) One(a)
      BY <1>11 DEF ReceiveRegistrationRequest, nodeVars, history
    <2>2. id \in Nat \ {0}
      BY <1>0 DEF Types, Message
    <2>3. a \in Message /\ a.kind \notin {"DeregRequest", "DeregResponse"}
      BY <2>2 DEF Message
    <2> HIDE DEF a, id
    <2>4. BagToSet(msgs') \subseteq BagToSet(msgs) \cup {a}
      BY <2>1, BagAdd, BagRemove
    <2>5. BagToSet(msgs') \in SUBSET Message /\ Messages'
      BY <2>1, <2>3, <2>4, AddedMessages
    <2>6. /\ conf' \in Configs /\ renewals' \in Nat
          /\ reporter' \in [Reporters -> Reporter]
          /\ \A r \in Reporters : Sound(r, reporter[r], renewals, off)'
      BY <2>1, QuietReporters
    <2>7. Types' /\ AbortOnlyAfterDeactivation'
      BY <1>0, <2>1, <2>2, <2>5, <2>6 DEF Types, AbortOnlyAfterDeactivation
    <2> QED
      BY <2>5, <2>6, <2>7 DEF Ind
  <1>12. ASSUME NEW m \in BagToSet(msgs), ReceiveDeregistrationRequest(m) PROVE Ind'
    <2> DEFINE a == [kind |-> "DeregResponse", id |-> m.id]
    <2>1. /\ UNCHANGED <<conf, e2NodeId, lastId, reporter, renewals, off, fatal>>
          /\ registered' = registered \ {m.id}
          /\ msgs' = (msgs (-) One(m)) (+) One(a)
          /\ m.kind = "DeregRequest"
      BY <1>12 DEF ReceiveDeregistrationRequest, nodeVars, history
    <2>2. m.id \in Nat
      BY <1>0 DEF Types, Message
    <2>3. m.id = 0 => 0 \in off
      BY <1>0, <2>1 DEF Messages
    <2>4. a \in Message /\ (a.id = 0 => 0 \in off')
      BY <2>1, <2>2, <2>3 DEF Message
    <2> HIDE DEF a
    <2>5. BagToSet(msgs') \subseteq BagToSet(msgs) \cup {a}
      BY <2>1, BagAdd, BagRemove
    <2>6. BagToSet(msgs') \in SUBSET Message /\ Messages'
      BY <2>1, <2>4, <2>5, AddedMessages
    <2>7. /\ conf' \in Configs /\ renewals' \in Nat
          /\ reporter' \in [Reporters -> Reporter]
          /\ \A r \in Reporters : Sound(r, reporter[r], renewals, off)'
      BY <2>1, QuietReporters
    <2>8. Types' /\ AbortOnlyAfterDeactivation'
      BY <1>0, <2>1, <2>6, <2>7 DEF Types, AbortOnlyAfterDeactivation
    <2> QED
      BY <2>6, <2>7, <2>8 DEF Ind
  <1>13. ASSUME NEW id \in registered, CheckForInactivity(id) PROVE Ind'
    <2> DEFINE a == [kind |-> "DeregResponse", id |-> id]
    <2>1. /\ UNCHANGED <<conf, e2NodeId, lastId, reporter, renewals, off, fatal>>
          /\ registered' = registered \ {id}
          /\ msgs' = msgs (+) One(a)
      BY <1>13 DEF CheckForInactivity, nodeVars
    <2>2. a \in Message /\ a.id # 0
      BY <1>0, <1>13 DEF Types, Message
    <2> HIDE DEF a
    <2>3. BagToSet(msgs') = BagToSet(msgs) \cup {a}
      BY <2>1, BagAdd
    <2>4. BagToSet(msgs') \in SUBSET Message /\ Messages'
      BY <2>1, <2>2, <2>3, AddedMessages
    <2>5. /\ conf' \in Configs /\ renewals' \in Nat
          /\ reporter' \in [Reporters -> Reporter]
          /\ \A r \in Reporters : Sound(r, reporter[r], renewals, off)'
      BY <2>1, QuietReporters
    <2>6. Types' /\ AbortOnlyAfterDeactivation'
      BY <1>0, <2>1, <2>4, <2>5 DEF Types, AbortOnlyAfterDeactivation
    <2> QED
      BY <2>4, <2>5, <2>6 DEF Ind
  <1>14. ASSUME NEW r \in Reporters, TraceSink(r) PROVE Ind'
    BY <1>5, <1>14 DEF TraceSink, ricVars
  <1>15. CASE AddTx \/ AddRx \/ LosePacket
    BY <1>5, <1>15 DEF AddTx, AddRx, LosePacket, nodeVars, ricVars, history
  <1>16. CASE DoSendReports
    BY <1>5, <1>16 DEF DoSendReports, ricVars, history
  <1>17. ASSUME NEW x \in BagToSet(flying), ReceiveReport(x) PROVE Ind'
    BY <1>5, <1>17 DEF ReceiveReport, nodeVars
  <1>18. CASE UNCHANGED vars
    BY <1>5, <1>18 DEF vars, nodeVars, ricVars, history
  <1> QED
    BY <1>1, <1>2, <1>3, <1>4, <1>6, <1>7, <1>8, <1>9, <1>10, <1>11, <1>12, <1>13, <1>14, <1>15,
       <1>16, <1>17, <1>18 DEF Next, Ended

(***************************************************************************)
(* The theorems.                                                           *)
(***************************************************************************)

(* TriggerChains is part of what the invariant says.                       *)
LEMMA IndChains == Ind => TriggerChains
  <1> SUFFICES ASSUME Ind, NEW r \in Reporters
               PROVE  LET n == Pending(reporter[r].events) + reporter[r].sinks IN
                      /\ reporter[r].active => n >= 1
                      /\ r \notin conf.periodic \cap conf.initial
                         => n <= (IF reporter[r].active THEN 1 ELSE 0)
                      /\ n <= 1 + renewals
    BY DEF TriggerChains
  <1> DEFINE x == reporter[r]
  <1>1. Sound(r, x, renewals, off) /\ x \in Reporter /\ renewals \in Nat
    BY DEF Ind, Types
  <1>2. x.events \in Timer
    BY <1>1 DEF Reporter
  <1>3. x.events.loose \in Nat
    BY <1>2 DEF Timer
  <1> HIDE DEF x
  <1>4. CASE r \in conf.periodic
    <2>1. /\ x.sinks = 0
          /\ x.active => Pending(x.events) = x.events.loose + 1
          /\ ~x.active => Pending(x.events) = x.events.loose
      <3>1. x.sinks = 0 /\ (x.events.current <=> x.active)
        BY <1>1, <1>4 DEF Sound
      <3>2. /\ x.events.current => Pending(x.events) = x.events.loose + 1
            /\ ~x.events.current => Pending(x.events) = x.events.loose
        BY <1>2, TimerOps
      <3> QED
        BY <3>1, <3>2, Zenon
    <2>2. /\ x.events.loose <= renewals
          /\ r \notin conf.initial => x.events.loose <= 0
      <3>1. x.events.loose <= (IF r \in conf.initial THEN renewals ELSE 0)
        BY <1>1 DEF Sound
      <3>2. renewals \in Nat
        BY <1>1
      <3> QED
        BY <1>3, <3>1, <3>2
    <2> QED
      BY <1>1, <1>3, <1>4, <2>1, <2>2 DEF x
  <1>5. CASE r \notin conf.periodic
    <2>1. x.events = NoEvents /\ x.sinks = (IF x.active THEN 1 ELSE 0)
      BY <1>1, <1>5 DEF Sound
    <2>2. Pending(x.events) = 0
      BY <2>1 DEF Pending, NoEvents
    <2> QED
      BY <1>1, <1>5, <2>1, <2>2 DEF x
  <1> QED
    BY <1>4, <1>5

(* For any number of reporters with any triggers, activated, deactivated   *)
(* and notified in any order: an active reporter is always triggered,      *)
(* triggers without InitialReport at their own rate, the others with at    *)
(* most one more chain of events for each id the node got.                 *)
THEOREM ChainsBounded == Spec => []TriggerChains
  <1>1. Spec => []Ind
    BY InitInd, NextInd, PTL DEF Spec
  <1> QED
    BY <1>1, IndChains, PTL

(* The reporting chain aborts the program only after a component was       *)
(* deactivated, each abort for its own reason.                             *)
THEOREM AbortCauses == Spec => []AbortOnlyAfterDeactivation
  <1>1. Spec => []Ind
    BY InitInd, NextInd, PTL DEF Spec
  <1>2. Ind => AbortOnlyAfterDeactivation
    BY DEF Ind
  <1> QED
    BY <1>1, <1>2, PTL


-----------------------------------------------------------------------------
(***************************************************************************)
(* Type correctness.                                                       *)
(***************************************************************************)

\* The part of TypeOK that Types leaves out.
RestTyped ==
    /\ active \in BOOLEAN
    /\ reports \in Seq(Report)
    /\ registration \in BOOLEAN
    /\ sends \in Timer
    /\ IsABag(msgs)
    /\ BagOf(Report, flying) /\ BagOf(Report, saved) /\ BagOf(Report, gone)
    /\ packets \in [tx : Nat, rx : Nat, air : Nat]
    /\ fatal \in {"no", "NULL reporter", "NULL trigger", "NULL terminator"}
    /\ off \in SUBSET (Reporters \cup {0})
    /\ ops \in Nat /\ checks \in Nat /\ made \in Nat /\ lost \in Nat /\ reported \in Nat

TypeInv == Ind /\ RestTyped

(* A sequence of results of PerformReport.                                 *)
Performed(s, id) == [i \in DOMAIN s |-> [from |-> s[i], id |-> id, no |-> made + i]]

(* Bags stay bags.                                                         *)
LEMMA BagPlus ==
    ASSUME NEW S, NEW B, BagOf(S, B), NEW T \in SUBSET S
    PROVE  /\ BagOf(S, B (+) SetToBag(T))
           /\ BagToSet(B (+) SetToBag(T)) = BagToSet(B) \cup T
  BY DEF BagOf, IsABag, BagToSet, (+), SetToBag

(* Taking a report or a message out of a bag.                              *)
LEMMA BagMinus ==
    ASSUME NEW S, NEW B, BagOf(S, B), NEW x
    PROVE  BagOf(S, B (-) One(x))
  BY DEF BagOf, IsABag, BagToSet, (-), One, SetToBag

(* Sending and receiving a message.                                        *)
LEMMA BagMsgs ==
    ASSUME NEW B, IsABag(B), NEW x
    PROVE  IsABag(B (-) One(x)) /\ IsABag(B (+) One(x))
  BY DEF IsABag, (-), (+), One, SetToBag

(* What the reports of some reporters are.                                 *)
LEMMA PerformedShape ==
    ASSUME TypeInv, NEW n \in Nat, NEW s \in [1..n -> Reporters], NEW id \in Nat
    PROVE  /\ Len(s) = n /\ DOMAIN s = 1..n
           /\ Performed(s, id) \in [1..n -> Report]
           /\ \A i \in 1..n : Performed(s, id)[i].no = made + i
           /\ {Performed(s, id)[i] : i \in DOMAIN s} \in SUBSET Report
           /\ reports \o Performed(s, id) \in Seq(Report)
           /\ Len(reports \o Performed(s, id)) = Len(reports) + n
           /\ \A i \in 1..Len(reports) : (reports \o Performed(s, id))[i] = reports[i]
           /\ \A i \in 1..n : (reports \o Performed(s, id))[Len(reports) + i] = Performed(s, id)[i]
  <1> DEFINE new == Performed(s, id)
  <1>1. reports \in Seq(Report) /\ made \in Nat
    BY DEF TypeInv, RestTyped
  <1>2. Len(s) = n /\ DOMAIN s = 1..n
    OBVIOUS
  <1>3. new \in [1..n -> Report] /\ \A i \in 1..n : new[i].no = made + i
    BY <1>1, <1>2 DEF Performed, Report
  <1> HIDE DEF new
  <1>4. {new[i] : i \in 1..n} \in SUBSET Report
    BY <1>3
  <1>5. /\ reports \o new \in Seq(Report) /\ Len(reports \o new) = Len(reports) + n
        /\ \A i \in 1..Len(reports) : (reports \o new)[i] = reports[i]
        /\ \A i \in 1..n : (reports \o new)[Len(reports) + i] = new[i]
    BY <1>1, <1>3
  <1> QED
    BY <1>2, <1>3, <1>4, <1>5 DEF new

(* What PerformReports does, with those reports.                           *)
LEMMA PerformShape ==
    ASSUME TypeInv, NEW n \in Nat, NEW s \in [1..n -> Reporters], NEW id \in Nat,
           PerformReports(s, id)
    PROVE  /\ made' = made + n
           /\ reports' = IF active THEN reports \o Performed(s, id) ELSE reports
           /\ gone' = IF active THEN gone
                      ELSE gone (+) SetToBag({Performed(s, id)[i] : i \in DOMAIN s})
           /\ lost' = lost
           /\ \/ reported' = reported + Missing(packets) /\ packets' = Reset(packets)
              \/ reported' = reported /\ packets' = packets
  <1>1. Len(s) = n
    BY PerformedShape
  <1> DEFINE new == [i \in DOMAIN s |-> [from |-> s[i], id |-> id, no |-> made + i]]
  <1>2. /\ made' = made + Len(s)
        /\ reports' = IF active THEN reports \o new ELSE reports
        /\ gone' = IF active THEN gone ELSE gone (+) SetToBag({new[i] : i \in DOMAIN s})
        /\ lost' = lost
        /\ \/ reported' = reported + Missing(packets) /\ packets' = Reset(packets)
           \/ reported' = reported /\ packets' = packets
    BY Zenon DEF PerformReports
  <1>3. new = Performed(s, id)
    BY DEF Performed
  <1> HIDE DEF new
  <1> QED
    BY <1>1, <1>2, <1>3

(* The counters of OranReporterAppLoss.                                    *)
LEMMA PacketShape ==
    ASSUME TypeInv
    PROVE  /\ packets.tx \in Nat /\ packets.rx \in Nat /\ packets.air \in Nat
           /\ Missing(packets) \in Nat /\ packets.tx - packets.rx <= Missing(packets)
           /\ Reset(packets) \in [tx : Nat, rx : Nat, air : Nat]
           /\ Reset(packets).tx = 0 /\ Reset(packets).rx = 0
           /\ Reset(packets).air = packets.air
  <1>1. packets \in [tx : Nat, rx : Nat, air : Nat]
    BY DEF TypeInv, RestTyped
  <1>2. packets.tx \in Nat /\ packets.rx \in Nat /\ packets.air \in Nat
    BY <1>1
  <1>3. Missing(packets) \in Nat /\ packets.tx - packets.rx <= Missing(packets)
    BY <1>2 DEF Missing
  <1>4. /\ Reset(packets) \in [tx : Nat, rx : Nat, air : Nat]
        /\ Reset(packets).tx = 0 /\ Reset(packets).rx = 0
        /\ Reset(packets).air = packets.air
    BY <1>1 DEF Reset
  <1> QED
    BY <1>2, <1>3, <1>4

(* The types after PerformReports.                                         *)
LEMMA PerformTyped ==
    ASSUME TypeInv, NEW n \in Nat, NEW s \in [1..n -> Reporters], NEW id \in Nat,
           PerformReports(s, id)
    PROVE  /\ reports' \in Seq(Report) /\ BagOf(Report, gone')
           /\ made' \in Nat /\ lost' \in Nat /\ reported' \in Nat
           /\ packets' \in [tx : Nat, rx : Nat, air : Nat]
  <1>1. /\ reports \in Seq(Report) /\ BagOf(Report, gone) /\ made \in Nat /\ lost \in Nat
        /\ reported \in Nat /\ packets \in [tx : Nat, rx : Nat, air : Nat]
    BY DEF TypeInv, RestTyped
  <1>2. /\ {Performed(s, id)[i] : i \in DOMAIN s} \in SUBSET Report
        /\ reports \o Performed(s, id) \in Seq(Report)
    BY PerformedShape
  <1>3. BagOf(Report, gone (+) SetToBag({Performed(s, id)[i] : i \in DOMAIN s}))
    BY <1>1, <1>2, BagPlus
  <1> DEFINE N == {Performed(s, id)[i] : i \in DOMAIN s}
  <1> HIDE DEF N
  <1>a. /\ made' = made + n
        /\ reports' = IF active THEN reports \o Performed(s, id) ELSE reports
        /\ gone' = IF active THEN gone ELSE gone (+) SetToBag(N)
        /\ lost' = lost
        /\ \/ reported' = reported + Missing(packets) /\ packets' = Reset(packets)
           \/ reported' = reported /\ packets' = packets
    BY PerformShape DEF N
  <1>4. reports' \in Seq(Report) /\ BagOf(Report, gone') /\ made' \in Nat /\ lost' \in Nat
    BY <1>1, <1>2, <1>3, <1>a DEF N
  <1>5. reported' \in Nat /\ packets' \in [tx : Nat, rx : Nat, air : Nat]
    <2>1. Missing(packets) \in Nat /\ Reset(packets) \in [tx : Nat, rx : Nat, air : Nat]
      BY PacketShape
    <2> QED
      BY <1>1, <1>a, <2>1
  <1> QED
    BY <1>4, <1>5

(* Every step keeps the types.                                             *)
LEMMA TypeStep == TypeInv /\ [Next]_vars => TypeInv'
  <1> SUFFICES ASSUME TypeInv, [Next]_vars PROVE RestTyped'
    BY NextInd DEF TypeInv
  <1> USE DEF nodeVars, ricVars, lossVars, history
  <1>0. RestTyped /\ Ind /\ Types
    BY DEF TypeInv, Ind
  <1>a. ASSUME SwitchOff PROVE off' \in SUBSET (Reporters \cup {0})
    BY <1>0, <1>a DEF SwitchOff, RestTyped
  <1>b. ASSUME NEW m, msgs' = msgs (-) One(m) PROVE IsABag(msgs')
    BY <1>0, <1>b, BagMsgs DEF RestTyped
  <1>c. ASSUME NEW m, msgs' = msgs (+) One(m) PROVE IsABag(msgs')
    BY <1>0, <1>c, BagMsgs DEF RestTyped
  <1>d. ASSUME NEW m, NEW a, msgs' = (msgs (-) One(m)) (+) One(a) PROVE IsABag(msgs')
    BY <1>0, <1>d, BagMsgs DEF RestTyped
  <1>e. /\ UNCHANGED flying => BagOf(Report, flying)'
        /\ UNCHANGED saved => BagOf(Report, saved)'
        /\ UNCHANGED gone => BagOf(Report, gone)'
        /\ UNCHANGED msgs => IsABag(msgs)'
        /\ UNCHANGED reports => (reports \in Seq(Report))'
        /\ UNCHANGED sends => (sends \in Timer)'
    BY <1>0 DEF RestTyped
  <1>f. /\ reports \in Seq(Report) /\ packets \in [tx : Nat, rx : Nat, air : Nat]
        /\ ops \in Nat /\ checks \in Nat /\ lost \in Nat
    BY <1>0 DEF RestTyped
  <1>g. ops' = ops + 1 => ops' \in Nat
    BY <1>f
  <1>i. reports' = <<>> => (reports \in Seq(Report))'
    OBVIOUS
  <1>h. {reports[i] : i \in DOMAIN reports} \in SUBSET Report
    BY <1>f
  <1>1. ASSUME NEW r \in Reporters, TriggerEvent(r) PROVE RestTyped'
    <2>1. UNCHANGED <<active, registration, sends, msgs, flying, saved, off, ops, checks>>
      BY <1>1 DEF TriggerEvent
    <2>2. CASE PerformReports(<<r>>, e2NodeId) /\ UNCHANGED fatal
      <3>1. <<r>> \in [1..1 -> Reporters] /\ e2NodeId \in Nat
        BY <1>0 DEF Types
      <3>2. /\ reports' \in Seq(Report) /\ BagOf(Report, gone')
            /\ made' \in Nat /\ lost' \in Nat /\ reported' \in Nat
            /\ packets' \in [tx : Nat, rx : Nat, air : Nat]
        BY <2>2, <3>1, PerformTyped
      <3> QED
        BY <1>0, <1>e, <2>1, <2>2, <3>2 DEF RestTyped
    <2>3. CASE fatal' = "NULL reporter" /\ UNCHANGED <<reports, lossVars, made, gone>>
      BY <1>0, <1>e, <2>1, <2>3 DEF RestTyped
    <2> QED
      BY <1>1, <2>2, <2>3 DEF TriggerEvent
  <1>2. ASSUME NEW r \in Reporters, TraceSink(r) PROVE RestTyped'
    <2>1. UNCHANGED <<active, registration, sends, msgs, flying, saved, off, ops, checks, fatal>>
      BY <1>2 DEF TraceSink
    <2>2. reporter[r].sinks \in Nat /\ e2NodeId \in Nat
      BY <1>0 DEF Types, Reporter
    <2>3. [i \in 1..reporter[r].sinks |-> r] \in [1..reporter[r].sinks -> Reporters]
      OBVIOUS
    <2>4. PerformReports([i \in 1..reporter[r].sinks |-> r], e2NodeId)
      BY <1>2 DEF TraceSink
    <2>5. /\ reports' \in Seq(Report) /\ BagOf(Report, gone')
          /\ made' \in Nat /\ lost' \in Nat /\ reported' \in Nat
          /\ packets' \in [tx : Nat, rx : Nat, air : Nat]
      BY <2>2, <2>3, <2>4, PerformTyped
    <2> QED
      BY <1>0, <1>e, <2>1, <2>5 DEF RestTyped
  <1>3. ASSUME NEW r \in Reporters,
               CallActivateReporter(r) \/ CallDeactivateReporter(r) \/ SetTrigger(r)
        PROVE  RestTyped'
    <2>1. /\ ops' \in Nat /\ (SwitchOff \/ off' = off)
          /\ UNCHANGED <<nodeVars, msgs, flying, saved, gone, lossVars, fatal, checks, made>>
      BY <1>3, <1>g DEF CallActivateReporter, CallDeactivateReporter, SetTrigger, Call
    <2>2. off' \in SUBSET (Reporters \cup {0})
      BY <1>0, <1>a, <2>1 DEF RestTyped
    <2> QED
      BY <1>0, <1>e, <2>1, <2>2 DEF RestTyped
  <1>4. CASE AddTx \/ AddRx \/ LosePacket
    <2>1. UNCHANGED <<nodeVars, msgs, flying, saved, reported, fatal, history>>
      BY <1>4 DEF AddTx, AddRx, LosePacket
    <2>2. packets' \in [tx : Nat, rx : Nat, air : Nat] /\ lost' \in Nat
      <3>1. packets.tx \in Nat /\ packets.rx \in Nat /\ packets.air \in Nat /\ lost \in Nat
        BY <1>f, PacketShape
      <3>2. packets \in [tx : Nat, rx : Nat, air : Nat]
        BY <1>f
      <3>3. CASE AddTx
        <4>1. packets' = [packets EXCEPT !.tx = packets.tx + 1, !.air = packets.air + 1]
          BY <3>3 DEF AddTx
        <4>2. lost' = lost
          BY <3>3 DEF AddTx
        <4>3. packets.tx + 1 \in Nat /\ packets.air + 1 \in Nat
          BY <3>1
        <4> QED
          BY <3>1, <3>2, <4>1, <4>2, <4>3
      <3>4. CASE AddRx
        <4>1. packets' = [packets EXCEPT !.rx = packets.rx + 1, !.air = packets.air - 1]
          BY <3>4 DEF AddRx
        <4>2. lost' = lost /\ packets.air > 0
          BY <3>4 DEF AddRx
        <4>3. packets.rx + 1 \in Nat /\ packets.air - 1 \in Nat
          BY <3>1, <4>2
        <4> QED
          BY <3>1, <3>2, <4>1, <4>2, <4>3
      <3>5. CASE LosePacket
        BY <3>1, <3>2, <3>5 DEF LosePacket
      <3> QED
        BY <1>4, <3>3, <3>4, <3>5
    <2> QED
      BY <1>0, <1>e, <2>1, <2>2 DEF RestTyped
  <1>5. CASE Activate
    <2>1. /\ active' = TRUE /\ reports' = <<>> /\ registration' = TRUE /\ ops' \in Nat
          /\ gone' = gone (+) SetToBag({reports[i] : i \in DOMAIN reports})
          /\ msgs' = msgs (+) One([kind |-> "RegRequest", id |-> e2NodeId])
          /\ SwitchOff
          /\ UNCHANGED <<sends, flying, saved, lossVars, fatal, checks, made>>
      BY <1>5, <1>g DEF Activate, Call
    <2>2. {reports[i] : i \in DOMAIN reports} \in SUBSET Report
      BY <1>h
    <2>3. BagOf(Report, gone')
      BY <1>0, <1>e, <2>1, <2>2, BagPlus DEF RestTyped
    <2>4. IsABag(msgs') /\ off' \in SUBSET (Reporters \cup {0})
      BY <1>a, <1>c, <2>1
    <2> QED
      BY <1>0, <1>e, <1>i, <2>1, <2>3, <2>4 DEF RestTyped
  <1>6. CASE Deactivate
    <2>1. /\ active' = FALSE /\ registration' = FALSE /\ ops' \in Nat
          /\ sends' = Cancel(sends)
          /\ msgs' = msgs (+) One([kind |-> "DeregRequest", id |-> e2NodeId])
          /\ SwitchOff
          /\ UNCHANGED <<reports, flying, saved, gone, lossVars, fatal, checks, made>>
      BY <1>6, <1>g DEF Deactivate, Call
    <2>2. sends' \in Timer
      BY <1>0, <1>e, <2>1, TimerOps DEF RestTyped
    <2>3. IsABag(msgs') /\ off' \in SUBSET (Reporters \cup {0})
      BY <1>a, <1>c, <2>1
    <2> QED
      BY <1>0, <1>e, <2>1, <2>2, <2>3 DEF RestTyped
  <1>7. CASE Register
    <2>1. /\ msgs' = msgs (+) One([kind |-> "RegRequest", id |-> e2NodeId])
          /\ UNCHANGED <<nodeVars, flying, saved, lossVars, fatal, history>>
      BY <1>7 DEF Register
    <2>2. IsABag(msgs')
      BY <1>c, <2>1
    <2> QED
      BY <1>0, <1>e, <2>1, <2>2 DEF RestTyped
  <1>8. ASSUME NEW m \in BagToSet(msgs), ReceiveRegistrationResponse(m) PROVE RestTyped'
    <2>1. /\ UNCHANGED <<active, registration, flying, saved, ops, checks, off>>
          /\ msgs' = msgs (-) One(m)
      BY <1>8 DEF ReceiveRegistrationResponse
    <2>2. IsABag(msgs')
      BY <1>b, <2>1
    <2>3. sends' \in Timer
      <3>1. sends' = sends \/ sends' = Schedule(sends)
        BY <1>8 DEF ReceiveRegistrationResponse, AfterResponse
      <3> QED
        BY <1>0, <3>1, TimerOps DEF RestTyped
    <2>4. fatal' = fatal \/ fatal' = "NULL trigger"
      BY <1>8 DEF ReceiveRegistrationResponse
    <2>5. CASE \E s \in Notified : PerformReports(s, m.id)
      <3>1. PICK s \in Notified : PerformReports(s, m.id)
        BY <2>5
      <3> DEFINE N == {r \in conf.initial : reporter[r].active}
      <3>2. N \in SUBSET Reporters /\ m.id \in Nat
        BY <1>0, ReportingAssumption DEF Types, Config, Message
      <3>3. s \in [1..Cardinality(N) -> Reporters] /\ Cardinality(N) \in Nat
        BY <3>1, <3>2, ReportingAssumption, FS_Subset, FS_CardinalityType DEF Notified
      <3> HIDE DEF N
      <3>4. /\ reports' \in Seq(Report) /\ BagOf(Report, gone')
            /\ made' \in Nat /\ lost' \in Nat /\ reported' \in Nat
            /\ packets' \in [tx : Nat, rx : Nat, air : Nat]
        BY <3>1, <3>2, <3>3, PerformTyped
      <3> QED
        BY <1>0, <1>e, <2>1, <2>2, <2>3, <2>4, <3>4 DEF RestTyped
    <2>6. CASE UNCHANGED <<reports, lossVars, made, gone>>
      BY <1>0, <1>e, <2>1, <2>2, <2>3, <2>4, <2>6 DEF RestTyped
    <2> QED
      BY <1>8, <2>5, <2>6 DEF ReceiveRegistrationResponse
  <1>9. ASSUME NEW m \in BagToSet(msgs), ReceiveDeregistrationResponse(m) PROVE RestTyped'
    <2>1. /\ UNCHANGED <<active, reports, registration, sends, flying, saved, lossVars, history>>
          /\ msgs' = msgs (-) One(m)
          /\ fatal' = fatal \/ fatal' = "NULL terminator"
      BY <1>9 DEF ReceiveDeregistrationResponse
    <2>2. IsABag(msgs')
      BY <1>b, <2>1
    <2> QED
      BY <1>0, <1>e, <2>1, <2>2 DEF RestTyped
  <1>10. CASE DoSendReports
    <2>1. PICK t \in Fired(sends) :
             \/ /\ flying' = flying (+) SetToBag({reports[i] : i \in DOMAIN reports})
                /\ reports' = <<>>
                /\ sends' = Schedule(t)
             \/ sends' = t /\ UNCHANGED <<flying, reports>>
      BY <1>10 DEF DoSendReports, Sent
    <2>2. UNCHANGED <<active, registration, msgs, saved, lossVars, fatal, history>>
      BY <1>10 DEF DoSendReports
    <2>3. t \in Timer
      BY <1>0, FiredShape DEF RestTyped
    <2>4. sends' \in Timer
      BY <2>1, <2>3, TimerOps
    <2>5. {reports[i] : i \in DOMAIN reports} \in SUBSET Report
      BY <1>h
    <2>6. BagOf(Report, flying (+) SetToBag({reports[i] : i \in DOMAIN reports}))
      BY <1>0, <1>e, <2>5, BagPlus DEF RestTyped
    <2>7. BagOf(Report, flying') /\ reports' \in Seq(Report)
      BY <1>e, <1>i, <2>1, <2>6
    <2> QED
      BY <1>0, <1>e, <2>2, <2>4, <2>7 DEF RestTyped
  <1>11. ASSUME NEW m \in BagToSet(msgs), ReceiveRegistrationRequest(m) PROVE RestTyped'
    <2>1. /\ \E a : msgs' = (msgs (-) One(m)) (+) One(a)
          /\ UNCHANGED <<nodeVars, flying, saved, lossVars, fatal, history>>
      BY <1>11 DEF ReceiveRegistrationRequest
    <2>2. IsABag(msgs')
      BY <1>d, <2>1
    <2> QED
      BY <1>0, <1>e, <2>1, <2>2 DEF RestTyped
  <1>12. ASSUME NEW m \in BagToSet(msgs), ReceiveDeregistrationRequest(m) PROVE RestTyped'
    <2>1. /\ \E a : msgs' = (msgs (-) One(m)) (+) One(a)
          /\ UNCHANGED <<nodeVars, flying, saved, lossVars, fatal, history>>
      BY <1>12 DEF ReceiveDeregistrationRequest
    <2>2. IsABag(msgs')
      BY <1>d, <2>1
    <2> QED
      BY <1>0, <1>e, <2>1, <2>2 DEF RestTyped
  <1>13. ASSUME NEW id \in registered, CheckForInactivity(id) PROVE RestTyped'
    <2>1. /\ msgs' = msgs (+) One([kind |-> "DeregResponse", id |-> id]) /\ checks' \in Nat
          /\ UNCHANGED <<nodeVars, flying, saved, lossVars, fatal, ops, made, gone, off>>
      BY <1>f, <1>13 DEF CheckForInactivity
    <2>2. IsABag(msgs')
      BY <1>c, <2>1
    <2> QED
      BY <1>0, <1>e, <2>1, <2>2 DEF RestTyped
  <1>14. ASSUME NEW x \in BagToSet(flying), ReceiveReport(x) PROVE RestTyped'
    <2>1. /\ flying' = flying (-) One(x)
          /\ \/ saved' = saved (+) SetToBag({x}) /\ UNCHANGED gone
             \/ gone' = gone (+) SetToBag({x}) /\ UNCHANGED saved
          /\ UNCHANGED <<nodeVars, msgs, lossVars, fatal, ops, checks, made, off>>
      BY <1>14 DEF ReceiveReport, One
    <2>2. {x} \in SUBSET Report /\ BagOf(Report, flying')
      BY <1>0, <1>e, <2>1, BagMinus DEF RestTyped, BagOf
    <2>3. BagOf(Report, saved (+) SetToBag({x})) /\ BagOf(Report, gone (+) SetToBag({x}))
      BY <1>0, <1>e, <2>2, BagPlus DEF RestTyped
    <2>4. BagOf(Report, saved') /\ BagOf(Report, gone')
      BY <1>0, <1>e, <2>1, <2>3 DEF RestTyped
    <2> QED
      BY <1>0, <1>e, <2>1, <2>2, <2>4 DEF RestTyped
  <1>15. CASE UNCHANGED vars
    BY <1>0, <1>e, <1>15 DEF vars, RestTyped, BagOf, IsABag, BagToSet
  <1> QED
    BY <1>1, <1>2, <1>3, <1>4, <1>5, <1>6, <1>7, <1>8, <1>9, <1>10, <1>11, <1>12, <1>13, <1>14,
       <1>15 DEF Next, Ended

(* The initial state is typed.                                             *)
LEMMA InitTyped == Init => TypeInv
  <1> SUFFICES ASSUME Init PROVE RestTyped
    BY InitInd DEF TypeInv
  <1>1. IsABag(EmptyBag) /\ BagOf(Report, EmptyBag)
    BY DEF EmptyBag, IsABag, SetToBag, BagOf, BagToSet
  <1>2. NoEvents \in Timer /\ <<>> \in Seq(Report)
    BY DEF NoEvents, Timer
  <1> QED
    BY <1>1, <1>2 DEF Init, RestTyped

(* Every reachable state of the reporting chain is typed; in particular    *)
(* no timer ever has fewer events than were scheduled and not cancelled.   *)
THEOREM TypeCorrect == Spec => []TypeOK
  <1>1. TypeInv => TypeOK
    BY DEF TypeInv, Ind, Types, RestTyped, TypeOK, BagOf
  <1> QED
    BY <1>1, InitTyped, TypeStep, PTL DEF Spec

-----------------------------------------------------------------------------
(***************************************************************************)
(* OranReporterAppLoss does not understate the loss.                       *)
(***************************************************************************)

(* The reporters that a new id is notified to.                             *)
LEMMA NotifiedShape ==
    ASSUME TypeInv, NEW s \in Notified
    PROVE  \E n \in Nat : s \in [1..n -> Reporters]
  <1> DEFINE N == {r \in conf.initial : reporter[r].active}
  <1>1. N \in SUBSET Reporters
    BY ReportingAssumption DEF TypeInv, Ind, Types, Config
  <1>2. s \in [1..Cardinality(N) -> Reporters] /\ Cardinality(N) \in Nat
    BY <1>1, ReportingAssumption, FS_Subset, FS_CardinalityType DEF Notified
  <1> QED
    BY <1>2

(* A report accounts for at least what the counters, which it resets, are  *)
(* apart.                                                                  *)
LEMMA PerformLoss ==
    ASSUME TypeInv, LossNotUnderstated, NEW n \in Nat, NEW s \in [1..n -> Reporters],
           NEW id \in Nat, PerformReports(s, id)
    PROVE  LossNotUnderstated'
  <1>1. /\ packets.tx \in Nat /\ packets.rx \in Nat /\ packets.air \in Nat
        /\ Missing(packets) \in Nat /\ packets.tx - packets.rx <= Missing(packets)
        /\ Reset(packets).tx = 0 /\ Reset(packets).rx = 0
        /\ Reset(packets).air = packets.air
    BY PacketShape
  <1>2. lost \in Nat /\ reported \in Nat
    BY DEF TypeInv, RestTyped
  <1>3. /\ lost' = lost
        /\ \/ reported' = reported + Missing(packets) /\ packets' = Reset(packets)
           \/ reported' = reported /\ packets' = packets
    BY PerformShape
  <1> QED
    BY <1>1, <1>2, <1>3 DEF LossNotUnderstated

(* The steps of the application, and all others.                           *)
LEMMA LossStep == TypeInv /\ LossNotUnderstated /\ [Next]_vars => LossNotUnderstated'
  <1> SUFFICES ASSUME TypeInv, LossNotUnderstated, [Next]_vars PROVE LossNotUnderstated'
    OBVIOUS
  <1> USE DEF nodeVars, ricVars, lossVars, history
  <1>0. Types
    BY DEF TypeInv, Ind
  <1>a. UNCHANGED lossVars => LossNotUnderstated'
    BY DEF LossNotUnderstated
  <1>1. ASSUME NEW r \in Reporters, TriggerEvent(r) PROVE LossNotUnderstated'
    <2>1. <<r>> \in [1..1 -> Reporters] /\ e2NodeId \in Nat
      BY <1>0 DEF Types
    <2>2. CASE PerformReports(<<r>>, e2NodeId)
      BY <2>1, <2>2, PerformLoss
    <2> QED
      BY <1>1, <1>a, <2>2 DEF TriggerEvent
  <1>2. ASSUME NEW r \in Reporters, TraceSink(r) PROVE LossNotUnderstated'
    <2>1. reporter[r].sinks \in Nat /\ e2NodeId \in Nat
      BY <1>0 DEF Types, Reporter
    <2>2. [i \in 1..reporter[r].sinks |-> r] \in [1..reporter[r].sinks -> Reporters]
      OBVIOUS
    <2>3. PerformReports([i \in 1..reporter[r].sinks |-> r], e2NodeId)
      BY <1>2 DEF TraceSink
    <2> QED
      BY <2>1, <2>2, <2>3, PerformLoss
  <1>3. CASE AddTx \/ AddRx \/ LosePacket
    <2>1. /\ packets.tx \in Nat /\ packets.rx \in Nat /\ packets.air \in Nat
          /\ lost \in Nat /\ reported \in Nat
          /\ packets \in [tx : Nat, rx : Nat, air : Nat]
      BY PacketShape DEF TypeInv, RestTyped
    <2>2. CASE AddTx
      <3>1. packets'.tx = packets.tx + 1 /\ packets'.air = packets.air + 1 /\ packets'.rx = packets.rx
        BY <2>1, <2>2 DEF AddTx
      <3>2. lost' = lost /\ reported' = reported
        BY <2>2 DEF AddTx
      <3> QED
        BY <2>1, <3>1, <3>2 DEF LossNotUnderstated
    <2>3. CASE AddRx
      <3>1. packets'.rx = packets.rx + 1 /\ packets'.air = packets.air - 1 /\ packets'.tx = packets.tx
        BY <2>1, <2>3 DEF AddRx
      <3>2. lost' = lost /\ reported' = reported
        BY <2>3 DEF AddRx
      <3> QED
        BY <2>1, <3>1, <3>2 DEF LossNotUnderstated
    <2>4. CASE LosePacket
      <3>1. packets'.rx = packets.rx /\ packets'.air = packets.air - 1 /\ packets'.tx = packets.tx
        BY <2>1, <2>4 DEF LosePacket
      <3>2. lost' = lost + 1 /\ reported' = reported
        BY <2>4 DEF LosePacket
      <3> QED
        BY <2>1, <3>1, <3>2 DEF LossNotUnderstated
    <2> QED
      BY <1>3, <2>2, <2>3, <2>4
  <1>4. ASSUME NEW m \in BagToSet(msgs), ReceiveRegistrationResponse(m) PROVE LossNotUnderstated'
    <2>1. CASE \E s \in Notified : PerformReports(s, m.id)
      <3>1. PICK s \in Notified : PerformReports(s, m.id)
        BY <2>1
      <3>2. PICK n \in Nat : s \in [1..n -> Reporters]
        BY NotifiedShape
      <3>3. m.id \in Nat
        BY <1>0 DEF Types, Message
      <3> QED
        BY <3>1, <3>2, <3>3, PerformLoss
    <2> QED
      BY <1>4, <1>a, <2>1 DEF ReceiveRegistrationResponse
  <1>5. ASSUME NEW r \in Reporters,
               CallActivateReporter(r) \/ CallDeactivateReporter(r) \/ SetTrigger(r)
        PROVE  LossNotUnderstated'
    BY <1>5, <1>a DEF CallActivateReporter, CallDeactivateReporter, SetTrigger
  <1>6. CASE Activate \/ Deactivate \/ Register \/ DoSendReports
    BY <1>6, <1>a DEF Activate, Deactivate, Register, DoSendReports
  <1>7. ASSUME NEW m, ReceiveDeregistrationResponse(m) \/ ReceiveRegistrationRequest(m)
                      \/ ReceiveDeregistrationRequest(m)
        PROVE  LossNotUnderstated'
    BY <1>7, <1>a DEF ReceiveDeregistrationResponse, ReceiveRegistrationRequest,
                      ReceiveDeregistrationRequest
  <1>8. ASSUME NEW x, CheckForInactivity(x) \/ ReceiveReport(x) PROVE LossNotUnderstated'
    BY <1>8, <1>a DEF CheckForInactivity, ReceiveReport
  <1>9. CASE UNCHANGED vars
    BY <1>9, <1>a DEF vars
  <1> QED
    BY <1>1, <1>2, <1>3, <1>4, <1>5, <1>6, <1>7, <1>8, <1>9 DEF Next, Ended

(* However sending, receiving and losing of packets interleave with the    *)
(* reports, the losses reported so far, and those the counters hold, are   *)
(* no less than the packets that were lost or are still under way.         *)
THEOREM LossIsReported == Spec => []LossNotUnderstated
  <1>1. Init => LossNotUnderstated
    BY DEF Init, LossNotUnderstated
  <1> QED
    BY <1>1, InitTyped, TypeStep, LossStep, PTL DEF Spec

-----------------------------------------------------------------------------
(***************************************************************************)
(* Each report is in one place, once.                                      *)
(***************************************************************************)

\* No report is more than once in the bag.
Single(B) == IsABag(B) /\ \A x \in BagToSet(B) : B[x] = 1

\* The reports that wait at the node.
Waiting == {reports[i] : i \in DOMAIN reports}

\* The reports that were generated, numbered 1 to n, are divided between
\* those waiting, under way, saved and given up.
Parted(W, F, S, G, n) ==
    /\ W \cap F = {} /\ W \cap S = {} /\ W \cap G = {}
    /\ F \cap S = {} /\ F \cap G = {} /\ S \cap G = {}
    /\ \A x \in W \cup F \cup S \cup G : x.no \in 1..n
    /\ \A x, y \in W \cup F \cup S \cup G : x.no = y.no => x = y
    /\ \A k \in 1..n : \E x \in W \cup F \cup S \cup G : x.no = k

\* The reports of N have the n numbers that follow k.
Follow(N, k, n) ==
    /\ \A x \in N : \E i \in 1..n : x.no = k + i
    /\ \A x, y \in N : x.no = y.no => x = y
    /\ \A i \in 1..n : \E x \in N : x.no = k + i

Apart(W, N) == \A x \in W, y \in N : x.no # y.no

Distinct(q) == \A i, j \in DOMAIN q : q[i].no = q[j].no => i = j

OnceInv ==
    /\ Single(flying) /\ Single(saved) /\ Single(gone)
    /\ Distinct(reports)
    /\ Parted(Waiting, BagToSet(flying), BagToSet(saved), BagToSet(gone), made)

(* Reports that are not in a bag are added to it.                          *)
LEMMA AddSet ==
    ASSUME NEW B, Single(B), NEW T, T \cap BagToSet(B) = {}
    PROVE  /\ Single(B (+) SetToBag(T))
           /\ BagToSet(B (+) SetToBag(T)) = BagToSet(B) \cup T
  BY DEF Single, IsABag, BagToSet, (+), SetToBag

(* A report is taken out of a bag.                                         *)
LEMMA TakeOne ==
    ASSUME NEW B, Single(B), NEW x \in BagToSet(B)
    PROVE  /\ Single(B (-) One(x))
           /\ BagToSet(B (-) One(x)) = BagToSet(B) \ {x}
  BY DEF Single, IsABag, BagToSet, (-), One, SetToBag

(* New reports wait at the node, or are given up at once.                  *)
LEMMA PartedNew ==
    ASSUME NEW W, NEW F, NEW S, NEW G, NEW k \in Nat, Parted(W, F, S, G, k), NEW n \in Nat,
           NEW N, Follow(N, k, n)
    PROVE  /\ Parted(W \cup N, F, S, G, k + n) /\ Parted(W, F, S, G \cup N, k + n)
           /\ N \cap G = {}
           /\ Apart(W, N)
  <1> DEFINE A == W \cup F \cup S \cup G
  <1> USE DEF Follow
  <1>1. /\ W \cap F = {} /\ W \cap S = {} /\ W \cap G = {}
        /\ F \cap S = {} /\ F \cap G = {} /\ S \cap G = {}
        /\ \A x \in A : x.no \in 1..k
        /\ \A x, y \in A : x.no = y.no => x = y
        /\ \A j \in 1..k : \E x \in A : x.no = j
    BY Zenon DEF Parted
  <1>2. \A x \in A, y \in N : x.no # y.no
    BY <1>1
  <1>3. /\ N \cap W = {} /\ N \cap F = {} /\ N \cap S = {} /\ N \cap G = {}
    BY <1>2
  <1>4. \A x \in A \cup N : x.no \in 1..(k + n)
    BY <1>1
  <1>5. \A x, y \in A \cup N : x.no = y.no => x = y
    BY <1>1, <1>2
  <1>6. \A j \in 1..(k + n) : \E x \in A \cup N : x.no = j
    <2> TAKE j \in 1..(k + n)
    <2>1. CASE j <= k
      BY <1>1, <2>1
    <2>2. CASE j > k
      <3>1. j - k \in 1..n /\ k + (j - k) = j
        BY <2>2
      <3> QED
        BY <3>1
    <2> QED
      BY <2>1, <2>2
  <1>7. /\ (W \cup N) \cup F \cup S \cup G = A \cup N
        /\ W \cup F \cup S \cup (G \cup N) = A \cup N
    OBVIOUS
  <1> QED
    BY <1>1, <1>2, <1>3, <1>4, <1>5, <1>6, <1>7 DEF Parted, Apart

(* PerformReports keeps the reports apart.                                 *)
LEMMA PerformOnce ==
    ASSUME TypeInv, OnceInv, NEW n \in Nat, NEW s \in [1..n -> Reporters], NEW id \in Nat,
           PerformReports(s, id), UNCHANGED <<flying, saved>>
    PROVE  OnceInv'
  <1> DEFINE new == Performed(s, id)
             N == {new[i] : i \in DOMAIN s}
             A == Waiting \cup BagToSet(flying) \cup BagToSet(saved) \cup BagToSet(gone)
  <1>0. reports \in Seq(Report) /\ made \in Nat
    BY DEF TypeInv, RestTyped
  <1>1. made \in Nat /\ DOMAIN reports = 1..Len(reports) /\ Len(reports) \in Nat
    BY <1>0
  <1>2. /\ DOMAIN s = 1..n
        /\ \A i \in 1..n : new[i].no = made + i
        /\ reports \o new \in Seq(Report)
        /\ Len(reports \o new) = Len(reports) + n
        /\ \A i \in 1..Len(reports) : (reports \o new)[i] = reports[i]
        /\ \A i \in 1..n : (reports \o new)[Len(reports) + i] = new[i]
    <2>1. DOMAIN s = 1..n /\ \A i \in 1..n : new[i].no = made + i
      BY PerformedShape
    <2>2. reports \o new \in Seq(Report) /\ Len(reports \o new) = Len(reports) + n
      BY PerformedShape
    <2>3. \A i \in 1..Len(reports) : (reports \o new)[i] = reports[i]
      BY PerformedShape
    <2>4. \A i \in 1..n : (reports \o new)[Len(reports) + i] = new[i]
      BY PerformedShape
    <2> HIDE DEF new
    <2> QED
      BY <2>1, <2>2, <2>3, <2>4, Zenon
  <1>3. /\ made' = made + n
        /\ reports' = IF active THEN reports \o new ELSE reports
        /\ gone' = IF active THEN gone ELSE gone (+) SetToBag(N)
    BY PerformShape
  <1> HIDE DEF new
  <1>4. N = {new[i] : i \in 1..n}
    BY <1>2
  <1> HIDE DEF N
  <1>5. /\ Single(flying) /\ Single(saved) /\ Single(gone) /\ Distinct(reports)
        /\ Parted(Waiting, BagToSet(flying), BagToSet(saved), BagToSet(gone), made)
    BY DEF OnceInv
  <1>6. Follow(N, made, n)
    <2>1. \A i \in 1..n : new[i].no = made + i /\ new[i] \in N
      BY <1>2, <1>4
    <2>2. \A x \in N : \E i \in 1..n : x = new[i]
      BY <1>4
    <2>3. \A x \in N : \E i \in 1..n : x.no = made + i
      BY <2>1, <2>2, Zenon
    <2>4. ASSUME NEW x \in N, NEW y \in N, x.no = y.no PROVE x = y
      <3>1. PICK i \in 1..n : x = new[i]
        BY <2>2
      <3>2. PICK j \in 1..n : y = new[j]
        BY <2>2
      <3>3. made + i = made + j
        BY <2>1, <2>4, <3>1, <3>2, Zenon
      <3>4. i = j
        BY <1>1, <3>3
      <3> QED
        BY <3>1, <3>2, <3>4
    <2> QED
      BY <2>1, <2>3, <2>4, Zenon DEF Follow
  <1>7. /\ Parted(Waiting \cup N, BagToSet(flying), BagToSet(saved), BagToSet(gone), made + n)
        /\ Parted(Waiting, BagToSet(flying), BagToSet(saved), BagToSet(gone) \cup N, made + n)
        /\ N \cap BagToSet(gone) = {}
        /\ Apart(Waiting, N)
    <2> DEFINE F == BagToSet(flying)
               S == BagToSet(saved)
               G == BagToSet(gone)
    <2>1. Parted(Waiting, F, S, G, made)
      BY <1>5
    <2> HIDE DEF F, S, G
    <2>2. made \in Nat
      BY <1>1
    <2>3. Parted(Waiting \cup N, F, S, G, made + n)
      BY <1>6, <2>1, <2>2, PartedNew, Zenon
    <2>4. Parted(Waiting, F, S, G \cup N, made + n)
      BY <1>6, <2>1, <2>2, PartedNew, Zenon
    <2>5. N \cap G = {}
      BY <1>6, <2>1, <2>2, PartedNew, Zenon
    <2>6. Apart(Waiting, N)
      BY <1>6, <2>1, <2>2, PartedNew, Zenon
    <2> QED
      BY <2>3, <2>4, <2>5, <2>6, Zenon DEF F, S, G
  <1>a. BagToSet(flying)' = BagToSet(flying) /\ BagToSet(saved)' = BagToSet(saved)
    BY DEF BagToSet
  <1>b. Single(flying)' /\ Single(saved)'
    BY <1>5 DEF Single, IsABag, BagToSet
  <1>8. CASE active
    <2>1. made' = made + n /\ reports' = reports \o new /\ gone' = gone
      BY <1>3, <1>8
    <2>2. Waiting' = Waiting \cup N
      <3>1. DOMAIN reports' = 1..(Len(reports) + n)
        BY <1>1, <1>2, <2>1
      <3>2. ASSUME NEW i \in 1..(Len(reports) + n)
            PROVE  \/ i \in 1..Len(reports) /\ reports'[i] = reports[i]
                   \/ \E j \in 1..n : i = Len(reports) + j /\ reports'[i] = new[j]
        <4>1. CASE i <= Len(reports)
          BY <1>1, <1>2, <2>1, <4>1
        <4>2. CASE i > Len(reports)
          <5>1. i - Len(reports) \in 1..n /\ i = Len(reports) + (i - Len(reports))
            BY <1>1, <4>2
          <5> QED
            BY <1>2, <2>1, <5>1
        <4> QED
          BY <1>1, <4>1, <4>2
      <3>3. Waiting' \subseteq Waiting \cup N
        BY <1>1, <1>4, <3>1, <3>2 DEF Waiting
      <3>4. Waiting \subseteq Waiting'
        <4>1. \A i \in 1..Len(reports) : i \in DOMAIN reports' /\ reports'[i] = reports[i]
          BY <1>1, <1>2, <2>1, <3>1
        <4> QED
          BY <1>1, <4>1 DEF Waiting
      <3>5. N \subseteq Waiting'
        <4>1. \A i \in 1..n : Len(reports) + i \in DOMAIN reports'
                              /\ reports'[Len(reports) + i] = new[i]
          BY <1>1, <1>2, <2>1, <3>1
        <4> QED
          BY <1>4, <4>1 DEF Waiting
      <3> QED
        BY <3>3, <3>4, <3>5
    <2>3. Distinct(reports)'
      <3>1. DOMAIN reports' = 1..(Len(reports) + n)
        BY <1>1, <1>2, <2>1
      <3>2. ASSUME NEW i \in 1..(Len(reports) + n)
            PROVE  \/ i \in 1..Len(reports) /\ reports'[i] = reports[i] /\ reports[i] \in Waiting
                   \/ \E j \in 1..n : i = Len(reports) + j /\ reports'[i] = new[j] /\ new[j] \in N
        <4>1. CASE i <= Len(reports)
          <5>1. i \in 1..Len(reports) /\ reports[i] \in Waiting
            BY <1>1, <4>1 DEF Waiting
          <5> QED
            BY <1>2, <2>1, <5>1
        <4>2. CASE i > Len(reports)
          <5>1. i - Len(reports) \in 1..n /\ i = Len(reports) + (i - Len(reports))
            BY <1>1, <4>2
          <5> QED
            BY <1>2, <1>4, <2>1, <5>1
        <4> QED
          BY <1>1, <4>1, <4>2
      <3>3. \A i, j \in 1..Len(reports) : reports[i].no = reports[j].no => i = j
        BY <1>1, <1>5 DEF Distinct
      <3>4. \A i, j \in 1..n : new[i].no = new[j].no => i = j
        BY <1>1, <1>2
      <3>5. \A x \in Waiting, y \in N : x.no # y.no
        BY <1>7 DEF Apart
      <3>6. ASSUME NEW i \in 1..(Len(reports) + n), NEW j \in 1..(Len(reports) + n),
                   reports'[i].no = reports'[j].no
            PROVE  i = j
        <4>1. CASE i \in 1..Len(reports) /\ reports'[i] = reports[i] /\ reports[i] \in Waiting
          <5>1. \/ j \in 1..Len(reports) /\ reports'[j] = reports[j]
                \/ reports'[j] \in N
            BY <3>2
          <5>2. reports'[j] \notin N
            BY <3>6, <3>5, <4>1
          <5>3. reports[i].no = reports[j].no
            BY <3>6, <4>1, <5>1, <5>2
          <5> QED
            BY <3>3, <4>1, <5>1, <5>2, <5>3
        <4>2. CASE \E k \in 1..n : i = Len(reports) + k /\ reports'[i] = new[k] /\ new[k] \in N
          <5>1. PICK k \in 1..n : i = Len(reports) + k /\ reports'[i] = new[k] /\ new[k] \in N
            BY <4>2
          <5>2. reports'[j] \notin Waiting
            BY <3>6, <3>5, <5>1
          <5>3. PICK l \in 1..n : j = Len(reports) + l /\ reports'[j] = new[l]
            BY <3>2, <5>2
          <5>4. new[k].no = new[l].no
            BY <3>6, <5>1, <5>3
          <5>5. k = l
            BY <3>4, <5>4
          <5> QED
            BY <5>1, <5>3, <5>5
        <4> QED
          BY <3>2, <4>1, <4>2
      <3> QED
        BY <3>1, <3>6 DEF Distinct
    <2>4. BagToSet(gone)' = BagToSet(gone) /\ Single(gone)'
      BY <1>5, <2>1 DEF Single, IsABag, BagToSet
    <2> QED
      BY <1>7, <1>a, <1>b, <2>1, <2>2, <2>3, <2>4 DEF OnceInv
  <1>9. CASE ~active
    <2>1. made' = made + n /\ reports' = reports /\ gone' = gone (+) SetToBag(N)
      BY <1>3, <1>9
    <2>2. Single(gone (+) SetToBag(N)) /\ BagToSet(gone (+) SetToBag(N)) = BagToSet(gone) \cup N
      BY <1>5, <1>7, AddSet
    <2>3. Waiting' = Waiting /\ Distinct(reports)'
      BY <1>5, <2>1 DEF Waiting, Distinct
    <2> QED
      BY <1>7, <1>a, <1>b, <2>1, <2>2, <2>3 DEF OnceInv
  <1> QED
    BY <1>8, <1>9

(* Reports change places.                                                  *)
LEMMA PartedMove ==
    ASSUME NEW W, NEW F, NEW S, NEW G, NEW k, Parted(W, F, S, G, k)
    PROVE  /\ Parted({}, F \cup W, S, G, k) /\ Parted({}, F, S, G \cup W, k)
           /\ W \cap F = {} /\ W \cap G = {}
           /\ \A x \in F : /\ Parted(W, F \ {x}, S \cup {x}, G, k)
                           /\ Parted(W, F \ {x}, S, G \cup {x}, k)
                           /\ {x} \cap S = {} /\ {x} \cap G = {}
  <1> DEFINE A == W \cup F \cup S \cup G
  <1>1. /\ W \cap F = {} /\ W \cap S = {} /\ W \cap G = {}
        /\ F \cap S = {} /\ F \cap G = {} /\ S \cap G = {}
        /\ \A x \in A : x.no \in 1..k
        /\ \A x, y \in A : x.no = y.no => x = y
        /\ \A j \in 1..k : \E x \in A : x.no = j
    BY Zenon DEF Parted
  <1>2. /\ {} \cup (F \cup W) \cup S \cup G = A
        /\ {} \cup F \cup S \cup (G \cup W) = A
        /\ \A x \in F : /\ W \cup (F \ {x}) \cup (S \cup {x}) \cup G = A
                        /\ W \cup (F \ {x}) \cup S \cup (G \cup {x}) = A
    OBVIOUS
  <1> HIDE DEF A
  <1>3. Parted({}, F \cup W, S, G, k) /\ Parted({}, F, S, G \cup W, k)
    BY <1>1, <1>2 DEF Parted
  <1>4. ASSUME NEW x \in F
        PROVE  /\ Parted(W, F \ {x}, S \cup {x}, G, k)
               /\ Parted(W, F \ {x}, S, G \cup {x}, k)
               /\ {x} \cap S = {} /\ {x} \cap G = {}
    BY <1>1, <1>2 DEF Parted
  <1> QED
    BY <1>1, <1>3, <1>4

(* Every step keeps each report in one place.                              *)
LEMMA OnceStep == TypeInv /\ OnceInv /\ [Next]_vars => OnceInv'
  <1> SUFFICES ASSUME TypeInv, OnceInv, [Next]_vars PROVE OnceInv'
    OBVIOUS
  <1> USE DEF nodeVars, ricVars, lossVars, history
  <1> DEFINE F == BagToSet(flying)
             S == BagToSet(saved)
             G == BagToSet(gone)
  <1>0. /\ Types
        /\ Single(flying) /\ Single(saved) /\ Single(gone) /\ Distinct(reports)
        /\ Parted(Waiting, F, S, G, made)
    BY DEF TypeInv, Ind, OnceInv
  <1>a. /\ UNCHANGED flying => Single(flying)' /\ F' = F
        /\ UNCHANGED saved => Single(saved)' /\ S' = S
        /\ UNCHANGED gone => Single(gone)' /\ G' = G
        /\ UNCHANGED reports => Distinct(reports)' /\ Waiting' = Waiting
    BY <1>0 DEF Single, IsABag, BagToSet, Distinct, Waiting
  <1>b. reports' = <<>> => Distinct(reports)' /\ Waiting' = {}
    BY DEF Distinct, Waiting
  <1>c. UNCHANGED <<reports, flying, saved, gone, made>> => OnceInv'
    BY <1>0, <1>a DEF OnceInv
  <1>1. ASSUME NEW r \in Reporters, TriggerEvent(r) PROVE OnceInv'
    <2>1. <<r>> \in [1..1 -> Reporters] /\ e2NodeId \in Nat
      BY <1>0 DEF Types
    <2>2. UNCHANGED <<flying, saved>>
      BY <1>1 DEF TriggerEvent
    <2>3. CASE PerformReports(<<r>>, e2NodeId)
      BY <2>1, <2>2, <2>3, PerformOnce
    <2> QED
      BY <1>1, <1>c, <2>2, <2>3 DEF TriggerEvent
  <1>2. ASSUME NEW r \in Reporters, TraceSink(r) PROVE OnceInv'
    <2>1. reporter[r].sinks \in Nat /\ e2NodeId \in Nat
      BY <1>0 DEF Types, Reporter
    <2>2. [i \in 1..reporter[r].sinks |-> r] \in [1..reporter[r].sinks -> Reporters]
      OBVIOUS
    <2>3. /\ PerformReports([i \in 1..reporter[r].sinks |-> r], e2NodeId)
          /\ UNCHANGED <<flying, saved>>
      BY <1>2 DEF TraceSink
    <2> QED
      BY <2>1, <2>2, <2>3, PerformOnce
  <1>3. ASSUME NEW m \in BagToSet(msgs), ReceiveRegistrationResponse(m) PROVE OnceInv'
    <2>1. UNCHANGED <<flying, saved>>
      BY <1>3 DEF ReceiveRegistrationResponse
    <2>2. CASE \E s \in Notified : PerformReports(s, m.id)
      <3>1. PICK s \in Notified : PerformReports(s, m.id)
        BY <2>2
      <3>2. PICK n \in Nat : s \in [1..n -> Reporters]
        BY NotifiedShape
      <3>3. m.id \in Nat
        BY <1>0 DEF Types, Message
      <3> QED
        BY <2>1, <3>1, <3>2, <3>3, PerformOnce
    <2> QED
      BY <1>3, <1>c, <2>1, <2>2 DEF ReceiveRegistrationResponse
  <1>4. CASE Activate
    <2>1. /\ reports' = <<>> /\ gone' = gone (+) SetToBag(Waiting)
          /\ UNCHANGED <<flying, saved, made>>
      BY <1>4 DEF Activate, Waiting
    <2>2. Parted({}, F, S, G \cup Waiting, made) /\ Waiting \cap G = {}
      BY <1>0, PartedMove
    <2>3. Single(gone') /\ BagToSet(gone') = G \cup Waiting
      BY <1>0, <2>1, <2>2, AddSet
    <2> QED
      BY <1>a, <1>b, <2>1, <2>2, <2>3 DEF OnceInv
  <1>5. CASE DoSendReports
    <2>1. /\ \/ /\ flying' = flying (+) SetToBag(Waiting)
                /\ reports' = <<>>
             \/ UNCHANGED <<flying, reports>>
          /\ UNCHANGED <<saved, gone, made>>
      BY <1>5 DEF DoSendReports, Sent, Waiting
    <2>2. Parted({}, F \cup Waiting, S, G, made) /\ Waiting \cap F = {}
      BY <1>0, PartedMove
    <2>3. CASE flying' = flying (+) SetToBag(Waiting) /\ reports' = <<>>
      <3>1. Single(flying') /\ BagToSet(flying') = F \cup Waiting
        BY <1>0, <2>2, <2>3, AddSet
      <3> QED
        BY <1>a, <1>b, <2>1, <2>2, <2>3, <3>1 DEF OnceInv
    <2> QED
      BY <1>c, <2>1, <2>3
  <1>6. ASSUME NEW x \in BagToSet(flying), ReceiveReport(x) PROVE OnceInv'
    <2>1. /\ flying' = flying (-) One(x)
          /\ \/ saved' = saved (+) SetToBag({x}) /\ UNCHANGED gone
             \/ gone' = gone (+) SetToBag({x}) /\ UNCHANGED saved
          /\ UNCHANGED <<reports, made>>
      BY <1>6 DEF ReceiveReport, One
    <2>2. /\ Parted(Waiting, F \ {x}, S \cup {x}, G, made)
          /\ Parted(Waiting, F \ {x}, S, G \cup {x}, made)
          /\ {x} \cap S = {} /\ {x} \cap G = {}
      BY <1>0, <1>6, PartedMove
    <2>3. Single(flying') /\ BagToSet(flying') = F \ {x}
      BY <1>0, <1>6, <2>1, TakeOne
    <2>4. CASE saved' = saved (+) SetToBag({x}) /\ UNCHANGED gone
      <3>1. Single(saved') /\ BagToSet(saved') = S \cup {x}
        BY <1>0, <2>2, <2>4, AddSet
      <3> QED
        BY <1>a, <2>1, <2>2, <2>3, <2>4, <3>1 DEF OnceInv
    <2>5. CASE gone' = gone (+) SetToBag({x}) /\ UNCHANGED saved
      <3>1. Single(gone') /\ BagToSet(gone') = G \cup {x}
        BY <1>0, <2>2, <2>5, AddSet
      <3> QED
        BY <1>a, <2>1, <2>2, <2>3, <2>5, <3>1 DEF OnceInv
    <2> QED
      BY <2>1, <2>4, <2>5
  <1>7. ASSUME NEW r \in Reporters,
               CallActivateReporter(r) \/ CallDeactivateReporter(r) \/ SetTrigger(r)
        PROVE  OnceInv'
    BY <1>7, <1>c DEF CallActivateReporter, CallDeactivateReporter, SetTrigger
  <1>8. CASE AddTx \/ AddRx \/ LosePacket \/ Deactivate \/ Register
    BY <1>8, <1>c DEF AddTx, AddRx, LosePacket, Deactivate, Register
  <1>9. ASSUME NEW m, ReceiveDeregistrationResponse(m) \/ ReceiveRegistrationRequest(m)
                      \/ ReceiveDeregistrationRequest(m)
        PROVE  OnceInv'
    BY <1>9, <1>c DEF ReceiveDeregistrationResponse, ReceiveRegistrationRequest,
                      ReceiveDeregistrationRequest
  <1>10. ASSUME NEW id, CheckForInactivity(id) PROVE OnceInv'
    BY <1>10, <1>c DEF CheckForInactivity
  <1>11. CASE UNCHANGED vars
    BY <1>11, <1>c DEF vars
  <1> QED
    BY <1>1, <1>2, <1>3, <1>4, <1>5, <1>6, <1>7, <1>8, <1>9, <1>10, <1>11 DEF Next, Ended

(* A bag in which nothing is twice holds the copies number 1.              *)
LEMMA SingleCopies ==
    ASSUME NEW B, Single(B), NEW place
    PROVE  InBag(place, B) = {<<place, 1, x>> : x \in BagToSet(B)}
  <1>1. \A x \in BagToSet(B) : {<<place, i, x>> : i \in 1..B[x]} = {<<place, 1, x>>}
    BY DEF Single
  <1>2. InBag(place, B) = UNION {{<<place, 1, x>>} : x \in BagToSet(B)}
    BY <1>1 DEF InBag
  <1> QED
    BY <1>2

(* Each report has one copy.                                               *)
LEMMA OnceCounts == TypeInv /\ OnceInv => EachReportOnce
  <1> SUFFICES ASSUME TypeInv, OnceInv, NEW n \in 1..made
               PROVE  Cardinality({c \in Copies : c[3].no = n}) = 1
    BY DEF EachReportOnce
  <1> DEFINE F == BagToSet(flying)
             S == BagToSet(saved)
             G == BagToSet(gone)
             C == {c \in Copies : c[3].no = n}
             Q == {<<"stored", i, reports[i]>> : i \in DOMAIN reports}
             T(place, B) == {<<place, 1, x>> : x \in B}
  <1>1. /\ Single(flying) /\ Single(saved) /\ Single(gone) /\ Distinct(reports)
        /\ Parted(Waiting, F, S, G, made)
    BY DEF OnceInv
  <1>2. Copies = Q \cup T("flying", F) \cup T("saved", S) \cup T("gone", G)
    BY <1>1, SingleCopies DEF Copies
  <1> DEFINE A == Waiting \cup F \cup S \cup G
  <1>3. /\ Waiting \cap F = {} /\ Waiting \cap S = {} /\ Waiting \cap G = {}
        /\ F \cap S = {} /\ F \cap G = {} /\ S \cap G = {}
        /\ \A x, y \in A : x.no = y.no => x = y
        /\ \E x \in A : x.no = n
    BY <1>1, Zenon DEF Parted
  <1> HIDE DEF F, S, G
  <1>4. PICK x \in A : x.no = n
    BY <1>3
  <1>5. \A y \in A : y.no = n => y = x
    BY <1>3, <1>4, Zenon
  <1>6. \A c \in Q : c[3] \in Waiting /\ \E i \in DOMAIN reports : c = <<"stored", i, reports[i]>>
    BY DEF Waiting
  <1>7. /\ \A c \in T("flying", F) : c[3] \in F /\ c = <<"flying", 1, c[3]>>
        /\ \A c \in T("saved", S) : c[3] \in S /\ c = <<"saved", 1, c[3]>>
        /\ \A c \in T("gone", G) : c[3] \in G /\ c = <<"gone", 1, c[3]>>
    OBVIOUS
  <1>8. /\ x \in F => <<"flying", 1, x>> \in T("flying", F)
        /\ x \in S => <<"saved", 1, x>> \in T("saved", S)
        /\ x \in G => <<"gone", 1, x>> \in T("gone", G)
    OBVIOUS
  <1>9. x \in Waiting => \E i \in DOMAIN reports : reports[i] = x /\ <<"stored", i, x>> \in Q
    BY DEF Waiting
  <1> HIDE DEF Q, T
  <1>10. \E c : C = {c}
    <2>1. CASE x \in Waiting
      <3>1. PICK i \in DOMAIN reports : reports[i] = x /\ <<"stored", i, x>> \in Q
        BY <1>9, <2>1
      <3>2. <<"stored", i, x>> \in C
        BY <1>2, <1>4, <3>1
      <3>3. ASSUME NEW c \in C PROVE c = <<"stored", i, x>>
        <4>1. c[3] \in A /\ c[3].no = n
          BY <1>2, <1>6, <1>7
        <4>2. c[3] = x
          BY <1>5, <4>1
        <4>3. c \in Q
          BY <1>2, <1>3, <1>7, <2>1, <4>2
        <4>4. PICK j \in DOMAIN reports : c = <<"stored", j, reports[j]>>
          BY <1>6, <4>3
        <4>5. reports[j].no = reports[i].no
          BY <3>1, <4>2, <4>4
        <4>6. j = i
          BY <1>1, <4>5 DEF Distinct
        <4> QED
          BY <3>1, <4>4, <4>6
      <3> QED
        BY <3>2, <3>3
    <2>2. ASSUME NEW c, x \notin Waiting, c \in C,
                 c \in {<<"flying", 1, x>>, <<"saved", 1, x>>, <<"gone", 1, x>>}
          PROVE  C = {c}
      <3>1. ASSUME NEW d \in C PROVE d = c
        <4>1. d[3] \in A /\ d[3].no = n
          BY <1>2, <1>6, <1>7
        <4>2. d[3] = x
          BY <1>5, <4>1
        <4>3. d \notin Q /\ c[3] = x /\ c \notin Q
          BY <1>6, <2>2, <4>2
        <4>4. d \in T("flying", F) \/ d \in T("saved", S) \/ d \in T("gone", G)
          BY <1>2, <4>3
        <4>5. c \in T("flying", F) \/ c \in T("saved", S) \/ c \in T("gone", G)
          BY <1>2, <2>2, <4>3
        <4> QED
          BY <1>3, <1>7, <4>2, <4>3, <4>4, <4>5
      <3> QED
        BY <2>2, <3>1
    <2>3. CASE x \in F \ Waiting
      <3>1. <<"flying", 1, x>> \in C
        BY <1>2, <1>4, <1>8, <2>3
      <3> QED
        BY <2>2, <2>3, <3>1
    <2>4. CASE x \in S \ Waiting
      <3>1. <<"saved", 1, x>> \in C
        BY <1>2, <1>4, <1>8, <2>4
      <3> QED
        BY <2>2, <2>4, <3>1
    <2>5. CASE x \in G \ Waiting
      <3>1. <<"gone", 1, x>> \in C
        BY <1>2, <1>4, <1>8, <2>5
      <3> QED
        BY <2>2, <2>5, <3>1
    <2> QED
      BY <1>4, <2>1, <2>3, <2>4, <2>5
  <1> QED
    BY <1>10, FS_Singleton

(* Whatever send events are pending and in whatever order reports and      *)
(* registrations arrive, a generated report is never lost and never        *)
(* doubled: it waits, is under way, saved or given up, once.               *)
THEOREM ReportsAreConserved == Spec => []EachReportOnce
  <1>1. Init => OnceInv
    <2>1. Single(EmptyBag) /\ BagToSet(EmptyBag) = {}
      BY DEF Single, IsABag, EmptyBag, SetToBag, BagToSet
    <2>2. ASSUME Init PROVE Waiting = {} /\ Distinct(reports) /\ made = 0
      BY <2>2 DEF Init, Waiting, Distinct
    <2>3. Parted({}, {}, {}, {}, 0)
      BY DEF Parted
    <2>4. Init => flying = EmptyBag /\ saved = EmptyBag /\ gone = EmptyBag
      BY DEF Init
    <2> QED
      BY <2>1, <2>2, <2>3, <2>4 DEF OnceInv
  <1> QED
    BY <1>1, InitTyped, TypeStep, OnceStep, OnceCounts, PTL DEF Spec
================================================================================
