-------------------------- MODULE OranRicCycleProofs --------------------------
(***************************************************************************)
(* Theorems about the query cycle of the Near-RT RIC, for every set of     *)
(* LMs, every configuration and every horizon.                             *)
(***************************************************************************)
EXTENDS OranRicCycle, FiniteSetTheorems, TLAPS

(***************************************************************************)
(* What the helpers on m_lmQueryCommands return.                           *)
(***************************************************************************)

Maps == UNION {[S -> SUBSET Result] : S \in SUBSET Keys}

(* A map is one of Maps exactly when it has the two shape conditions that  *)
(* TypeOK states.                                                          *)
LEMMA MapShape ==
    ASSUME NEW m
    PROVE  m \in Maps <=> /\ DOMAIN m \in SUBSET Keys
                          /\ m \in [DOMAIN m -> SUBSET Result]
  BY DEF Maps

(* std::map's operator[] on the collection: the entry is set, the others   *)
(* stay.                                                                   *)
LEMMA PutShape ==
    ASSUME NEW m \in Maps, NEW k \in Keys, NEW v \in SUBSET Result
    PROVE  /\ Put(m, k, v) \in Maps
           /\ DOMAIN Put(m, k, v) = DOMAIN m \cup {k}
           /\ Put(m, k, v)[k] = v
           /\ \A x \in DOMAIN m : x # k => Put(m, k, v)[x] = m[x]
  <1>1. DOMAIN m \in SUBSET Keys /\ m \in [DOMAIN m -> SUBSET Result]
    BY MapShape
  <1>2. DOMAIN Put(m, k, v) = DOMAIN m \cup {k}
    BY DEF Put
  <1>3. Put(m, k, v)[k] = v
    BY DEF Put
  <1>4. \A x \in DOMAIN m : x # k => Put(m, k, v)[x] = m[x]
    BY DEF Put
  <1>5. Put(m, k, v) \in [DOMAIN m \cup {k} -> SUBSET Result]
    BY <1>1 DEF Put
  <1>6. Put(m, k, v) \in Maps
    BY <1>1, <1>2, <1>5, MapShape
  <1> QED
    BY <1>2, <1>3, <1>4, <1>6

(* The union of all entries is a set of results.                           *)
LEMMA CollectedShape ==
    ASSUME NEW m \in Maps
    PROVE  /\ Collected(m) \in SUBSET Result
           /\ \A r : r \in Collected(m) <=> \E k \in DOMAIN m : r \in m[k]
  BY DEF Maps, Collected

(* The cleared collection holds nothing.                                   *)
LEMMA EmptyMapShape == /\ EmptyMap \in Maps
                       /\ DOMAIN EmptyMap = {}
                       /\ Collected(EmptyMap) = {}
  <1>1. DOMAIN EmptyMap = {}
    BY DEF EmptyMap
  <1>2. EmptyMap \in [{} -> SUBSET Result]
    BY DEF EmptyMap
  <1> QED
    BY <1>1, <1>2 DEF Maps, Collected

(* Filing the result of LM l adds nothing but that result, as the only one *)
(* of its entry, and leaves the other entries alone.                       *)
LEMMA FiledShape ==
    ASSUME TypeOK, NEW l \in LMs
    PROVE  /\ Filed(l) \in Maps
           /\ Collected(Filed(l)) \subseteq Collected(lmQueryCommands) \cup {ResultOf(l)}
           /\ DOMAIN Filed(l) \subseteq DOMAIN lmQueryCommands \cup {KeyOf(l)}
           /\ \A k \in DOMAIN Filed(l) :
                 IF k = KeyOf(l) THEN Filed(l)[k] \subseteq {ResultOf(l)}
                                 ELSE Filed(l)[k] = lmQueryCommands[k]
           /\ InTime => /\ DOMAIN Filed(l) = DOMAIN lmQueryCommands \cup {KeyOf(l)}
                        /\ Filed(l)[KeyOf(l)] = {ResultOf(l)}
  <1> DEFINE key   == KeyOf(l)
             reset == IF key \in DOMAIN lmQueryCommands
                        THEN Put(lmQueryCommands, key, {})
                        ELSE lmQueryCommands
             old   == IF key \in DOMAIN reset THEN reset[key] ELSE {}
  <1>1. key \in Keys
    BY DEF TypeOK, KeyOf, Keys
  <1>2. lmQueryCommands \in Maps
    BY MapShape DEF TypeOK
  <1>3. ResultOf(l) \in Result
    BY DEF TypeOK, ResultOf, Result
  <1>4. /\ reset \in Maps
        /\ DOMAIN reset = DOMAIN lmQueryCommands
        /\ old = {}
        /\ \A x \in DOMAIN reset : reset[x] = IF x = key THEN {} ELSE lmQueryCommands[x]
    <2>1. CASE key \in DOMAIN lmQueryCommands
      <3> DEFINE emptied == Put(lmQueryCommands, key, {})
      <3>1. reset = emptied
        BY <2>1
      <3>2. {} \in SUBSET Result
        OBVIOUS
      <3> HIDE DEF reset, key
      <3>3. /\ emptied \in Maps
            /\ DOMAIN emptied = DOMAIN lmQueryCommands \cup {key}
            /\ emptied[key] = {}
            /\ \A x \in DOMAIN lmQueryCommands : x # key => emptied[x] = lmQueryCommands[x]
        BY <1>1, <1>2, <3>2, PutShape, ZenonT(60)
      <3> HIDE DEF emptied
      <3> QED
        BY <2>1, <3>1, <3>3
    <2>2. CASE key \notin DOMAIN lmQueryCommands
      BY <1>2, <2>2
    <2> QED
      BY <2>1, <2>2
  <1> HIDE DEF reset, old, key
  <1> DEFINE put == Put(reset, key, {ResultOf(l)})
  <1>5. /\ put \in Maps
        /\ DOMAIN put = DOMAIN reset \cup {key}
        /\ put[key] = {ResultOf(l)}
        /\ \A x \in DOMAIN reset : x # key => put[x] = reset[x]
    <2>1. {ResultOf(l)} \in SUBSET Result
      BY <1>3
    <2> QED
      BY <1>1, <1>4, <2>1, PutShape, ZenonT(60)
  <1> HIDE DEF put
  <1>6. Collected(reset) \subseteq Collected(lmQueryCommands)
    BY <1>2, <1>4, CollectedShape
  <1>7. Collected(put) \subseteq Collected(lmQueryCommands) \cup {ResultOf(l)}
    <2> SUFFICES ASSUME NEW r \in Collected(put), r # ResultOf(l)
                 PROVE  r \in Collected(lmQueryCommands)
      OBVIOUS
    <2>1. PICK k \in DOMAIN put : r \in put[k]
      BY <1>5, CollectedShape
    <2>2. k \in DOMAIN reset /\ r \in reset[k]
      BY <2>1, <1>5
    <2> QED
      BY <2>2, <1>2, <1>4, CollectedShape
  <1>8. old \cup {ResultOf(l)} = {ResultOf(l)}
    BY <1>4
  <1>9. Filed(l) = IF InTime \/ conf.latePolicy = "SAVE" THEN put ELSE reset
    BY <1>8, Zenon DEF Filed, put, key, reset, old
  <1>10. /\ Filed(l) \in Maps
         /\ Collected(Filed(l)) \subseteq Collected(lmQueryCommands) \cup {ResultOf(l)}
         /\ DOMAIN Filed(l) \subseteq DOMAIN lmQueryCommands \cup {key}
    BY <1>4, <1>5, <1>6, <1>7, <1>9
  <1>11. \A k \in DOMAIN Filed(l) :
            IF k = key THEN Filed(l)[k] \subseteq {ResultOf(l)}
                       ELSE Filed(l)[k] = lmQueryCommands[k]
    BY <1>4, <1>5, <1>9
  <1>12. InTime => /\ DOMAIN Filed(l) = DOMAIN lmQueryCommands \cup {key}
                   /\ Filed(l)[key] = {ResultOf(l)}
    BY <1>4, <1>5, <1>9
  <1> QED
    BY <1>10, <1>11, <1>12 DEF key

-----------------------------------------------------------------------------
(***************************************************************************)
(* Type correctness.                                                       *)
(***************************************************************************)

(* ProcessLmQueryCommands keeps the types of what it changes.              *)
LEMMA ProcessTyped ==
    ASSUME TypeOK, NEW m \in Maps, NEW ev \in SUBSET [due : Nat, query : Nat],
           ProcessLmQueryCommands(m, ev)
    PROVE  /\ lmQueryCommands' \in Maps
           /\ waitEvents' \in SUBSET [due : Nat, query : Nat]
           /\ sent' \in SUBSET Result
  BY CollectedShape, EmptyMapShape
     DEF ProcessLmQueryCommands, CancelProcessEvent, TypeOK

(* The return of an LM keeps the types of what it changes.                 *)
LEMMA NotifyTyped ==
    ASSUME TypeOK, NEW l \in LMs, NotifyLmFinished(l)
    PROVE  /\ lmQueryCommands' \in Maps
           /\ waitEvents' \in SUBSET [due : Nat, query : Nat]
           /\ sent' \in SUBSET Result
           /\ aborted' \in {"no", "already started", "unexpected cycle"}
  <1>1. lmQueryCommands \in Maps /\ Filed(l) \in Maps
    BY MapShape, FiledShape DEF TypeOK
  <1>2. waitEvents \in SUBSET [due : Nat, query : Nat]
    BY DEF TypeOK
  <1>3. aborted' \in {"no", "already started", "unexpected cycle"}
    BY DEF NotifyLmFinished, TypeOK
  <1>4. CASE ProcessLmQueryCommands(Filed(l), waitEvents)
    BY <1>1, <1>2, <1>3, <1>4, ProcessTyped
  <1>5. CASE lmQueryCommands' \in {lmQueryCommands, Filed(l)} /\ UNCHANGED <<waitEvents, sent>>
    BY <1>1, <1>3, <1>5 DEF TypeOK
  <1> QED
    BY <1>4, <1>5 DEF NotifyLmFinished

(* The numbers of a typed state.                                           *)
LEMMA Numbers ==
    ASSUME TypeOK
    PROVE  /\ now \in Nat
           /\ queries \in Nat
           /\ lmQueryCycle \in Nat
           /\ conf.maxWait \in Nat
           /\ conf.interval \in Nat
           /\ conf.interval > 0
           /\ conf.delays \in SUBSET Nat
  <1>1. conf \in Config
    BY ConfigAssumption DEF TypeOK
  <1>2. /\ conf.maxWait \in Nat
        /\ conf.interval \in Nat \ {0}
        /\ conf.delays \in SUBSET Nat
    BY <1>1 DEF Config
  <1>3. conf.interval > 0
    BY <1>2
  <1> QED
    BY <1>2, <1>3 DEF TypeOK

(* A query keeps the types.                                                *)
LEMMA QueryTyped ==
    ASSUME TypeOK, QueryLms
    PROVE  TypeOK'
  <1>1. PICK delay \in [LMs -> conf.delays] : lmRun' = RunLms(delay)
    BY DEF QueryLms
  <1>3. lmRun' \in [LMs -> [running : BOOLEAN, due : Nat, cycle : Nat, query : Nat]]
    <2> SUFFICES ASSUME NEW l \in LMs
                 PROVE  RunLms(delay)[l] \in
                           [running : BOOLEAN, due : Nat, cycle : Nat, query : Nat]
      BY <1>1 DEF RunLms
    <2>0. delay[l] \in Nat
      BY Numbers
    <2>1. now + delay[l] \in Nat /\ now \in Nat /\ queries + 1 \in Nat
      BY <2>0, Numbers
    <2> QED
      BY <2>1 DEF RunLms, TypeOK
  <1>4. waitEvents' \in SUBSET [due : Nat, query : Nat] /\ processEvent' \in Nat
    <2>1. now + conf.maxWait \in Nat /\ queries + 1 \in Nat
      BY Numbers
    <2>2. [due |-> now + conf.maxWait, query |-> queries + 1] \in [due : Nat, query : Nat]
      BY <2>1
    <2>3. waitEvents \in SUBSET [due : Nat, query : Nat] /\ processEvent \in Nat
      BY DEF TypeOK
    <2> QED
      BY <2>1, <2>2, <2>3 DEF QueryLms
  <1>5. queries' \in Nat /\ lmQueryCycle' \in Nat /\ lmQueryEvent' \in Nat
    <2>1. now + conf.interval \in Nat /\ queries + 1 \in Nat /\ now \in Nat
      BY Numbers
    <2> QED
      BY <2>1 DEF QueryLms
  <1> QED
    BY <1>3, <1>4, <1>5 DEF QueryLms, TypeOK, setupVars

(* Every step keeps the types.                                             *)
LEMMA NextTyped == TypeOK /\ [Next]_vars => TypeOK'
  <1> SUFFICES ASSUME TypeOK, [Next]_vars PROVE TypeOK'
    OBVIOUS
  <1> USE DEF setupVars, lmVars
  <1>1. CASE WaitExpires
    <2>1. PICK e \in waitEvents :
             ProcessLmQueryCommands(lmQueryCommands, waitEvents \ {e})
      BY <1>1 DEF WaitExpires
    <2>2. lmQueryCommands \in Maps /\ waitEvents \ {e} \in SUBSET [due : Nat, query : Nat]
      BY MapShape DEF TypeOK
    <2>3. /\ lmQueryCommands' \in Maps
          /\ waitEvents' \in SUBSET [due : Nat, query : Nat]
          /\ sent' \in SUBSET Result
      BY <2>1, <2>2, ProcessTyped
    <2> QED
      BY <1>1, <2>3, MapShape DEF WaitExpires, TypeOK
  <1>2. ASSUME NEW l \in LMs, FinishRun(l)
        PROVE  TypeOK'
    <2>1. lmRun' \in [LMs -> [running : BOOLEAN, due : Nat, cycle : Nat, query : Nat]]
      BY <1>2 DEF FinishRun, NoRun, TypeOK
    <2>2. CASE NotifyLmFinished(l)
      BY <1>2, <2>1, <2>2, NotifyTyped, MapShape DEF FinishRun, TypeOK
    <2>3. CASE UNCHANGED <<lmQueryCommands, waitEvents, sent, aborted>>
      BY <1>2, <2>1, <2>3 DEF FinishRun, TypeOK
    <2> QED
      BY <1>2, <2>2, <2>3 DEF FinishRun
  <1>3. CASE PeriodicQuery
    BY <1>3, QueryTyped DEF PeriodicQuery, TypeOK
  <1>4. CASE NotifyReportReceived
    BY <1>4, QueryTyped DEF NotifyReportReceived
  <1>5. CASE Activate
    BY <1>5 DEF Activate, ActivatedLms, TypeOK
  <1>6. CASE Deactivate
    BY <1>6 DEF Deactivate, DeactivateLms, RunsAfterDeactivate, TypeOK
  <1>7. CASE Start
    <2>1. now + conf.interval \in Nat
      BY Numbers
    <2>2. lmQueryEvent' \in Nat \cup {Never}
      BY <1>7, <2>1 DEF Start, TypeOK
    <2>3. active' \in BOOLEAN /\ lmActive' \in [LMs -> BOOLEAN]
      BY <1>7 DEF Start, ActivatedLms, TypeOK
    <2> QED
      BY <1>7, <2>2, <2>3 DEF Start, TypeOK
  <1>8. CASE Stop
    BY <1>8 DEF Stop, DeactivateLms, RunsAfterDeactivate, CancelProcessEvent, TypeOK
  <1>9. ASSUME NEW l \in LMs, AddLogicModule(l) PROVE TypeOK'
    BY <1>9 DEF AddLogicModule, TypeOK
  <1>10. ASSUME NEW l \in LMs, RemoveLogicModule(l) PROVE TypeOK'
    BY <1>10 DEF RemoveLogicModule, Leaving, TypeOK
  <1>11. ASSUME NEW l \in LMs, SetDefaultLogicModule(l) PROVE TypeOK'
    BY <1>11 DEF SetDefaultLogicModule, Leaving, TypeOK
  <1>12. CASE Tick
    BY <1>12 DEF Tick, TypeOK
  <1>13. CASE Ended \/ UNCHANGED vars
    BY <1>13 DEF Ended, vars, TypeOK
  <1> QED
    BY <1>1, <1>2, <1>3, <1>4, <1>5, <1>6, <1>7, <1>8, <1>9, <1>10, <1>11,
       <1>12, <1>13 DEF Next

(* The initial state is typed.                                             *)
LEMMA InitTyped == Init => TypeOK
  <1> SUFFICES ASSUME Init PROVE TypeOK
    OBVIOUS
  <1>1. /\ DOMAIN lmQueryCommands \in SUBSET Keys
        /\ lmQueryCommands \in [DOMAIN lmQueryCommands -> SUBSET Result]
    BY EmptyMapShape, MapShape DEF Init
  <1>2. lmRun \in [LMs -> [running : BOOLEAN, due : Nat, cycle : Nat, query : Nat]]
    BY DEF Init, NoRun
  <1> QED
    BY <1>1, <1>2, LmAssumption, ConfigAssumption DEF Init, TypeOK

(* Every reachable state of the query cycle is typed.                      *)
THEOREM TypeCorrect == Spec => []TypeOK
  BY InitTyped, NextTyped, PTL DEF Spec

-----------------------------------------------------------------------------
(***************************************************************************)
(* How a returned or expired collection moves.                             *)
(***************************************************************************)

\* Results are collected, or the whole collection is sent; `new` is what the
\* step adds.
Moves(new) ==
    \/ /\ sent' = sent
       /\ Collected(lmQueryCommands)' \subseteq Collected(lmQueryCommands) \cup new
    \/ /\ sent' \subseteq sent \cup Collected(lmQueryCommands) \cup new
       /\ Collected(lmQueryCommands)' = {}

(* A return either files the LM's result or sends what is collected.       *)
LEMMA NotifyMoves ==
    ASSUME TypeOK, NEW l \in LMs, NotifyLmFinished(l)
    PROVE  Moves({ResultOf(l)})
  <1>1. Collected(Filed(l)) \subseteq Collected(lmQueryCommands) \cup {ResultOf(l)}
    BY FiledShape
  <1>2. CASE ProcessLmQueryCommands(Filed(l), waitEvents)
    <2>1. CASE active
      <3>1. lmQueryCommands' = EmptyMap /\ sent' = sent \cup Collected(Filed(l))
        BY <1>2, <2>1 DEF ProcessLmQueryCommands
      <3>2. Collected(lmQueryCommands)' = {}
        BY <3>1, EmptyMapShape
      <3> QED
        BY <1>1, <3>1, <3>2 DEF Moves
    <2>2. CASE ~active
      <3>1. lmQueryCommands' = Filed(l) /\ sent' = sent
        BY <1>2, <2>2 DEF ProcessLmQueryCommands
      <3> QED
        BY <1>1, <3>1 DEF Moves
    <2> QED
      BY <2>1, <2>2
  <1>3. CASE lmQueryCommands' = Filed(l) /\ UNCHANGED sent
    BY <1>1, <1>3 DEF Moves
  <1>4. CASE lmQueryCommands' = lmQueryCommands /\ UNCHANGED sent
    BY <1>4 DEF Moves
  <1> QED
    BY <1>2, <1>3, <1>4 DEF NotifyLmFinished

(* The end of a wait adds nothing.                                         *)
LEMMA WaitMoves ==
    ASSUME TypeOK, WaitExpires
    PROVE  Moves({})
  <1>1. PICK e \in waitEvents : ProcessLmQueryCommands(lmQueryCommands, waitEvents \ {e})
    BY DEF WaitExpires
  <1>2. CASE active
    <2>1. lmQueryCommands' = EmptyMap /\ sent' = sent \cup Collected(lmQueryCommands)
      BY <1>1, <1>2 DEF ProcessLmQueryCommands
    <2>2. Collected(lmQueryCommands)' = {}
      BY <2>1, EmptyMapShape
    <2> QED
      BY <2>1, <2>2 DEF Moves
  <1>3. CASE ~active
    BY <1>1, <1>3 DEF ProcessLmQueryCommands, Moves
  <1> QED
    BY <1>2, <1>3

-----------------------------------------------------------------------------
(***************************************************************************)
(* An LM that still belongs to the RIC never returns for a wrong cycle.    *)
(***************************************************************************)

\* A pending run is a run of the current cycle, of a registered LM that is
\* active if the RIC is, unless the LM was detached in the middle of a run.
RunsOwned ==
    \A l \in LMs : IsRunning(l) /\ l \notin detached =>
        /\ l \in Registered
        /\ lmRun[l].cycle = lmQueryCycle
        /\ active => lmActive[l]

CycleInv == TypeOK /\ RunsOwned /\ UnexpectedCycleOnlyIfDetached

(* A query restarts every run that is not of a detached LM.                *)
LEMMA QueryOwned ==
    ASSUME CycleInv, QueryLms, active
    PROVE  RunsOwned'
  <1>1. PICK delay \in [LMs -> conf.delays] : lmRun' = RunLms(delay)
    BY DEF QueryLms
  <1> SUFFICES ASSUME NEW l \in LMs, IsRunning(l)', l \notin detached
               PROVE  l \in Registered /\ lmRun'[l].cycle = now /\ lmActive[l]
    BY DEF QueryLms, setupVars, RunsOwned, Registered
  <1>2. CASE l \in Registered /\ lmActive[l]
    BY <1>1, <1>2 DEF RunLms
  <1>3. CASE ~(l \in Registered /\ lmActive[l])
    <2>1. lmRun'[l] = lmRun[l]
      BY <1>1, <1>3 DEF RunLms
    <2> QED
      BY <1>3, <2>1 DEF CycleInv, RunsOwned, IsRunning
  <1> QED
    BY <1>2, <1>3

(* Every step keeps CycleInv.                                              *)
LEMMA CycleStep == CycleInv /\ [Next]_vars => CycleInv'
  <1> SUFFICES ASSUME CycleInv, [Next]_vars
               PROVE  RunsOwned' /\ UnexpectedCycleOnlyIfDetached'
    BY NextTyped DEF CycleInv
  <1> USE DEF setupVars, lmVars, RunsOwned, UnexpectedCycleOnlyIfDetached, IsRunning,
              Registered
  <1>1. CASE WaitExpires
    BY <1>1 DEF CycleInv, WaitExpires
  <1>2. ASSUME NEW l \in LMs, FinishRun(l)
        PROVE  RunsOwned' /\ UnexpectedCycleOnlyIfDetached'
    <2>1. \A m \in LMs : lmRun'[m].running =>
              m # l /\ lmRun[m].running /\ lmRun'[m] = lmRun[m]
      BY <1>2 DEF FinishRun, NoRun, CycleInv, TypeOK
    <2>2. RunsOwned'
      BY <1>2, <2>1 DEF CycleInv, FinishRun
    <2>3. CASE aborted' = "unexpected cycle" /\ lmRun[l].cycle # lmQueryCycle
      BY <1>2, <2>2, <2>3 DEF CycleInv, FinishRun
    <2>4. CASE aborted' = aborted
      BY <1>2, <2>2, <2>4 DEF CycleInv, FinishRun
    <2> QED
      BY <1>2, <2>3, <2>4 DEF FinishRun, NotifyLmFinished
  <1>3. CASE PeriodicQuery
    <2>1. CASE active /\ QueryLms
      BY <2>1, QueryOwned DEF CycleInv, QueryLms
    <2>2. CASE UNCHANGED <<setupVars, active, lmVars, lmQueryCycle, detached, aborted>>
      BY <2>2 DEF CycleInv
    <2> QED
      BY <1>3, <2>1, <2>2 DEF PeriodicQuery
  <1>4. CASE NotifyReportReceived
    BY <1>4, QueryOwned DEF CycleInv, QueryLms, NotifyReportReceived
  <1>5. CASE Activate
    BY <1>5 DEF CycleInv, TypeOK, Activate, ActivatedLms
  <1>6. CASE Deactivate
    BY <1>6 DEF CycleInv, Deactivate, DeactivateLms, RunsAfterDeactivate
  <1>7. CASE Start
    BY <1>7 DEF CycleInv, TypeOK, Start, ActivatedLms
  <1>8. CASE Stop
    BY <1>8 DEF CycleInv, Stop, DeactivateLms, RunsAfterDeactivate
  <1>9. ASSUME NEW l \in LMs, AddLogicModule(l)
        PROVE  RunsOwned' /\ UnexpectedCycleOnlyIfDetached'
    BY <1>9 DEF CycleInv, AddLogicModule
  <1>10. ASSUME NEW l \in LMs, RemoveLogicModule(l)
         PROVE  RunsOwned' /\ UnexpectedCycleOnlyIfDetached'
    BY <1>10 DEF CycleInv, RemoveLogicModule, Leaving
  <1>11. ASSUME NEW l \in LMs, SetDefaultLogicModule(l)
         PROVE  RunsOwned' /\ UnexpectedCycleOnlyIfDetached'
    BY <1>11 DEF CycleInv, SetDefaultLogicModule, Leaving
  <1>12. CASE Tick
    BY <1>12 DEF CycleInv, Tick
  <1>13. CASE Ended \/ UNCHANGED vars
    <2>1. UNCHANGED vars
      BY <1>13 DEF Ended
    <2> QED
      BY <2>1, Zenon DEF CycleInv, vars
  <1> QED
    BY <1>1, <1>2, <1>3, <1>4, <1>5, <1>6, <1>7, <1>8, <1>9, <1>10, <1>11,
       <1>12, <1>13 DEF Next

(* The "unexpected cycle" abort of NotifyLmFinished can only be met after  *)
(* an LM was removed or replaced in the middle of a run.                   *)
THEOREM AbortOnlyIfDetached == Spec => []UnexpectedCycleOnlyIfDetached
  <1>1. Init => CycleInv
    <2> SUFFICES ASSUME Init PROVE RunsOwned /\ UnexpectedCycleOnlyIfDetached
      BY InitTyped DEF CycleInv
    <2>1. \A l \in LMs : ~IsRunning(l)
      BY DEF Init, IsRunning, NoRun
    <2> QED
      BY <2>1 DEF Init, RunsOwned, UnexpectedCycleOnlyIfDetached
  <1>2. CycleInv => UnexpectedCycleOnlyIfDetached
    BY DEF CycleInv
  <1> QED
    BY <1>1, <1>2, CycleStep, PTL DEF Spec

-----------------------------------------------------------------------------
(***************************************************************************)
(* At most once: no result is sent twice.                                  *)
(***************************************************************************)

Known == Collected(lmQueryCommands) \cup sent

\* Query numbers tell runs apart, and a running LM has not returned yet.
RunsDistinct ==
    /\ \A l \in LMs : IsRunning(l) => lmRun[l].query <= queries
    /\ \A r \in Known : r.query <= queries
    /\ \A l \in LMs : IsRunning(l) =>
          \A r \in Known : r.lm = l => r.query # lmRun[l].query
    /\ Collected(lmQueryCommands) \cap sent = {}

OnceInv == TypeOK /\ RunsDistinct

(* A step that only moves results, and adds ones no running LM can add     *)
(* again, keeps runs distinct.                                             *)
LEMMA MoveDistinct ==
    ASSUME OnceInv, NEW new, Moves(new), UNCHANGED queries,
           \A r \in new : r.query <= queries /\ r \notin Known,
           \A m \in LMs : IsRunning(m)' => IsRunning(m) /\ lmRun'[m] = lmRun[m],
           \A m \in LMs : IsRunning(m)' => \A r \in new : r.lm # m
    PROVE  RunsDistinct'
  <1>1. \A r \in Known' : r \in Known \/ r \in new
    BY DEF Moves, Known
  <1>2. \A l \in LMs : IsRunning(l)' => lmRun'[l].query <= queries'
    BY DEF OnceInv, RunsDistinct
  <1>3. \A r \in Known' : r.query <= queries'
    BY <1>1 DEF OnceInv, RunsDistinct
  <1>4. \A l \in LMs : IsRunning(l)' =>
            \A r \in Known' : r.lm = l => r.query # lmRun'[l].query
    BY <1>1 DEF OnceInv, RunsDistinct
  <1>5. (Collected(lmQueryCommands) \cap sent)' = {}
    BY DEF OnceInv, RunsDistinct, Moves, Known
  <1> QED
    BY <1>2, <1>3, <1>4, <1>5 DEF RunsDistinct

(* A query gives every run it starts a new number.                         *)
LEMMA QueryDistinct ==
    ASSUME OnceInv, QueryLms
    PROVE  RunsDistinct'
  <1>1. PICK delay \in [LMs -> conf.delays] : lmRun' = RunLms(delay)
    BY DEF QueryLms
  <1>2. Known' = Known /\ Collected(lmQueryCommands)' = Collected(lmQueryCommands)
        /\ sent' = sent /\ queries' = queries + 1
    BY DEF QueryLms, Known
  <1>3. queries \in Nat /\ \A l \in LMs : lmRun[l].query \in Nat
    BY DEF OnceInv, TypeOK
  <1>4. Known \in SUBSET Result
    BY CollectedShape, MapShape DEF Known, OnceInv, TypeOK
  <1>5. \A r \in Known : r.query \in Nat
    BY <1>4 DEF Result
  <1>6. \A l \in LMs : IsRunning(l)' =>
            lmRun'[l].query = queries + 1 \/ (IsRunning(l) /\ lmRun'[l] = lmRun[l])
    BY <1>1 DEF RunLms, IsRunning
  <1>7. \A l \in LMs : IsRunning(l) => lmRun[l].query <= queries
    BY DEF OnceInv, RunsDistinct
  <1>8. \A r \in Known : r.query <= queries
    BY DEF OnceInv, RunsDistinct
  <1>9. \A l \in LMs : IsRunning(l)' => lmRun'[l].query <= queries'
    BY <1>2, <1>3, <1>6, <1>7
  <1>10. \A r \in Known' : r.query <= queries'
    BY <1>2, <1>3, <1>5, <1>8
  <1>11. \A l \in LMs : IsRunning(l)' =>
            \A r \in Known' : r.lm = l => r.query # lmRun'[l].query
    <2> SUFFICES ASSUME NEW l \in LMs, IsRunning(l)', NEW r \in Known, r.lm = l
                 PROVE  r.query # lmRun'[l].query
      BY <1>2
    <2>1. CASE lmRun'[l].query = queries + 1
      BY <2>1, <1>3, <1>5, <1>8
    <2>2. CASE IsRunning(l) /\ lmRun'[l] = lmRun[l]
      BY <2>2 DEF OnceInv, RunsDistinct
    <2> QED
      BY <1>6, <2>1, <2>2
  <1> QED
    BY <1>2, <1>9, <1>10, <1>11 DEF OnceInv, RunsDistinct

(* Every step keeps OnceInv.                                               *)
LEMMA OnceStep == OnceInv /\ [Next]_vars => OnceInv'
  <1> SUFFICES ASSUME OnceInv, [Next]_vars
               PROVE  RunsDistinct'
    BY NextTyped DEF OnceInv
  <1> USE DEF setupVars, lmVars
  <1>1. CASE WaitExpires
    <2>1. Moves({})
      BY <1>1, WaitMoves DEF OnceInv
    <2>2. UNCHANGED <<queries, lmRun>>
      BY <1>1 DEF WaitExpires
    <2>3. \A m \in LMs : IsRunning(m)' => IsRunning(m) /\ lmRun'[m] = lmRun[m]
      BY <2>2 DEF IsRunning
    <2> QED
      BY <2>1, <2>2, <2>3, MoveDistinct
  <1>2. ASSUME NEW l \in LMs, FinishRun(l)
        PROVE  RunsDistinct'
    <2>1. \A m \in LMs : IsRunning(m)' => m # l /\ IsRunning(m) /\ lmRun'[m] = lmRun[m]
      BY <1>2 DEF FinishRun, NoRun, OnceInv, TypeOK, IsRunning
    <2>2. Moves({ResultOf(l)})
      <3>1. CASE NotifyLmFinished(l)
        BY <3>1, NotifyMoves DEF OnceInv
      <3>2. CASE UNCHANGED <<lmQueryCommands, sent>>
        BY <3>2 DEF Moves
      <3> QED
        BY <1>2, <3>1, <3>2 DEF FinishRun
    <2>3. IsRunning(l) /\ UNCHANGED queries
      BY <1>2 DEF FinishRun
    <2>4. /\ ResultOf(l).lm = l
          /\ ResultOf(l).query <= queries
          /\ ResultOf(l) \notin Known
      BY <2>3 DEF OnceInv, RunsDistinct, ResultOf
    <2>5. \A r \in {ResultOf(l)} : r.query <= queries /\ r \notin Known
      BY <2>4
    <2>6. \A m \in LMs : IsRunning(m)' => \A r \in {ResultOf(l)} : r.lm # m
      BY <2>1, <2>4
    <2>7. \A m \in LMs : IsRunning(m)' => IsRunning(m) /\ lmRun'[m] = lmRun[m]
      BY <2>1
    <2> QED
      BY <2>2, <2>3, <2>5, <2>6, <2>7, MoveDistinct
  <1>3. CASE QueryLms
    BY <1>3, QueryDistinct
  <1>4. CASE UNCHANGED <<lmRun, lmQueryCommands, sent, queries>>
    BY <1>4 DEF OnceInv, RunsDistinct, Known, IsRunning
  <1> QED
    BY <1>1, <1>2, <1>3, <1>4
       DEF Next, PeriodicQuery, NotifyReportReceived, Activate, Deactivate,
           DeactivateLms, RunsAfterDeactivate, Start, Stop, AddLogicModule,
           RemoveLogicModule, SetDefaultLogicModule, Tick, Ended, vars

(* No result of an LM run is handed to the E2 terminator twice.            *)
THEOREM AtMostOnce == Spec => []NoResend
  <1>1. Init => OnceInv
    <2> SUFFICES ASSUME Init PROVE RunsDistinct
      BY InitTyped DEF OnceInv
    <2>1. \A l \in LMs : ~IsRunning(l)
      BY DEF Init, IsRunning, NoRun
    <2>2. Known = {} /\ Collected(lmQueryCommands) = {}
      BY EmptyMapShape DEF Init, Known
    <2> QED
      BY <2>1, <2>2 DEF RunsDistinct
  <1>2. OnceInv => NoResend
    <2> SUFFICES ASSUME OnceInv, NEW r \in Pending, r \in sent
                 PROVE  FALSE
      BY DEF NoResend
    <2>1. CASE r \in Collected(lmQueryCommands)
      BY <2>1 DEF OnceInv, RunsDistinct
    <2>2. CASE \E l \in LMs : IsRunning(l) /\ r = ResultOf(l)
      BY <2>2 DEF OnceInv, RunsDistinct, Known, ResultOf
    <2> QED
      BY <2>1, <2>2 DEF Pending
  <1> QED
    BY <1>1, <1>2, OnceStep, PTL DEF Spec

-----------------------------------------------------------------------------
(***************************************************************************)
(* With a wait limit, commands are held no longer than the limit.          *)
(***************************************************************************)

\* The hypotheses of HoldBound.
Limited ==
    /\ conf.maxWait > 0
    /\ conf.latePolicy = "DROP"
    /\ conf.ops \cap {"Stop", "Deactivate"} = {}

\* Before the RIC is activated there is nothing to wait for.
IdleUntilActive ==
    ~active => /\ \A l \in LMs : ~IsRunning(l)
               /\ Collected(lmQueryCommands) = {}
               /\ waitEvents = {}

\* Pending wait events lie ahead; the one the handle names is the current
\* cycle's; every collected result has one that comes in time for it.
WaitsAhead ==
    /\ \A e \in waitEvents : e.due >= now /\ e.query <= queries
    /\ \A e \in waitEvents : e.query = processEvent => e.due = lmQueryCycle + conf.maxWait
    /\ \A r \in Collected(lmQueryCommands) :
          \E e \in waitEvents : e.due <= r.cycle + conf.maxWait

HoldInv == TypeOK /\ (Limited => IdleUntilActive /\ WaitsAhead)

(* The numbers of pending wait events.                                     *)
LEMMA WaitNumbers ==
    ASSUME TypeOK
    PROVE  \A e \in waitEvents : e.due \in Nat /\ e.query \in Nat
  BY DEF TypeOK

(* The promise follows from the inductive invariant.                       *)
LEMMA HoldInvImplies == HoldInv => HoldBound
  <1> SUFFICES ASSUME HoldInv, Limited, NEW r \in Collected(lmQueryCommands)
               PROVE  now <= r.cycle + conf.maxWait
    BY DEF HoldBound, Limited
  <1>1. PICK e \in waitEvents : e.due <= r.cycle + conf.maxWait
    BY DEF HoldInv, WaitsAhead
  <1>2. e.due >= now /\ e.due \in Nat
    BY WaitNumbers DEF HoldInv, WaitsAhead
  <1>3. r.cycle \in Nat
    BY CollectedShape, MapShape DEF HoldInv, TypeOK, Result
  <1> QED
    BY <1>1, <1>2, <1>3, Numbers DEF HoldInv

(* A query schedules a wait event of its own and keeps the others.         *)
LEMMA QueryHold ==
    ASSUME HoldInv, Limited, QueryLms, active
    PROVE  IdleUntilActive' /\ WaitsAhead'
  <1> DEFINE new == [due |-> now + conf.maxWait, query |-> queries + 1]
  <1>1. /\ waitEvents' = waitEvents \cup {new}
        /\ processEvent' = queries + 1
        /\ lmQueryCycle' = now /\ now' = now /\ conf' = conf /\ queries' = queries + 1
        /\ active' = active /\ lmQueryCommands' = lmQueryCommands
    BY DEF QueryLms, setupVars, Limited
  <1>2. now \in Nat /\ queries \in Nat /\ conf.maxWait \in Nat
    BY Numbers DEF HoldInv
  <1>3. \A e \in waitEvents : e.due \in Nat /\ e.query \in Nat
    BY WaitNumbers DEF HoldInv
  <1>4. \A e \in waitEvents : e.due >= now /\ e.query <= queries
    BY DEF HoldInv, WaitsAhead
  <1>5. \A e \in waitEvents' : e.due >= now' /\ e.query <= queries'
    BY <1>1, <1>2, <1>3, <1>4
  <1>6. \A e \in waitEvents' : e.query = processEvent'
                               => e.due = lmQueryCycle' + conf'.maxWait
    BY <1>1, <1>2, <1>3, <1>4
  <1>7. \A r \in Collected(lmQueryCommands)' :
            \E e \in waitEvents' : e.due <= r.cycle + conf'.maxWait
    BY <1>1 DEF HoldInv, WaitsAhead
  <1> QED
    BY <1>1, <1>5, <1>6, <1>7 DEF IdleUntilActive, WaitsAhead

(* A return in time is covered by the wait event of its cycle; a late one  *)
(* adds nothing.                                                           *)
LEMMA FinishHold ==
    ASSUME HoldInv, Limited, NEW l \in LMs, FinishRun(l)
    PROVE  IdleUntilActive' /\ WaitsAhead'
  <1> USE DEF setupVars
  <1>1. active /\ active' = active
    BY DEF FinishRun, HoldInv, IdleUntilActive
  <1>2. UNCHANGED <<conf, now, queries, processEvent, lmQueryCycle>>
    BY DEF FinishRun
  <1>3. CASE UNCHANGED <<lmQueryCommands, waitEvents>>
    BY <1>1, <1>2, <1>3 DEF HoldInv, WaitsAhead, IdleUntilActive
  <1>4. CASE Collected(lmQueryCommands)' = {} /\ waitEvents' \subseteq waitEvents
    BY <1>1, <1>2, <1>4 DEF HoldInv, WaitsAhead, IdleUntilActive
  <1>5. CASE /\ lmQueryCommands' = Filed(l) /\ UNCHANGED waitEvents
             /\ lmRun[l].cycle = lmQueryCycle
    <2> SUFFICES ASSUME NEW r \in Collected(Filed(l))
                 PROVE  \E e \in waitEvents : e.due <= r.cycle + conf.maxWait
      BY <1>1, <1>2, <1>5 DEF HoldInv, WaitsAhead, IdleUntilActive
    <2>1. CASE r \in Collected(lmQueryCommands)
      BY <2>1 DEF HoldInv, WaitsAhead
    <2>2. CASE Waiting /\ r = ResultOf(l)
      <3>1. PICK e \in waitEvents : e.query = processEvent
        BY <2>2 DEF Waiting
      <3>2. e.due = lmQueryCycle + conf.maxWait /\ e.due \in Nat
        BY <3>1, WaitNumbers DEF HoldInv, WaitsAhead
      <3>3. r.cycle = lmQueryCycle
        BY <1>5, <2>2 DEF ResultOf
      <3> QED
        BY <3>2, <3>3
    <2>3. CASE ~Waiting
      <3>1. conf.maxWait # 0 /\ conf.latePolicy # "SAVE"
        BY Numbers DEF HoldInv, Limited
      <3>2. /\ Filed(l) \in Maps /\ lmQueryCommands \in Maps
            /\ DOMAIN Filed(l) = DOMAIN lmQueryCommands
            /\ \A k \in DOMAIN Filed(l) : Filed(l)[k] \subseteq lmQueryCommands[k]
        <4>1. ~InTime
          BY <2>3, <3>1 DEF InTime
        <4>2. CASE KeyOf(l) \in DOMAIN lmQueryCommands
          <5>1. Filed(l) = Put(lmQueryCommands, KeyOf(l), {})
            BY <3>1, <4>1, <4>2 DEF Filed
          <5>2. Filed(l) \in Maps /\ lmQueryCommands \in Maps
            BY FiledShape, MapShape DEF HoldInv, TypeOK
          <5> QED
            BY <4>2, <5>1, <5>2 DEF Put
        <4>3. CASE KeyOf(l) \notin DOMAIN lmQueryCommands
          <5>1. Filed(l) = lmQueryCommands
            BY <3>1, <4>1, <4>3 DEF Filed
          <5>2. Filed(l) \in Maps
            BY FiledShape DEF HoldInv
          <5> QED
            BY <5>1, <5>2
        <4> QED
          BY <4>2, <4>3
      <3>3. r \in Collected(lmQueryCommands)
        BY <3>2, CollectedShape
      <3> QED
        BY <2>1, <3>3
    <2> QED
      BY <2>1, <2>2, <2>3, FiledShape DEF HoldInv
  <1>6. ProcessLmQueryCommands(Filed(l), waitEvents)
          => Collected(lmQueryCommands)' = {} /\ waitEvents' \subseteq waitEvents
    <2> SUFFICES ASSUME ProcessLmQueryCommands(Filed(l), waitEvents)
                 PROVE  Collected(lmQueryCommands)' = {} /\ waitEvents' \subseteq waitEvents
      OBVIOUS
    <2>1. lmQueryCommands' = EmptyMap /\ waitEvents' \subseteq waitEvents
      BY <1>1 DEF ProcessLmQueryCommands, CancelProcessEvent
    <2> QED
      BY <2>1, EmptyMapShape
  <1> QED
    BY <1>3, <1>4, <1>5, <1>6 DEF FinishRun, NotifyLmFinished

(* The end of a wait empties the collection.                               *)
LEMMA WaitHold ==
    ASSUME HoldInv, Limited, WaitExpires
    PROVE  IdleUntilActive' /\ WaitsAhead'
  <1>1. PICK e \in waitEvents : ProcessLmQueryCommands(lmQueryCommands, waitEvents \ {e})
    BY DEF WaitExpires
  <1>2. active /\ active' = active
    BY <1>1 DEF HoldInv, IdleUntilActive, WaitExpires
  <1>3. lmQueryCommands' = EmptyMap /\ waitEvents' \subseteq waitEvents
    BY <1>1, <1>2 DEF ProcessLmQueryCommands, CancelProcessEvent
  <1>4. Collected(lmQueryCommands)' = {}
    BY <1>3, EmptyMapShape
  <1>5. UNCHANGED <<conf, now, queries, processEvent, lmQueryCycle>>
    BY DEF WaitExpires, setupVars
  <1> QED
    BY <1>2, <1>3, <1>4, <1>5 DEF HoldInv, WaitsAhead, IdleUntilActive

(* Every step keeps HoldInv.                                               *)
LEMMA HoldStep == HoldInv /\ [Next]_vars => HoldInv'
  <1> SUFFICES ASSUME HoldInv, [Next]_vars, Limited'
               PROVE  IdleUntilActive' /\ WaitsAhead'
    BY NextTyped DEF HoldInv
  <1> USE DEF setupVars, lmVars
  <1>1. conf' = conf
    BY DEF Next, WaitExpires, FinishRun, PeriodicQuery, QueryLms, NotifyReportReceived,
           Activate, Deactivate, Start, Stop, AddLogicModule, RemoveLogicModule,
           SetDefaultLogicModule, Tick, Ended, vars
  <1>2. Limited
    BY <1>1 DEF Limited
  <1>3. CASE WaitExpires
    BY <1>2, <1>3, WaitHold
  <1>4. ASSUME NEW l \in LMs, FinishRun(l)
        PROVE  IdleUntilActive' /\ WaitsAhead'
    BY <1>2, <1>4, FinishHold
  <1>5. CASE QueryLms /\ active
    BY <1>2, <1>5, QueryHold
  <1>6. CASE Tick
    <2>1. \A e \in waitEvents : e.due >= now /\ e.due # now
      BY <1>2, <1>6 DEF HoldInv, WaitsAhead, Tick
    <2>2. now \in Nat /\ \A e \in waitEvents : e.due \in Nat
      BY Numbers, WaitNumbers DEF HoldInv
    <2>3. \A e \in waitEvents : e.due >= now + 1
      BY <2>1, <2>2
    <2>4. /\ now' = now + 1
          /\ UNCHANGED <<conf, active, lmRun, lmQueryCommands, waitEvents, queries,
                         processEvent, lmQueryCycle>>
      BY <1>6 DEF Tick
    <2> QED
      BY <1>2, <2>3, <2>4 DEF HoldInv, WaitsAhead, IdleUntilActive, IsRunning
  <1>7. CASE /\ UNCHANGED <<now, lmRun, lmQueryCommands, waitEvents, queries, processEvent,
                            lmQueryCycle>>
             /\ active' = active \/ active'
    BY <1>1, <1>2, <1>7 DEF HoldInv, WaitsAhead, IdleUntilActive, IsRunning
  <1>8. ~Stop /\ ~Deactivate
    BY <1>2 DEF Limited, Stop, Deactivate
  <1>9. CASE PeriodicQuery
    BY <1>5, <1>7, <1>9 DEF PeriodicQuery
  <1>10. CASE NotifyReportReceived
    BY <1>5, <1>10 DEF NotifyReportReceived
  <1>11. CASE Activate \/ Start
    BY <1>7, <1>11 DEF Activate, Start
  <1>12. ASSUME NEW l \in LMs,
                AddLogicModule(l) \/ RemoveLogicModule(l) \/ SetDefaultLogicModule(l)
         PROVE  IdleUntilActive' /\ WaitsAhead'
    BY <1>7, <1>12 DEF AddLogicModule, RemoveLogicModule, SetDefaultLogicModule
  <1>13. CASE Ended \/ UNCHANGED vars
    BY <1>7, <1>13 DEF Ended, vars
  <1> QED
    BY <1>3, <1>4, <1>6, <1>8, <1>9, <1>10, <1>11, <1>12, <1>13 DEF Next

(* The initial state satisfies HoldInv.                                    *)
LEMMA HoldInit == Init => HoldInv
  <1> SUFFICES ASSUME Init PROVE IdleUntilActive /\ WaitsAhead
    BY InitTyped DEF HoldInv
  <1>1. \A l \in LMs : ~IsRunning(l)
    BY DEF Init, IsRunning, NoRun
  <1>2. Collected(lmQueryCommands) = {} /\ waitEvents = {}
    BY EmptyMapShape DEF Init
  <1> QED
    BY <1>1, <1>2 DEF IdleUntilActive, WaitsAhead

(* A RIC with a wait limit that drops late commands and is not stopped     *)
(* holds no command longer than the limit, for all LMs, delays, intervals  *)
(* and report-triggered queries.                                           *)
THEOREM HeldWithinLimit == Spec => []HoldBound
  BY HoldInit, HoldStep, HoldInvImplies, PTL DEF Spec

-----------------------------------------------------------------------------
(***************************************************************************)
(* One result of an LM.  An entry of m_lmQueryCommands holds at most one   *)
(* result, and, as long as no LM changes its role, only of the LM whose    *)
(* key it is.                                                              *)
(***************************************************************************)
RolesFixed == "SetDefaultLogicModule" \notin conf.ops

Entries(map) == \A k \in DOMAIN map : \A r \in map[k] : /\ k = KeyOf(r.lm)
                                                        /\ \A q \in map[k] : q = r

EntryInv == TypeOK /\ (RolesFixed => Entries(lmQueryCommands))

(* Filing a result keeps every entry to one result of its LM.              *)
LEMMA FiledEntries ==
    ASSUME TypeOK, NEW l \in LMs, Entries(lmQueryCommands)
    PROVE  Entries(Filed(l))
  <1> SUFFICES ASSUME NEW k \in DOMAIN Filed(l), NEW r \in Filed(l)[k]
               PROVE  k = KeyOf(r.lm) /\ \A q \in Filed(l)[k] : q = r
    BY DEF Entries
  <1>1. CASE k = KeyOf(l)
    <2>1. Filed(l)[k] \subseteq {ResultOf(l)}
      BY <1>1, FiledShape
    <2>2. ResultOf(l).lm = l
      BY DEF ResultOf
    <2> QED
      BY <1>1, <2>1, <2>2
  <1>2. CASE k # KeyOf(l)
    <2>1. k \in DOMAIN lmQueryCommands /\ Filed(l)[k] = lmQueryCommands[k]
      BY <1>2, FiledShape
    <2> QED
      BY <2>1 DEF Entries
  <1> QED
    BY <1>1, <1>2

(* The default LM changes only by SetDefaultLogicModule.                   *)
LEMMA RolesStay ==
    ASSUME [Next]_vars
    PROVE  conf' = conf /\ (RolesFixed => defaultLm' = defaultLm)
  <1> USE DEF setupVars, lmVars
  <1>1. CASE WaitExpires \/ PeriodicQuery \/ NotifyReportReceived
    BY <1>1 DEF WaitExpires, PeriodicQuery, NotifyReportReceived, QueryLms
  <1>2. ASSUME NEW l \in LMs, FinishRun(l) PROVE UNCHANGED <<conf, defaultLm>>
    BY <1>2 DEF FinishRun
  <1>3. CASE Activate \/ Deactivate \/ Start \/ Stop
    BY <1>3 DEF Activate, Deactivate, Start, Stop
  <1>4. ASSUME NEW l \in LMs, AddLogicModule(l) \/ RemoveLogicModule(l)
        PROVE  UNCHANGED <<conf, defaultLm>>
    BY <1>4 DEF AddLogicModule, RemoveLogicModule
  <1>5. ASSUME NEW l \in LMs, SetDefaultLogicModule(l) PROVE ~RolesFixed /\ conf' = conf
    BY <1>5 DEF SetDefaultLogicModule, RolesFixed
  <1>6. CASE Tick \/ UNCHANGED vars
    BY <1>6 DEF Tick, vars
  <1> QED
    BY <1>1, <1>2, <1>3, <1>4, <1>5, <1>6 DEF Next, Ended

(* The collection after a step: as before, cleared, or with one more       *)
(* result filed.                                                           *)
LEMMA CollectionAfter ==
    ASSUME [Next]_vars
    PROVE  lmQueryCommands' \in {lmQueryCommands, EmptyMap} \cup {Filed(l) : l \in LMs}
  <1> USE DEF setupVars, lmVars
  <1>1. CASE WaitExpires
    BY <1>1 DEF WaitExpires, ProcessLmQueryCommands
  <1>2. ASSUME NEW l \in LMs, FinishRun(l)
        PROVE  lmQueryCommands' \in {lmQueryCommands, EmptyMap, Filed(l)}
    BY <1>2 DEF FinishRun, NotifyLmFinished, ProcessLmQueryCommands
  <1>3. CASE PeriodicQuery \/ NotifyReportReceived
    BY <1>3 DEF PeriodicQuery, NotifyReportReceived, QueryLms
  <1>4. CASE Activate \/ Deactivate \/ Start \/ Stop \/ Tick \/ UNCHANGED vars
    BY <1>4 DEF Activate, Deactivate, Start, Stop, Tick, vars
  <1>5. ASSUME NEW l \in LMs,
               AddLogicModule(l) \/ RemoveLogicModule(l) \/ SetDefaultLogicModule(l)
        PROVE  lmQueryCommands' = lmQueryCommands
    BY <1>5 DEF AddLogicModule, RemoveLogicModule, SetDefaultLogicModule
  <1> QED
    BY <1>1, <1>2, <1>3, <1>4, <1>5 DEF Next, Ended

(* Every step keeps the entries.                                           *)
LEMMA EntryStep == EntryInv /\ [Next]_vars => EntryInv'
  <1> SUFFICES ASSUME EntryInv, [Next]_vars, RolesFixed' PROVE Entries(lmQueryCommands)'
    BY NextTyped DEF EntryInv
  <1>1. RolesFixed /\ defaultLm' = defaultLm
    BY RolesStay DEF RolesFixed
  <1>2. Entries(lmQueryCommands')
    BY <1>1, CollectionAfter, FiledEntries, EmptyMapShape DEF EntryInv, Entries
  <1> QED
    BY <1>1, <1>2 DEF Entries, KeyOf

(* An LM that keeps its role never has two results in one collection, for  *)
(* any set of LMs and any order of queries, returns and restarts.          *)
THEOREM OneResultOfEachLm == Spec => []OneResultPerLm
  <1>1. Init => EntryInv
    BY InitTyped, EmptyMapShape DEF Init, EntryInv, Entries
  <1>2. EntryInv => OneResultPerLm
    <2> SUFFICES ASSUME EntryInv, RolesFixed,
                        NEW r1 \in Collected(lmQueryCommands),
                        NEW r2 \in Collected(lmQueryCommands), r1.lm = r2.lm
                 PROVE  r1 = r2
      BY DEF OneResultPerLm, RolesFixed
    <2>1. lmQueryCommands \in Maps
      BY MapShape DEF EntryInv, TypeOK
    <2>2. PICK k \in DOMAIN lmQueryCommands : r1 \in lmQueryCommands[k]
      BY <2>1, CollectedShape
    <2>3. PICK j \in DOMAIN lmQueryCommands : r2 \in lmQueryCommands[j]
      BY <2>1, CollectedShape
    <2>4. k = KeyOf(r1.lm) /\ j = KeyOf(r2.lm)
      BY <2>2, <2>3 DEF EntryInv, Entries
    <2> QED
      BY <2>2, <2>3, <2>4 DEF EntryInv, Entries
  <1> QED
    BY <1>1, <1>2, EntryStep, PTL DEF Spec

-----------------------------------------------------------------------------
(***************************************************************************)
(* A RIC that is started and left alone.                                   *)
(***************************************************************************)
Alone == conf.ops \subseteq {"Start", "Activate"}

\* The LMs of an active RIC are active; after the first query the next one is
\* always an interval away.
Settled ==
    /\ detached = {}
    /\ active => \A l \in Registered : lmActive[l]
    /\ ~active => lmQueryEvent = Never /\ queries = 0
    /\ queries = 0 => DOMAIN lmQueryCommands = {} /\ \A l \in LMs : ~IsRunning(l)
    /\ queries # 0 => lmQueryEvent = lmQueryCycle + conf.interval

AloneInv == CycleInv /\ (Alone => Settled)

(* What can happen to a RIC that is left alone.                            *)
LEMMA AloneSteps ==
    ASSUME Alone, [Next]_vars
    PROVE  \/ WaitExpires \/ \E l \in LMs : FinishRun(l)
           \/ PeriodicQuery \/ Activate \/ Start \/ Tick \/ UNCHANGED vars
  BY DEF Alone, Next, Ended, NotifyReportReceived, Deactivate, Stop, AddLogicModule,
         RemoveLogicModule, SetDefaultLogicModule

(* Such a RIC keeps its LMs.                                               *)
LEMMA AloneStays ==
    ASSUME Alone, [Next]_vars
    PROVE  UNCHANGED <<conf, defaultLm, additionalLms, detached>>
  <1> USE DEF setupVars, lmVars
  <1>1. ASSUME NEW l \in LMs, FinishRun(l)
        PROVE  UNCHANGED <<conf, defaultLm, additionalLms, detached>>
    BY <1>1 DEF FinishRun
  <1>2. CASE WaitExpires \/ PeriodicQuery \/ Activate \/ Start \/ Tick \/ UNCHANGED vars
    BY <1>2 DEF WaitExpires, PeriodicQuery, QueryLms, Activate, Start, Tick, vars
  <1> QED
    BY <1>1, <1>2, AloneSteps

(* In such a RIC, a run that finishes is one of the current cycle, of an   *)
(* active LM, and so is filed.                                             *)
LEMMA AloneFinish ==
    ASSUME AloneInv, Alone, NEW l \in LMs, FinishRun(l)
    PROVE  /\ active /\ queries # 0 /\ l \in Registered /\ lmRun[l].cycle = lmQueryCycle
           /\ aborted' = aborted
           /\ IF AllReturned(Filed(l)) /\ InTime
                THEN /\ lmQueryCommands' = EmptyMap
                     /\ sent' = sent \cup Collected(Filed(l))
                     /\ waitEvents' = CancelProcessEvent(waitEvents)
                ELSE /\ lmQueryCommands' = Filed(l)
                     /\ UNCHANGED <<sent, waitEvents>>
  <1>1. Settled /\ RunsOwned /\ IsRunning(l)
    BY DEF AloneInv, CycleInv, FinishRun
  <1>2. queries # 0 /\ active
    BY <1>1 DEF Settled
  <1>3. l \in Registered /\ lmRun[l].cycle = lmQueryCycle /\ lmActive[l]
    BY <1>1, <1>2 DEF Settled, RunsOwned
  <1>4. NotifyLmFinished(l)
    BY <1>3 DEF FinishRun
  <1> QED
    BY <1>2, <1>3, <1>4 DEF NotifyLmFinished, ProcessLmQueryCommands

(* Every step keeps such a RIC settled.                                    *)
LEMMA AloneStep == AloneInv /\ [Next]_vars => AloneInv'
  <1> SUFFICES ASSUME AloneInv, [Next]_vars, Alone' PROVE Settled'
    BY CycleStep DEF AloneInv
  <1> USE DEF setupVars, lmVars
  <1>1. Alone /\ UNCHANGED <<conf, defaultLm, additionalLms, detached>>
    BY RolesStay, AloneStays DEF Alone
  <1>2. Settled /\ TypeOK /\ UNCHANGED Registered
    BY <1>1 DEF AloneInv, CycleInv, Registered
  <1>3. CASE WaitExpires
    <2>1. /\ lmQueryCommands' \in {lmQueryCommands, EmptyMap}
          /\ UNCHANGED <<now, active, lmVars, lmQueryCycle, lmQueryEvent, queries>>
      BY <1>3 DEF WaitExpires, ProcessLmQueryCommands
    <2> QED
      BY <1>1, <1>2, <2>1, EmptyMapShape DEF Settled, IsRunning
  <1>4. ASSUME NEW l \in LMs, FinishRun(l) PROVE Settled'
    <2>1. /\ active /\ queries # 0
          /\ UNCHANGED <<active, lmActive, lmQueryCycle, lmQueryEvent, queries>>
      BY <1>1, <1>4, AloneFinish DEF FinishRun
    <2> QED
      BY <1>1, <1>2, <2>1 DEF Settled
  <1>5. CASE PeriodicQuery
    <2>1. active
      BY <1>2, <1>5, Numbers DEF PeriodicQuery, Settled, Never
    <2>2. /\ queries' = queries + 1 /\ lmQueryCycle' = now /\ lmQueryEvent' = now + conf.interval
          /\ UNCHANGED <<active, lmActive>>
      BY <1>5, <2>1 DEF PeriodicQuery, QueryLms
    <2>3. queries' # 0
      BY <1>2, <2>2, Numbers
    <2> QED
      BY <1>1, <1>2, <2>1, <2>2, <2>3 DEF Settled
  <1>6. CASE Activate \/ Start
    <2>1. /\ active' /\ lmActive' = ActivatedLms
          /\ UNCHANGED <<lmRun, lmQueryCycle, lmQueryCommands, queries>>
          /\ lmQueryEvent' = lmQueryEvent \/ lmQueryEvent = Never
      BY <1>6 DEF Activate, Start
    <2>2. \A l \in Registered : lmActive'[l]
      BY <1>2, <2>1 DEF ActivatedLms, Settled, TypeOK, Registered
    <2>3. queries # 0 => lmQueryEvent' = lmQueryEvent
      <3>1. lmQueryCycle \in Nat /\ conf.interval \in Nat
        BY <1>2, Numbers
      <3> QED
        BY <1>2, <2>1, <3>1 DEF Settled, Never
    <2> QED
      BY <1>1, <1>2, <2>1, <2>2, <2>3 DEF Settled, IsRunning
  <1>7. CASE Tick \/ UNCHANGED vars
    <2>1. UNCHANGED <<active, lmVars, lmQueryCycle, lmQueryEvent, lmQueryCommands, queries>>
      BY <1>7 DEF Tick, vars
    <2> QED
      BY <1>1, <1>2, <2>1 DEF Settled, IsRunning
  <1> QED
    BY <1>1, <1>3, <1>4, <1>5, <1>6, <1>7, AloneSteps

(* The initial state.                                                      *)
LEMMA InitAlone == Init => AloneInv
  <1> SUFFICES ASSUME Init PROVE AloneInv
    OBVIOUS
  <1>1. \A l \in LMs : ~IsRunning(l)
    BY DEF Init, IsRunning, NoRun
  <1>2. CycleInv
    BY <1>1, InitTyped DEF Init, CycleInv, RunsOwned, UnexpectedCycleOnlyIfDetached
  <1> QED
    BY <1>1, <1>2, EmptyMapShape DEF Init, AloneInv, Settled

-----------------------------------------------------------------------------
(***************************************************************************)
(* Counting the entries of m_lmQueryCommands.  In a RIC that is left       *)
(* alone, without a wait limit and with LMs that finish before the next    *)
(* query, the entries are those of the LMs that have returned.             *)
(***************************************************************************)
Busy == \E l \in LMs : IsRunning(l)
Returned == {l \in Registered : ~IsRunning(l)}
KeysOf(S) == {KeyOf(l) : l \in S}

Fresh(map) == \A r \in Collected(map) : r.cycle = lmQueryCycle

Counted ==
    /\ waitEvents = {}
    /\ \A l \in LMs : IsRunning(l) => now <= lmRun[l].due /\ lmRun[l].due < lmQueryEvent
    /\ \A k \in DOMAIN lmQueryCommands : lmQueryCommands[k] # {}
    /\ DOMAIN lmQueryCommands = IF Busy THEN KeysOf(Returned) ELSE {}
    /\ Fresh(lmQueryCommands)

CountInv == AloneInv /\ EntryInv /\ OnceInv /\ (NoLimitFastLms => Counted)

(* The keys of LMs are as many as the LMs.                                 *)
LEMMA KeyCount ==
    ASSUME NEW S \in SUBSET LMs
    PROVE  IsFiniteSet(S) /\ Cardinality(KeysOf(S)) = Cardinality(S)
  <1>1. IsFiniteSet(S)
    BY LmAssumption, FS_Subset
  <1> DEFINE f == [l \in S |-> KeyOf(l)]
  <1>2. f \in Bijection(S, KeysOf(S))
    <2>1. f \in [S -> KeysOf(S)]
      BY DEF KeysOf
    <2>2. \A x, y \in S : f[x] = f[y] => x = y
      BY DEF KeyOf
    <2>3. \A k \in KeysOf(S) : \E x \in S : f[x] = k
      BY DEF KeysOf
    <2> HIDE DEF f
    <2> QED
      BY <2>1, <2>2, <2>3 DEF Bijection, Injection, Surjection, IsInjective
  <1>3. ExistsBijection(S, KeysOf(S))
    BY <1>2 DEF ExistsBijection
  <1> QED
    BY <1>1, <1>3, FS_Bijection

(* AllReturned of the keys of some LMs holds just when they are all.       *)
LEMMA AllCounted ==
    ASSUME TypeOK, defaultLm \notin additionalLms, NEW S \in SUBSET Registered,
           NEW map, DOMAIN map = KeysOf(S)
    PROVE  AllReturned(map) <=> S = Registered
  <1>1. /\ Registered \in SUBSET LMs /\ additionalLms \in SUBSET LMs
        /\ Registered = additionalLms \cup {defaultLm}
    BY DEF TypeOK, Registered
  <1>2. IsFiniteSet(additionalLms) /\ IsFiniteSet(Registered)
    BY <1>1, LmAssumption, FS_Subset
  <1>3. Cardinality(Registered) = Cardinality(additionalLms) + 1
    BY <1>1, <1>2, FS_AddElement
  <1>4. Cardinality(DOMAIN map) = Cardinality(S)
    BY <1>1, KeyCount
  <1>5. Cardinality(S) = Cardinality(Registered) => S = Registered
    BY <1>2, FS_Subset
  <1> QED
    BY <1>3, <1>4, <1>5 DEF AllReturned

(* The return of an LM sends the collection just when it is the last one,  *)
(* and then every registered LM has its entry.                             *)
LEMMA FinishCounts ==
    ASSUME CountInv, NoLimitFastLms, NEW l \in LMs, FinishRun(l)
    PROVE  /\ \A m \in LMs : IsRunning(m)' <=> m # l /\ IsRunning(m)
           /\ \A m \in LMs : m # l => lmRun'[m] = lmRun[m]
           /\ DOMAIN Filed(l) = KeysOf({m \in Registered : ~IsRunning(m)'})
           /\ \A k \in DOMAIN Filed(l) : Filed(l)[k] # {}
           /\ Fresh(Filed(l))
           /\ IF Busy' THEN lmQueryCommands' = Filed(l) /\ sent' = sent
                       ELSE /\ lmQueryCommands' = EmptyMap
                            /\ sent' = sent \cup Collected(Filed(l))
                            /\ DOMAIN Filed(l) = KeysOf(Registered)
           /\ waitEvents' = {}
  <1>0. TypeOK /\ AloneInv /\ Alone /\ Counted /\ defaultLm \notin additionalLms
        /\ conf.maxWait = 0 /\ InTime
    BY DEF CountInv, NoLimitFastLms, Undisturbed, Alone, EntryInv, InTime
  <1>1. lmRun' = [lmRun EXCEPT ![l] = NoRun] /\ IsRunning(l)
    BY DEF FinishRun
  <1>2. \A m \in LMs : lmRun'[m] = IF m = l THEN NoRun ELSE lmRun[m]
    BY <1>0, <1>1 DEF TypeOK
  <1>3. \A m \in LMs : IsRunning(m)' <=> m # l /\ IsRunning(m)
    BY <1>2 DEF IsRunning, NoRun
  <1>4. /\ l \in Registered /\ lmRun[l].cycle = lmQueryCycle
        /\ IF AllReturned(Filed(l)) /\ InTime
             THEN /\ lmQueryCommands' = EmptyMap
                  /\ sent' = sent \cup Collected(Filed(l))
                  /\ waitEvents' = CancelProcessEvent(waitEvents)
             ELSE /\ lmQueryCommands' = Filed(l)
                  /\ UNCHANGED <<sent, waitEvents>>
    BY <1>0, AloneFinish
  <1> DEFINE S == {m \in Registered : ~IsRunning(m)'}
  <1>5. Registered \subseteq LMs
    BY <1>0 DEF TypeOK, Registered
  <1>6. S = Returned \cup {l}
    BY <1>3, <1>4, <1>5 DEF Returned
  <1>7. Busy /\ DOMAIN lmQueryCommands = KeysOf(Returned)
    BY <1>0, <1>1 DEF Busy, Counted
  <1>8. /\ DOMAIN Filed(l) = DOMAIN lmQueryCommands \cup {KeyOf(l)}
        /\ Filed(l)[KeyOf(l)] = {ResultOf(l)}
        /\ \A k \in DOMAIN Filed(l) : k # KeyOf(l) => Filed(l)[k] = lmQueryCommands[k]
        /\ Collected(Filed(l)) \subseteq Collected(lmQueryCommands) \cup {ResultOf(l)}
    BY <1>0, FiledShape
  <1>9. DOMAIN Filed(l) = KeysOf(S)
    BY <1>6, <1>7, <1>8 DEF KeysOf
  <1>10. \A k \in DOMAIN Filed(l) : Filed(l)[k] # {}
    BY <1>0, <1>8 DEF Counted
  <1>11. Fresh(Filed(l))
    BY <1>0, <1>4, <1>8 DEF Counted, Fresh, ResultOf
  <1>12. AllReturned(Filed(l)) <=> S = Registered
    <2> HIDE DEF S
    <2>1. S \in SUBSET Registered
      BY DEF S
    <2> QED
      BY <1>0, <1>9, <2>1, AllCounted
  <1>13. Busy' <=> S # Registered
    <2>1. \A m \in LMs : IsRunning(m) => m \in Registered
      BY <1>0 DEF AloneInv, CycleInv, RunsOwned, Settled
    <2> QED
      BY <1>3, <1>5, <2>1 DEF Busy
  <1>14. waitEvents' = {}
    BY <1>0, <1>4 DEF Counted, CancelProcessEvent
  <1> QED
    BY <1>0, <1>2, <1>3, <1>4, <1>9, <1>10, <1>11, <1>12, <1>13, <1>14

(* At a query nothing runs and nothing is collected.                       *)
LEMMA QueryIdle ==
    ASSUME CountInv, NoLimitFastLms, lmQueryEvent = now
    PROVE  ~Busy /\ DOMAIN lmQueryCommands = {}
  <1>1. TypeOK /\ Counted
    BY DEF CountInv, EntryInv
  <1>2. \A l \in LMs : lmRun[l].due \in Nat
    BY <1>1 DEF TypeOK
  <1>3. ~Busy
    BY <1>1, <1>2, Numbers DEF Counted, Busy
  <1> QED
    BY <1>1, <1>3 DEF Counted

(* A collection without entries holds nothing.                             *)
LEMMA NothingCollected ==
    ASSUME TypeOK, DOMAIN lmQueryCommands = {}
    PROVE  Collected(lmQueryCommands) = {}
  BY DEF Collected

(* Every step keeps the entries those of the LMs that returned.            *)
LEMMA CountStep == CountInv /\ [Next]_vars => CountInv'
  <1> SUFFICES ASSUME CountInv, [Next]_vars, NoLimitFastLms' PROVE Counted'
    BY AloneStep, EntryStep, OnceStep DEF CountInv
  <1> USE DEF setupVars, lmVars
  <1>1. Alone
    BY RolesStay DEF NoLimitFastLms, Undisturbed, Alone
  <1>2. UNCHANGED <<conf, defaultLm, additionalLms>>
    BY <1>1, AloneStays
  <1>3. NoLimitFastLms
    BY <1>2 DEF NoLimitFastLms, Undisturbed
  <1>4. /\ TypeOK /\ Counted /\ AloneInv /\ Settled /\ RunsOwned /\ conf.maxWait = 0
        /\ now \in Nat /\ conf.interval \in Nat /\ conf.delays \in SUBSET Nat
        /\ \A l \in LMs : lmRun[l].due \in Nat
    BY <1>1, <1>3, Numbers
       DEF CountInv, AloneInv, CycleInv, NoLimitFastLms, TypeOK
  <1>5. UNCHANGED Registered /\ Registered \subseteq LMs
    BY <1>2, <1>4 DEF Registered, TypeOK
  <1>6. \A S \in SUBSET LMs : KeysOf(S)' = KeysOf(S)
    BY <1>2 DEF KeysOf, KeyOf
  <1>7. ASSUME UNCHANGED <<now, lmRun, lmQueryCycle, waitEvents, lmQueryCommands>>,
               Busy => lmQueryEvent' = lmQueryEvent
        PROVE  Counted'
    <2>1. Busy' = Busy /\ Returned' = Returned
      BY <1>5, <1>7 DEF Busy, Returned, IsRunning
    <2>2. KeysOf(Returned)' = KeysOf(Returned)
      BY <1>2, <2>1 DEF KeysOf, KeyOf
    <2>3. Fresh(lmQueryCommands)'
      BY <1>4, <1>7 DEF Counted, Fresh
    <2> QED
      BY <1>4, <1>7, <2>1, <2>2, <2>3 DEF Counted, IsRunning, Busy
  <1>8. ~WaitExpires
    BY <1>4 DEF WaitExpires, Counted
  <1>9. ASSUME NEW l \in LMs, FinishRun(l) PROVE Counted'
    <2>1. /\ \A m \in LMs : IsRunning(m)' <=> m # l /\ IsRunning(m)
          /\ \A m \in LMs : m # l => lmRun'[m] = lmRun[m]
          /\ DOMAIN Filed(l) = KeysOf({m \in Registered : ~IsRunning(m)'})
          /\ \A k \in DOMAIN Filed(l) : Filed(l)[k] # {}
          /\ Fresh(Filed(l))
          /\ lmQueryCommands' = IF Busy' THEN Filed(l) ELSE EmptyMap
          /\ waitEvents' = {}
      BY <1>3, <1>9, FinishCounts
    <2>2. UNCHANGED <<now, lmQueryCycle, lmQueryEvent>>
      BY <1>9 DEF FinishRun
    <2>3. \A m \in LMs : IsRunning(m)' => now' <= lmRun'[m].due /\ lmRun'[m].due < lmQueryEvent'
      BY <1>4, <2>1, <2>2 DEF Counted
    <2>4. Returned' = {m \in Registered : ~IsRunning(m)'}
      BY <1>5 DEF Returned
    <2>5. KeysOf(Returned)' = KeysOf({m \in Registered : ~IsRunning(m)'})
      BY <1>2, <2>4 DEF KeysOf, KeyOf
    <2>6. CASE Busy'
      <3>1. Fresh(lmQueryCommands)'
        BY <2>1, <2>2, <2>6 DEF Fresh
      <3> QED
        BY <2>1, <2>3, <2>5, <2>6, <3>1 DEF Counted
    <2>7. CASE ~Busy'
      <3>1. Fresh(lmQueryCommands)'
        BY <2>1, <2>7, EmptyMapShape DEF Fresh
      <3> QED
        BY <2>1, <2>3, <2>7, <3>1, EmptyMapShape DEF Counted
    <2> QED
      BY <2>6, <2>7
  <1>10. CASE PeriodicQuery
    <2>1. active /\ QueryLms /\ lmQueryEvent = now
      BY <1>4, <1>10 DEF PeriodicQuery, Settled, Never
    <2>2. ~Busy /\ DOMAIN lmQueryCommands = {}
      BY <1>3, <2>1, QueryIdle
    <2>3. PICK delay \in [LMs -> conf.delays] : lmRun' = RunLms(delay)
      BY <2>1 DEF QueryLms
    <2>4. /\ waitEvents' = waitEvents /\ lmQueryEvent' = now + conf.interval
          /\ UNCHANGED <<now, lmQueryCommands>>
      BY <1>4, <2>1 DEF QueryLms
    <2>5. \A l \in LMs : IF l \in Registered
                           THEN IsRunning(l)' /\ lmRun'[l].due = now + delay[l]
                           ELSE ~IsRunning(l)'
      BY <1>4, <1>5, <2>1, <2>2, <2>3 DEF RunLms, Settled, IsRunning, Busy
    <2>6. Busy' /\ Returned' = {}
      BY <1>4, <1>5, <2>5 DEF Busy, Returned, Registered, TypeOK
    <2>7. \A l \in LMs : now <= now + delay[l] /\ now + delay[l] < now + conf.interval
      BY <1>3, <1>4 DEF NoLimitFastLms
    <2>8. KeysOf(Returned)' = {}
      BY <2>6 DEF KeysOf
    <2>9. Collected(lmQueryCommands)' = {}
      BY <1>4, <2>2, <2>4, NothingCollected
    <2> QED
      BY <1>4, <2>2, <2>4, <2>5, <2>6, <2>7, <2>8, <2>9 DEF Counted, Fresh
  <1>11. CASE Activate \/ Start
    <2>1. /\ UNCHANGED <<now, lmRun, lmQueryCycle, waitEvents, lmQueryCommands>>
          /\ lmQueryEvent' = lmQueryEvent \/ lmQueryEvent = Never
      BY <1>11 DEF Activate, Start
    <2>2. Busy => lmQueryEvent # Never
      BY <1>4, Numbers DEF Busy, Settled, Never
    <2> QED
      BY <1>7, <2>1, <2>2
  <1>12. CASE Tick
    <2>1. /\ now' = now + 1 /\ \A l \in LMs : IsRunning(l) => lmRun[l].due # now
          /\ UNCHANGED <<lmRun, lmQueryCycle, lmQueryEvent, waitEvents, lmQueryCommands>>
      BY <1>12 DEF Tick
    <2>2. Busy' = Busy /\ Returned' = Returned
      BY <1>5, <2>1 DEF Busy, Returned, IsRunning
    <2>3. KeysOf(Returned)' = KeysOf(Returned)
      BY <1>2, <2>2 DEF KeysOf, KeyOf
    <2>4. \A l \in LMs : IsRunning(l) => now + 1 <= lmRun[l].due
      BY <1>4, <2>1 DEF Counted
    <2> QED
      BY <1>4, <2>1, <2>2, <2>3, <2>4 DEF Counted, Fresh, IsRunning
  <1>13. CASE UNCHANGED vars
    BY <1>7, <1>13 DEF vars
  <1> QED
    BY <1>1, <1>8, <1>9, <1>10, <1>11, <1>12, <1>13, AloneSteps

(* The initial state.                                                      *)
LEMMA InitCount == Init => CountInv
  <1> SUFFICES ASSUME Init PROVE CountInv
    OBVIOUS
  <1>1. \A l \in LMs : ~IsRunning(l)
    BY DEF Init, IsRunning, NoRun
  <1>2. lmQueryCommands = EmptyMap /\ waitEvents = {}
    BY DEF Init
  <1>3. Counted
    BY <1>1, <1>2, EmptyMapShape DEF Counted, Busy, Fresh
  <1>4. EntryInv
    BY <1>2, InitTyped, EmptyMapShape DEF EntryInv, Entries
  <1>5. OnceInv
    <2>1. Known = {}
      BY <1>2, EmptyMapShape DEF Init, Known
    <2> QED
      BY <1>1, <2>1, InitTyped DEF Init, OnceInv, RunsDistinct, Known
  <1> QED
    BY <1>3, <1>4, <1>5, InitAlone DEF CountInv

\* With a limit that ends before the next query, the collection is fresh
\* because HoldBound empties it in time.
FreshInv == CountInv /\ HoldInv /\ (LimitWithinInterval => Fresh(lmQueryCommands))

(* Every step keeps the collection fresh.                                  *)
LEMMA FreshStep == FreshInv /\ [Next]_vars => FreshInv'
  <1> SUFFICES ASSUME FreshInv, [Next]_vars, LimitWithinInterval'
               PROVE  Fresh(lmQueryCommands)'
    BY CountStep, HoldStep DEF FreshInv
  <1> USE DEF setupVars, lmVars
  <1>1. Alone /\ conf' = conf
    BY RolesStay DEF LimitWithinInterval, Undisturbed, Alone
  <1>2. UNCHANGED <<defaultLm, additionalLms>>
    BY <1>1, AloneStays
  <1>3. LimitWithinInterval /\ Limited
    BY <1>1, <1>2 DEF LimitWithinInterval, Undisturbed, Limited
  <1>4. /\ TypeOK /\ AloneInv /\ Settled /\ Fresh(lmQueryCommands) /\ HoldBound
        /\ conf.maxWait \in Nat /\ conf.interval \in Nat /\ lmQueryCycle \in Nat
        /\ now \in Nat /\ conf.maxWait < conf.interval
    BY <1>1, <1>3, HoldInvImplies, Numbers
       DEF FreshInv, CountInv, AloneInv, EntryInv, LimitWithinInterval
  <1>5. CASE WaitExpires
    BY <1>4, <1>5, EmptyMapShape DEF WaitExpires, ProcessLmQueryCommands, Fresh
  <1>6. ASSUME NEW l \in LMs, FinishRun(l) PROVE Fresh(lmQueryCommands)'
    <2>1. lmRun[l].cycle = lmQueryCycle /\ lmQueryCommands' \in {EmptyMap, Filed(l)}
      BY <1>1, <1>4, <1>6, AloneFinish
    <2>2. Collected(Filed(l)) \subseteq Collected(lmQueryCommands) \cup {ResultOf(l)}
      BY <1>4, FiledShape
    <2>3. UNCHANGED lmQueryCycle
      BY <1>6 DEF FinishRun
    <2>4. ResultOf(l).cycle = lmQueryCycle
      BY <2>1 DEF ResultOf
    <2>5. \A r \in Collected(lmQueryCommands') : r \in Collected(lmQueryCommands) \cup {ResultOf(l)}
      BY <2>1, <2>2, EmptyMapShape
    <2> QED
      BY <1>4, <2>3, <2>4, <2>5 DEF Fresh
  <1>7. CASE PeriodicQuery
    <2>1. active /\ QueryLms /\ lmQueryEvent = now
      BY <1>4, <1>7 DEF PeriodicQuery, Settled, Never
    <2>2. Collected(lmQueryCommands) = {}
      <3>1. CASE queries = 0
        BY <1>4, <3>1, NothingCollected DEF Settled
      <3>2. CASE queries # 0
        <4>1. now = lmQueryCycle + conf.interval
          BY <1>4, <2>1, <3>2 DEF Settled
        <4>2. \A r \in Collected(lmQueryCommands) :
                 r.cycle = lmQueryCycle /\ now <= r.cycle + conf.maxWait
          BY <1>3, <1>4 DEF Fresh, HoldBound, Limited
        <4> QED
          BY <1>4, <4>1, <4>2
      <3> QED
        BY <3>1, <3>2
    <2>3. lmQueryCommands' = lmQueryCommands
      BY <2>1 DEF QueryLms
    <2> QED
      BY <2>2, <2>3 DEF Fresh
  <1>8. CASE Activate \/ Start \/ Tick \/ UNCHANGED vars
    BY <1>4, <1>8 DEF Activate, Start, Tick, vars, Fresh
  <1> QED
    BY <1>1, <1>5, <1>6, <1>7, <1>8, AloneSteps

(* In a RIC that is left alone the collection never mixes two cycles, if   *)
(* there is no wait limit and all LMs finish before the next query, or if  *)
(* the limit ends before the next query and late commands are dropped.     *)
THEOREM CollectionIsFresh == Spec => []FreshCollection
  <1>1. Init => FreshInv
    <2> SUFFICES ASSUME Init PROVE Fresh(lmQueryCommands)
      BY InitCount, HoldInit DEF FreshInv
    <2> QED
      BY EmptyMapShape DEF Init, Fresh
  <1>2. FreshInv => FreshCollection
    BY DEF FreshInv, CountInv, Counted, FreshCollection, Fresh
  <1> QED
    BY <1>1, <1>2, FreshStep, PTL DEF Spec

(* In the first of these regimes, whatever is sent holds a new result of   *)
(* the current cycle of every LM: counting entries is a right test.        *)
LEMMA DispatchStep ==
    ASSUME CountInv, [Next]_vars, NoLimitFastLms, sent' # sent, NEW m \in Registered
    PROVE  \E r \in sent' \ sent : r.lm = m /\ r.cycle = lmQueryCycle
  <1> USE DEF setupVars, lmVars
  <1>1. Alone /\ TypeOK /\ Counted /\ RolesFixed
    BY DEF NoLimitFastLms, Undisturbed, Alone, RolesFixed, CountInv, EntryInv
  <1>2. ~WaitExpires
    BY <1>1 DEF WaitExpires, Counted
  <1>3. PICK l \in LMs : FinishRun(l)
    <2>1. CASE PeriodicQuery \/ Activate \/ Start \/ Tick \/ UNCHANGED vars
      BY <2>1 DEF PeriodicQuery, QueryLms, Activate, Start, Tick, vars
    <2> QED
      BY <1>1, <1>2, <2>1, AloneSteps
  <1>4. /\ sent' = sent \cup Collected(Filed(l)) /\ DOMAIN Filed(l) = KeysOf(Registered)
        /\ \A k \in DOMAIN Filed(l) : Filed(l)[k] # {}
        /\ Fresh(Filed(l))
    BY <1>3, FinishCounts
  <1>5. KeyOf(m) \in DOMAIN Filed(l)
    BY <1>4 DEF KeysOf
  <1>6. PICK r \in Filed(l)[KeyOf(m)] : TRUE
    BY <1>4, <1>5
  <1>7. /\ Filed(l) \in Maps
        /\ Collected(Filed(l)) \subseteq Collected(lmQueryCommands) \cup {ResultOf(l)}
    BY <1>1, FiledShape
  <1>8. r \in Collected(Filed(l))
    BY <1>5, <1>6, <1>7, CollectedShape
  <1>9. KeyOf(m) = KeyOf(r.lm)
    <2>1. Entries(Filed(l))
      BY <1>1, FiledEntries DEF CountInv, EntryInv
    <2> QED
      BY <1>5, <1>6, <2>1 DEF Entries
  <1>10. r.lm = m
    BY <1>9 DEF KeyOf
  <1>11. r \notin sent
    <2>1. CASE r \in Collected(lmQueryCommands)
      BY <2>1 DEF CountInv, OnceInv, RunsDistinct
    <2>2. CASE r = ResultOf(l)
      <3>1. IsRunning(l)
        BY <1>3 DEF FinishRun
      <3> QED
        BY <2>2, <3>1 DEF CountInv, OnceInv, RunsDistinct, Known, ResultOf
    <2> QED
      BY <1>7, <1>8, <2>1, <2>2
  <1> QED
    BY <1>4, <1>8, <1>10, <1>11 DEF Fresh

(* Without a wait limit, and with LMs that finish before the next query,   *)
(* ProcessLmQueryCommands sends a complete collection or none.             *)
THEOREM DispatchIsComplete == Spec => CompleteDispatch
  <1>1. CountInv /\ [Next]_vars =>
           [NoLimitFastLms /\ sent' # sent
            => \A l \in Registered : \E r \in sent' \ sent :
                  r.lm = l /\ r.cycle = lmQueryCycle]_vars
    BY DispatchStep
  <1> QED
    BY <1>1, InitCount, CountStep, PTL DEF Spec, CompleteDispatch
=============================================================================
