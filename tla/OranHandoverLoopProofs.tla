------------------------ MODULE OranHandoverLoopProofs ------------------------
(***************************************************************************)
(* Theorems about the handover loop, for any number of UEs, cells, places  *)
(* and RNTIs, any distances, LMs and conflict mitigation module.           *)
(***************************************************************************)
EXTENDS OranHandoverLoop, FiniteSetTheorems, WellFoundedInduction, TLAPS

(***************************************************************************)
(* What the LMs and the CMMs choose exists.                                *)
(***************************************************************************)

(* Of some numbers one is the least.                                       *)
LEMMA Least ==
    ASSUME NEW T \in SUBSET Nat, T # {}
    PROVE  \E x \in T : \A y \in T : x <= y
  <1> DEFINE R == {p \in Nat \X Nat : p[1] < p[2]}
  <1>1. IsWellFoundedOn(R, Nat)
    BY NatLessThanWellFounded, Zenon DEF OpToRel
  <1>2. \E x \in T : \A y \in T : ~(<<y, x>> \in R)
    BY <1>1, WFMin, Zenon
  <1>3. PICK x \in T : \A y \in T : ~(<<y, x>> \in R)
    BY <1>2
  <1>4. ASSUME NEW y \in T PROVE x <= y
    <2>1. x \in Nat /\ y \in Nat /\ ~(<<y, x>> \in R)
      BY <1>3
    <2> QED
      BY <2>1
  <1> QED
    BY <1>4

(* UEs and cells are numbered from 1.                                      *)
LEMMA Numbers ==
    /\ Ues \in SUBSET (Nat \ {0}) /\ Cells \in SUBSET (Nat \ {0})
    /\ IsFiniteSet(Ues) /\ IsFiniteSet(Cells)
    /\ Cardinality(Ues) \in Nat /\ Cardinality(Cells) \in Nat
    /\ \A c \in Cells : 1..c \subseteq Cells
  <1>1. /\ IsFiniteSet(Ues) /\ IsFiniteSet(Cells)
        /\ Ues = 1..Cardinality(Ues) /\ Cells = 1..Cardinality(Cells)
    BY LoopAssumption
  <1>2. Cardinality(Ues) \in Nat /\ Cardinality(Cells) \in Nat
    BY <1>1, FS_CardinalityType
  <1>3. ASSUME NEW c \in Cells PROVE 1..c \subseteq Cells
    BY <1>1, <1>2
  <1> QED
    BY <1>1, <1>2, <1>3

(* The list of eNBs has a first closest one.                               *)
LEMMA ClosestListed ==
    ASSUME NEW p \in Places, conf.listed \in SUBSET Cells, conf.listed # {}
    PROVE  Closest(p) \in conf.listed
  <1> DEFINE L == conf.listed
             D == {Distance[p][c] : c \in L}
  <1>1. Cells \in SUBSET Nat /\ \A c \in L : Distance[p][c] \in Nat
    BY LoopAssumption, Numbers
  <1>2. D \in SUBSET Nat /\ D # {}
    BY <1>1
  <1>3. PICK d \in D : \A e \in D : d <= e
    BY <1>2, Least
  <1> DEFINE N == {c \in L : Distance[p][c] = d}
  <1>4. N \in SUBSET Nat /\ N # {}
    BY <1>1
  <1>5. PICK c \in N : \A e \in N : c <= e
    BY <1>4, Least
  <1>6. c \in L /\ \A e \in L : \/ Distance[p][c] < Distance[p][e]
                                \/ Distance[p][c] = Distance[p][e] /\ c <= e
    BY <1>1, <1>3, <1>5
  <1> QED
    BY <1>6, Zenon DEF Closest

(* Some commands have a first one.                                         *)
LEMMA FirstIn ==
    ASSUME NEW cmds \in SUBSET Command, cmds # {}
    PROVE  First(cmds) \in cmds
  <1> DEFINE N == {c.ue : c \in cmds}
  <1>1. N \in SUBSET Nat /\ N # {}
    BY Numbers DEF Command
  <1>2. PICK n \in N : \A m \in N : n <= m
    BY <1>1, Least
  <1>3. \E c \in cmds : \A d \in cmds : c.ue <= d.ue
    BY <1>2
  <1> QED
    BY <1>3, Zenon DEF First

(***************************************************************************)
(* The commands of one LM on what the repository has: one for each UE at   *)
(* most, with the RNTI of its cell info, to another cell; and if the       *)
(* repository lists the cells that serve UEs, addressed to its cell.       *)
(***************************************************************************)
Decision(c) ==
    /\ c \in Command /\ c.ue \in Known
    /\ c.rnti = cellInfo[c.ue].rnti /\ c.cell # cellInfo[c.ue].cell
    /\ ServingListed /\ cellInfo[c.ue].cell \in conf.listed
       => c.target = cellInfo[c.ue].cell /\ c.cell \in conf.listed

OnePerUe(X) == \A c, d \in X : c.ue = d.ue => c = d

Decided(X) == (\A c \in X : Decision(c)) /\ OnePerUe(X)

(* What is known of a UE.                                                  *)
LEMMA KnownTyped ==
    ASSUME TypeOK
    PROVE  /\ Known \in SUBSET Ues
           /\ \A u \in Known : cellInfo[u] \in CellInfo /\ position[u] \in Places
           /\ \A u \in Known : cellInfo[u].cell \in Cells /\ cellInfo[u].rnti \in Rnti
           /\ conf \in Config /\ conf.listed \in SUBSET Cells
  <1>1. /\ cellInfo \in [Ues -> CellInfo \cup {Unknown}]
        /\ position \in [Ues -> Places \cup {Unknown}]
        /\ conf \in Configs
    BY DEF TypeOK
  <1>2. conf \in Config
    BY <1>1, LoopAssumption
  <1>3. conf.listed \in SUBSET Cells
    BY <1>2 DEF Config
  <1>4. Known \in SUBSET Ues
    BY DEF Known
  <1>5. \A u \in Known : cellInfo[u] \in CellInfo /\ position[u] \in Places
    BY <1>1 DEF Known
  <1>6. \A u \in Known : cellInfo[u].cell \in Cells /\ cellInfo[u].rnti \in Rnti
    BY <1>5 DEF CellInfo
  <1> QED
    BY <1>2, <1>3, <1>4, <1>5, <1>6

(* The fields of a command.                                                *)
LEMMA HandoverShape ==
    ASSUME NEW u, NEW old, NEW new
    PROVE  /\ Handover(u, old, new).ue = u /\ Handover(u, old, new).target = old
           /\ Handover(u, old, new).cell = new
           /\ Handover(u, old, new).rnti = cellInfo[u].rnti
           /\ u \in Ues /\ old \in Targets /\ new \in Cells /\ cellInfo[u].rnti \in Rnti
              => Handover(u, old, new) \in Command
  BY DEF Handover, Command

(* OranLmLte2LteDistanceHandover.                                          *)
LEMMA DistanceDecided ==
    ASSUME TypeOK, NEW old \in [Known -> Targets],
           \A u \in Known : old[u] \in OldCellNodeIds(u)
    PROVE  Decided(DistanceCommands(old))
  <1> DEFINE N == {v \in Known : NewCell(v) # cellInfo[v].cell}
  <1>1. DistanceCommands(old) = {Handover(u, old[u], NewCell(u)) : u \in N}
    BY DEF DistanceCommands
  <1>2. ASSUME NEW u \in N PROVE NewCell(u) \in conf.listed /\ NewCell(u) \in Cells
    <2>1. position[u] \in Places /\ conf.listed \in SUBSET Cells /\ conf.listed # {}
      BY KnownTyped DEF NewCell
    <2>2. NewCell(u) = Closest(position[u])
      BY <2>1 DEF NewCell
    <2> QED
      BY <2>1, <2>2, ClosestListed
  <1>3. ASSUME NEW u \in N PROVE Decision(Handover(u, old[u], NewCell(u)))
    <2>1. u \in Known /\ u \in Ues /\ cellInfo[u].rnti \in Rnti /\ old[u] \in Targets
      BY KnownTyped
    <2>2. cellInfo[u].cell \in conf.listed => old[u] = cellInfo[u].cell
      BY <2>1 DEF OldCellNodeIds
    <2> QED
      BY <1>2, <2>1, <2>2, HandoverShape DEF Decision
  <1>4. \A u, v \in N : Handover(u, old[u], NewCell(u)).ue = u
    BY HandoverShape
  <1> HIDE DEF N
  <1> QED
    BY <1>1, <1>3, <1>4 DEF Decided, OnePerUe

(* OranLmLte2LteOnnxHandover.                                              *)
LEMMA OnnxDecided ==
    ASSUME TypeOK, NEW want \in [Known -> Cells], "onnx" \in conf.lms
    PROVE  Decided(OnnxCommands(want))
  <1> DEFINE N == {v \in Known \cap {2, 3} : want[v] \in {1, 2} /\ want[v] # cellInfo[v].cell}
  <1>1. OnnxCommands(want) = {Handover(u, cellInfo[u].cell, want[u]) : u \in N}
    BY DEF OnnxCommands
  <1>2. ServingListed => {1, 2} \subseteq conf.listed
    BY DEF ServingListed
  <1>3. ASSUME NEW u \in N PROVE Decision(Handover(u, cellInfo[u].cell, want[u]))
    <2>1. /\ u \in Known /\ u \in Ues /\ cellInfo[u].rnti \in Rnti
          /\ cellInfo[u].cell \in Targets /\ want[u] \in Cells
      BY KnownTyped DEF Targets
    <2>2. want[u] \in {1, 2} /\ want[u] # cellInfo[u].cell
      OBVIOUS
    <2> QED
      BY <1>2, <2>1, <2>2, HandoverShape DEF Decision
  <1>4. \A u, v \in N : Handover(u, cellInfo[u].cell, want[u]).ue = u
    BY HandoverShape
  <1> HIDE DEF N
  <1> QED
    BY <1>1, <1>3, <1>4 DEF Decided, OnePerUe

(* OranLmLte2LteTorchHandover.                                             *)
LEMMA TorchDecided ==
    ASSUME TypeOK, NEW want \in [Known -> Cells], "torch" \in conf.lms
    PROVE  Decided(TorchCommands(want))
  <1> DEFINE N == {v \in Known : want[v] \in conf.listed /\ want[v] # cellInfo[v].cell}
  <1>1. TorchCommands(want) = {Handover(u, TorchTarget(u), want[u]) : u \in N}
    BY DEF TorchCommands
  <1>2. ~ServingListed
    BY DEF ServingListed
  <1>3. ASSUME NEW u \in N PROVE Decision(Handover(u, TorchTarget(u), want[u]))
    <2>1. /\ u \in Known /\ u \in Ues /\ cellInfo[u].rnti \in Rnti /\ want[u] \in Cells
          /\ cellInfo[u].cell \in Cells
      BY KnownTyped
    <2>2. /\ Cardinality(Known) \in Nat /\ Cardinality(Ues) \in Nat
          /\ Cardinality(Known) <= Cardinality(Ues)
      BY KnownTyped, Numbers, FS_Subset, FS_CardinalityType
    <2>3. TorchTarget(u) \in Targets
      <3> DEFINE c == cellInfo[u].cell - (Cardinality(Ues) - Cardinality(Known))
      <3>1. TorchTarget(u) = IF c <= 0 THEN 0 ELSE c
        BY DEF TorchTarget
      <3>2. cellInfo[u].cell \in Nat
        BY <2>1, Numbers
      <3>3. c <= 0 \/ c \in 1..cellInfo[u].cell
        BY <2>2, <3>2
      <3>4. 1..cellInfo[u].cell \subseteq Cells
        BY <2>1, Numbers
      <3> HIDE DEF c
      <3> QED
        BY <3>1, <3>3, <3>4 DEF Targets
    <2> QED
      BY <1>2, <2>1, <2>3, HandoverShape DEF Decision
  <1>4. \A u, v \in N : Handover(u, TorchTarget(u), want[u]).ue = u
    BY HandoverShape
  <1> HIDE DEF N
  <1> QED
    BY <1>1, <1>3, <1>4 DEF Decided, OnePerUe

(* A query collects such commands.                                         *)
LEMMA QueryShape ==
    ASSUME TypeOK, QueryLms
    PROVE  collected' \in [LMs -> SUBSET Command] /\ \A l \in LMs : Decided(collected'[l])
  <1>1. PICK old \in [Known -> Targets], want \in [Known -> Cells] :
           /\ \A u \in Known : old[u] \in OldCellNodeIds(u)
           /\ collected' = [l \in LMs |->
                IF l \notin conf.lms THEN {}
                ELSE CASE l = "distance" -> DistanceCommands(old)
                       [] l = "onnx"     -> OnnxCommands(want)
                       [] l = "torch"    -> TorchCommands(want)]
    BY Zenon DEF QueryLms
  <1>2. Decided({})
    BY DEF Decided, OnePerUe
  <1>3. ASSUME NEW l \in LMs PROVE Decided(collected'[l])
    <2>1. CASE l \notin conf.lms
      <3>1. collected'[l] = {}
        BY <1>1, <2>1
      <3> QED
        BY <1>2, <3>1
    <2>2. CASE l \in conf.lms /\ l = "distance"
      <3>1. collected'[l] = DistanceCommands(old)
        BY <1>1, <2>2
      <3> QED
        BY <1>1, <3>1, DistanceDecided
    <2>3. CASE l \in conf.lms /\ l = "onnx"
      <3>1. collected'[l] = OnnxCommands(want)
        BY <1>1, <2>3
      <3> QED
        BY <1>1, <2>3, <3>1, OnnxDecided
    <2>4. CASE l \in conf.lms /\ l = "torch"
      <3>1. collected'[l] = TorchCommands(want)
        BY <1>1, <2>4
      <3> QED
        BY <1>1, <2>4, <3>1, TorchDecided
    <2> QED
      BY <2>1, <2>2, <2>3, <2>4 DEF LMs
  <1>4. ASSUME NEW l \in LMs PROVE collected'[l] \in SUBSET Command
    BY <1>3 DEF Decided, Decision
  <1>5. collected' = [l \in LMs |-> collected'[l]]
    <2> DEFINE E(l) == IF l \notin conf.lms THEN {}
                       ELSE CASE l = "distance" -> DistanceCommands(old)
                              [] l = "onnx"     -> OnnxCommands(want)
                              [] l = "torch"    -> TorchCommands(want)
    <2>1. collected' = [l \in LMs |-> E(l)]
      BY <1>1
    <2> HIDE DEF E
    <2> QED
      BY <2>1
  <1> QED
    BY <1>3, <1>4, <1>5

(***************************************************************************)
(* What the CMMs let through.                                              *)
(***************************************************************************)

(* Bags of commands.                                                       *)
LEMMA BagSum ==
    ASSUME NEW A, NEW B, IsABag(A), IsABag(B)
    PROVE  IsABag(A (+) B) /\ BagToSet(A (+) B) = BagToSet(A) \cup BagToSet(B)
  BY DEF IsABag, BagToSet, (+)

(* A set as a bag.                                                         *)
LEMMA BagOfSet ==
    ASSUME NEW T
    PROVE  /\ IsABag(SetToBag(T)) /\ BagToSet(SetToBag(T)) = T
           /\ \A x \in T : SetToBag(T)[x] = 1
  BY DEF IsABag, BagToSet, SetToBag

(* A command is received.                                                  *)
LEMMA BagTake ==
    ASSUME NEW B, IsABag(B), NEW x
    PROVE  /\ IsABag(B (-) SetToBag({x})) /\ BagToSet(B (-) SetToBag({x})) \subseteq BagToSet(B)
           /\ \A y \in BagToSet(B (-) SetToBag({x})) : (B (-) SetToBag({x}))[y] <= B[y]
           /\ x \in BagToSet(B) /\ B[x] = 1 => x \notin BagToSet(B (-) SetToBag({x}))
  BY DEF IsABag, BagToSet, SetToBag, (-)

(***************************************************************************)
(* The selection of OranCmmSingleCommandPerNode: collected commands, each  *)
(* for the node it affects, and those marked as the default LM's are its   *)
(* first for the node.                                                     *)
(***************************************************************************)
OfNode(l, a) == {c \in collected[l] : AffectedNode(c) = a}

Entry(a, e) ==
    e # None => /\ e.cmd \in AllCollected /\ AffectedNode(e.cmd) = a
                /\ e.isDefault => /\ OfNode(conf.defaultLm, a) # {}
                                  /\ e.cmd = First(OfNode(conf.defaultLm, a))

Selection(sel) == \A a \in Ues \cup {0} : Entry(a, sel[a])

\* The default LM has had its turn.
DefaultDone(sel) ==
    \A a \in Ues \cup {0} : OfNode(conf.defaultLm, a) # {} => sel[a].isDefault

(* The turn of one LM.                                                     *)
LEMMA SelectStep ==
    ASSUME TypeOK, NEW sel, NEW l \in LMs, Selection(sel)
    PROVE  /\ Selection(Select(sel, l))
           /\ DefaultDone(sel) => DefaultDone(Select(sel, l))
           /\ l = conf.defaultLm => DefaultDone(Select(sel, l))
  <1> DEFINE A == Ues \cup {0}
             New(a) == [cmd |-> First(OfNode(l, a)), isDefault |-> l = conf.defaultLm]
  <1>1. \A a \in A : Select(sel, l)[a] = IF OfNode(l, a) # {} /\ Replaces(l, sel[a])
                                           THEN New(a) ELSE sel[a]
    BY Zenon DEF Select, OfNode
  <1>2. ASSUME NEW a \in A, OfNode(l, a) # {}
        PROVE  First(OfNode(l, a)) \in OfNode(l, a) /\ OfNode(l, a) \subseteq AllCollected
    <2>1. OfNode(l, a) \subseteq collected[l] /\ collected[l] \in SUBSET Command
      BY DEF TypeOK, OfNode
    <2>2. First(OfNode(l, a)) \in OfNode(l, a)
      BY <1>2, <2>1, FirstIn
    <2> QED
      BY <2>1, <2>2 DEF AllCollected
  <1>3. ASSUME NEW a \in A, OfNode(l, a) # {} PROVE Entry(a, New(a))
    <2>1. /\ New(a).cmd = First(OfNode(l, a))
          /\ New(a).isDefault => l = conf.defaultLm
      OBVIOUS
    <2>2. New(a).cmd \in AllCollected /\ AffectedNode(New(a).cmd) = a
      BY <1>2, <1>3, <2>1 DEF OfNode
    <2> HIDE DEF New
    <2> QED
      BY <1>3, <2>1, <2>2 DEF Entry
  <1>4. \A a \in A : New(a).isDefault = (l = conf.defaultLm)
    OBVIOUS
  <1> HIDE DEF New
  <1>5. Selection(Select(sel, l))
    BY <1>1, <1>3 DEF Selection
  <1>6. ~None.isDefault
    BY DEF None
  <1>7. ASSUME DefaultDone(sel) PROVE DefaultDone(Select(sel, l))
    <2>1. ASSUME NEW a \in A, sel[a].isDefault PROVE ~Replaces(l, sel[a])
      BY <1>6, <2>1 DEF Replaces
    <2>2. ASSUME NEW a \in A, OfNode(conf.defaultLm, a) # {} PROVE Select(sel, l)[a].isDefault
      <3>1. sel[a].isDefault
        BY <1>7, <2>2 DEF DefaultDone
      <3>2. Select(sel, l)[a] = sel[a]
        BY <1>1, <2>1, <3>1
      <3> QED
        BY <3>1, <3>2
    <2> QED
      BY <2>2 DEF DefaultDone
  <1>8. ASSUME l = conf.defaultLm PROVE DefaultDone(Select(sel, l))
    <2>1. ASSUME NEW a \in A, OfNode(l, a) # {} PROVE Select(sel, l)[a].isDefault
      <3>1. CASE Replaces(l, sel[a])
        <4>1. Select(sel, l)[a] = New(a)
          BY <1>1, <2>1, <3>1
        <4> QED
          BY <1>4, <1>8, <4>1
      <3>2. CASE ~Replaces(l, sel[a])
        <4>1. Select(sel, l)[a] = sel[a] /\ sel[a].isDefault
          BY <1>1, <1>8, <3>2 DEF Replaces
        <4> QED
          BY <4>1
      <3> QED
        BY <3>1, <3>2
    <2> QED
      BY <1>8, <2>1 DEF DefaultDone
  <1> QED
    BY <1>5, <1>7, <1>8

(* The selection after all LMs.                                            *)
LEMMA SingleShape ==
    ASSUME TypeOK
    PROVE  \E sel : /\ Selection(sel) /\ DefaultDone(sel)
                    /\ SingleCommandPerNode =
                          {sel[a].cmd : a \in {b \in Ues \cup {0} : sel[b] # None}}
  <1> DEFINE s0 == [a \in Ues \cup {0} |-> None]
             s1 == Select(s0, "distance")
             s2 == Select(s1, "onnx")
             s3 == Select(s2, "torch")
  <1>1. Selection(s0)
    BY DEF Selection, Entry
  <1>2. conf.defaultLm \in LMs
    <2>1. conf \in Config
      BY KnownTyped
    <2> QED
      BY <2>1 DEF Config
  <1>3. DOMAIN s3 = Ues \cup {0}
    BY DEF Select
  <1>4. SingleCommandPerNode = {s3[a].cmd : a \in {b \in DOMAIN s3 : s3[b] # None}}
    BY Zenon DEF SingleCommandPerNode
  <1> HIDE DEF s0
  <1>5. Selection(s1) /\ (conf.defaultLm = "distance" => DefaultDone(s1))
    BY <1>1, SelectStep DEF LMs
  <1> HIDE DEF s1
  <1>6. /\ Selection(s2)
        /\ conf.defaultLm \in {"distance", "onnx"} => DefaultDone(s2)
    BY <1>5, SelectStep DEF LMs
  <1> HIDE DEF s2
  <1>7. Selection(s3) /\ DefaultDone(s3)
    BY <1>2, <1>6, SelectStep DEF LMs
  <1> HIDE DEF s3
  <1> QED
    BY <1>3, <1>4, <1>7

(* Every CMM lets through a bag of commands that were collected.           *)
LEMMA FilterShape ==
    ASSUME TypeOK
    PROVE  /\ IsABag(Filter) /\ BagToSet(Filter) \subseteq AllCollected
           /\ AllCollected \in SUBSET Command
  <1>1. \A l \in LMs : collected[l] \in SUBSET Command /\ collected[l] \subseteq AllCollected
    BY DEF TypeOK, AllCollected
  <1>2. AllCollected \in SUBSET Command
    BY <1>1 DEF AllCollected
  <1>3. CASE conf.cmm = "Noop"
    <2> DEFINE D == SetToBag(collected["distance"])
               O == SetToBag(collected["onnx"])
               T == SetToBag(collected["torch"])
    <2>1. Filter = D (+) O (+) T
      BY <1>3 DEF Filter
    <2>2. /\ IsABag(D) /\ IsABag(O) /\ IsABag(T)
          /\ BagToSet(D) = collected["distance"] /\ BagToSet(O) = collected["onnx"]
          /\ BagToSet(T) = collected["torch"]
      BY BagOfSet
    <2> HIDE DEF D, O, T
    <2>3. IsABag(D (+) O) /\ BagToSet(D (+) O) = BagToSet(D) \cup BagToSet(O)
      BY <2>2, BagSum
    <2>4. IsABag(D (+) O (+) T) /\ BagToSet(D (+) O (+) T) = BagToSet(D (+) O) \cup BagToSet(T)
      BY <2>2, <2>3, BagSum
    <2> QED
      BY <1>1, <1>2, <2>1, <2>2, <2>3, <2>4 DEF LMs
  <1>4. CASE conf.cmm = "Handover"
    <2>1. NotPending \subseteq AllCollected
      <3> DEFINE new == {c \in AllCollected : Key(c) \notin pendingCmds}
                 K == {Key(c) : c \in new}
                 Of(k) == {c \in new : Key(c) = k}
      <3>1. NotPending = {First(Of(k)) : k \in K}
        BY Zenon DEF NotPending
      <3>2. ASSUME NEW k \in K PROVE First(Of(k)) \in AllCollected
        <4>1. Of(k) # {} /\ Of(k) \in SUBSET AllCollected
          OBVIOUS
        <4> HIDE DEF Of
        <4> QED
          BY <1>2, <4>1, FirstIn
      <3> HIDE DEF K, Of
      <3> QED
        BY <3>1, <3>2
    <2>2. Filter = SetToBag(NotPending)
      BY <1>4 DEF Filter
    <2> QED
      BY <1>2, <2>1, <2>2, BagOfSet
  <1>5. CASE conf.cmm \notin {"Noop", "Handover"}
    <2>1. SingleCommandPerNode \subseteq AllCollected
      <3>1. PICK sel : /\ Selection(sel)
                       /\ SingleCommandPerNode =
                             {sel[a].cmd : a \in {b \in Ues \cup {0} : sel[b] # None}}
        BY SingleShape
      <3> QED
        BY <3>1 DEF Selection, Entry
    <2>2. Filter = SetToBag(SingleCommandPerNode)
      BY <1>5 DEF Filter
    <2> QED
      BY <1>2, <2>1, <2>2, BagOfSet
  <1> QED
    BY <1>3, <1>4, <1>5

-----------------------------------------------------------------------------
(***************************************************************************)
(* Type correctness.                                                       *)
(***************************************************************************)

(* The contexts after one has changed.                                     *)
LEMMA ReplaceTyped ==
    ASSUME contexts \in SUBSET Context, NEW x \in contexts, NEW s \in States
    PROVE  /\ [x EXCEPT !.state = s] \in Context
           /\ \A c \in Cells : [x EXCEPT !.state = s, !.target = c] \in Context
           /\ \A r \in Nat : [x EXCEPT !.state = s, !.newRnti = r] \in Context
           /\ \A y \in Context : Replace(x, y) \in SUBSET Context
           /\ x \in Context /\ x.ue \in Ues /\ x.cell \in Cells /\ x.rnti \in Rnti
           /\ x.target \in Cells /\ x.newRnti \in Nat /\ x.state \in States
  <1>1. x \in Context
    OBVIOUS
  <1>2. x = [ue |-> x.ue, cell |-> x.cell, rnti |-> x.rnti, state |-> x.state,
             target |-> x.target, newRnti |-> x.newRnti]
    BY <1>1 DEF Context
  <1>3. /\ x.ue \in Ues /\ x.cell \in Cells /\ x.rnti \in Rnti
        /\ x.target \in Cells /\ x.newRnti \in Nat /\ x.state \in States
    BY <1>1 DEF Context
  <1>4. [x EXCEPT !.state = s] \in Context
    BY <1>1 DEF Context
  <1>5. ASSUME NEW c \in Cells PROVE [x EXCEPT !.state = s, !.target = c] \in Context
    BY <1>1 DEF Context
  <1>6. ASSUME NEW r \in Nat PROVE [x EXCEPT !.state = s, !.newRnti = r] \in Context
    BY <1>1 DEF Context
  <1> QED
    BY <1>1, <1>3, <1>4, <1>5, <1>6 DEF Replace

\* A UE is told to leave with the RNTI it has got.
LeavingHasRnti == \A x \in contexts : x.state = "HANDOVER_LEAVING" => x.newRnti # 0

(* Every step keeps the types.                                             *)
LEMMA TypeStep == TypeOK /\ LeavingHasRnti /\ [Next]_vars => TypeOK'
  <1> SUFFICES ASSUME TypeOK, LeavingHasRnti, [Next]_vars PROVE TypeOK'
    OBVIOUS
  <1> USE DEF ueVars, enbVars, dataVars, ricVars
  <1>a. /\ place \in [Ues -> Places]
        /\ serving \in [Ues -> CellInfo]
        /\ contexts \in SUBSET Context
        /\ lastRnti \in [Cells -> Nat]
        /\ cellReports \in [Ues -> Seq(CellInfo)]
        /\ placeReports \in [Ues -> Seq(Places)]
        /\ cellInfo \in [Ues -> CellInfo \cup {Unknown}]
        /\ position \in [Ues -> Places \cup {Unknown}]
        /\ rows \in SUBSET (Cells \X Rnti \X Ues)
        /\ moves \in Nat /\ refusals \in Nat
    BY DEF TypeOK
  <1>b. UNCHANGED commands => (IsABag(commands) /\ BagToSet(commands) \subseteq Command)'
    BY DEF TypeOK
  <1>1. ASSUME NEW u \in Ues, NEW p \in Places, Move(u, p) PROVE TypeOK'
    <2>1. /\ place' = [place EXCEPT ![u] = p] /\ moves' = moves + 1
          /\ UNCHANGED <<conf, serving, enbVars, dataVars, ricVars, fatal>>
      BY <1>1 DEF Move
    <2>2. place' \in [Ues -> Places] /\ moves' \in Nat
      BY <1>a, <2>1
    <2> QED
      BY <1>b, <2>1, <2>2 DEF TypeOK
  <1>2. ASSUME NEW u \in Ues, ReportCell(u) PROVE TypeOK'
    <2>1. /\ cellReports' = [cellReports EXCEPT ![u] = Append(cellReports[u], serving[u])]
          /\ UNCHANGED <<conf, ueVars, enbVars, placeReports, cellInfo, position, rows,
                         ricVars, fatal>>
      BY <1>2 DEF ReportCell
    <2>2. cellReports' \in [Ues -> Seq(CellInfo)]
      BY <1>a, <2>1
    <2> QED
      BY <1>b, <2>1, <2>2 DEF TypeOK
  <1>3. ASSUME NEW u \in Ues, ReportPlace(u) PROVE TypeOK'
    <2>1. /\ placeReports' = [placeReports EXCEPT ![u] = Append(placeReports[u], place[u])]
          /\ UNCHANGED <<conf, ueVars, enbVars, cellReports, cellInfo, position, rows,
                         ricVars, fatal>>
      BY <1>3 DEF ReportPlace
    <2>2. placeReports' \in [Ues -> Seq(Places)]
      BY <1>a, <2>1
    <2> QED
      BY <1>b, <2>1, <2>2 DEF TypeOK
  <1>4. ASSUME NEW u \in Ues, NEW i \in 1..MaxReports, ReceiveCellReport(u, i) PROVE TypeOK'
    <2> DEFINE q == cellReports[u]
    <2>1. /\ i \in DOMAIN q
          /\ cellInfo' = [cellInfo EXCEPT ![u] = q[i]]
          /\ rows' = rows \cup {<<q[i].cell, q[i].rnti, u>>}
          /\ cellReports' = [cellReports EXCEPT ![u] = SubSeq(q, i + 1, Len(q))]
          /\ UNCHANGED <<conf, ueVars, enbVars, placeReports, position, ricVars, fatal>>
      BY <1>4 DEF ReceiveCellReport
    <2>2. q \in Seq(CellInfo)
      BY <1>a
    <2> HIDE DEF q
    <2>3. q[i] \in CellInfo /\ SubSeq(q, i + 1, Len(q)) \in Seq(CellInfo)
      BY <2>1, <2>2
    <2>4. q[i].cell \in Cells /\ q[i].rnti \in Rnti
      BY <2>3 DEF CellInfo
    <2>5. /\ cellInfo' \in [Ues -> CellInfo \cup {Unknown}]
          /\ cellReports' \in [Ues -> Seq(CellInfo)]
      BY <1>a, <2>1, <2>3
    <2>6. rows' \in SUBSET (Cells \X Rnti \X Ues)
      BY <1>a, <2>1, <2>4
    <2> QED
      BY <1>b, <2>1, <2>5, <2>6 DEF TypeOK
  <1>5. ASSUME NEW u \in Ues, NEW i \in 1..MaxReports, ReceivePlaceReport(u, i) PROVE TypeOK'
    <2> DEFINE q == placeReports[u]
    <2>1. /\ i \in DOMAIN q
          /\ position' = [position EXCEPT ![u] = q[i]]
          /\ placeReports' = [placeReports EXCEPT ![u] = SubSeq(q, i + 1, Len(q))]
          /\ UNCHANGED <<conf, ueVars, enbVars, cellReports, cellInfo, rows, ricVars, fatal>>
      BY <1>5 DEF ReceivePlaceReport
    <2>2. q \in Seq(Places)
      BY <1>a
    <2> HIDE DEF q
    <2>3. q[i] \in Places /\ SubSeq(q, i + 1, Len(q)) \in Seq(Places)
      BY <2>1, <2>2
    <2>4. /\ position' \in [Ues -> Places \cup {Unknown}]
          /\ placeReports' \in [Ues -> Seq(Places)]
      BY <1>a, <2>1, <2>3
    <2> QED
      BY <1>b, <2>1, <2>4 DEF TypeOK
  <1>6. CASE QueryLms
    <2>1. UNCHANGED <<conf, ueVars, enbVars, dataVars, pendingCmds, commands, fatal>>
      BY <1>6 DEF QueryLms
    <2>2. collected' \in [LMs -> SUBSET Command]
      BY <1>6, QueryShape
    <2> QED
      BY <1>b, <2>1, <2>2 DEF TypeOK
  <1>7. CASE ProcessLmQueryCommands
    <2>1. /\ commands' = commands (+) Filter
          /\ pendingCmds' = Remembered(BagToSet(Filter))
          /\ collected' = [l \in LMs |-> {}]
          /\ UNCHANGED <<conf, ueVars, enbVars, dataVars, fatal>>
      BY <1>7 DEF ProcessLmQueryCommands
    <2>2. /\ IsABag(Filter) /\ BagToSet(Filter) \in SUBSET Command
          /\ IsABag(commands) /\ BagToSet(commands) \subseteq Command
      BY FilterShape DEF TypeOK
    <2>3. IsABag(commands') /\ BagToSet(commands') \subseteq Command
      BY <2>1, <2>2, BagSum
    <2>4. ASSUME NEW c \in Command PROVE Key(c) \in Targets \X Cells \X Rnti
      BY DEF Key, Command
    <2>5. pendingCmds' \in SUBSET (Targets \X Cells \X Rnti)
      <3> DEFINE K == {Key(c) : c \in BagToSet(Filter)}
      <3>1. K \in SUBSET (Targets \X Cells \X Rnti)
        BY <2>2, <2>4
      <3>2. pendingCmds' = pendingCmds \/ pendingCmds' = pendingCmds \cup K
        BY <2>1 DEF Remembered
      <3>3. pendingCmds \in SUBSET (Targets \X Cells \X Rnti)
        BY DEF TypeOK
      <3> HIDE DEF K
      <3> QED
        BY <3>1, <3>2, <3>3
    <2>6. collected' \in [LMs -> SUBSET Command]
      BY <2>1
    <2> QED
      BY <2>1, <2>3, <2>5, <2>6 DEF TypeOK
  <1>8. ASSUME NEW cmd \in BagToSet(commands), ReceiveCommand(cmd) PROVE TypeOK'
    <2>1. /\ commands' = commands (-) SetToBag({cmd})
          /\ UNCHANGED <<conf, ueVars, lastRnti, refusals, dataVars, collected, pendingCmds>>
      BY <1>8 DEF ReceiveCommand
    <2>2. IsABag(commands') /\ BagToSet(commands') \subseteq Command
      BY <2>1, BagTake DEF TypeOK
    <2>3. cmd.cell \in Cells
      BY DEF TypeOK, Command
    <2>4. /\ contexts' \in SUBSET Context
          /\ fatal' \in States \cup {"no", "null terminator", "own cell"}
      <3>1. CASE UNCHANGED contexts /\ (fatal' = "null terminator" \/ UNCHANGED fatal)
        BY <3>1 DEF TypeOK
      <3>2. CASE \E x \in Addressed(cmd) : PrepareHandover(x, cmd.cell)
        <4>1. PICK x \in contexts : PrepareHandover(x, cmd.cell)
          BY <3>2 DEF Addressed
        <4>2. /\ \/ contexts' = Replace(x, [x EXCEPT !.state = "HANDOVER_PREPARATION",
                                                     !.target = cmd.cell])
                 \/ UNCHANGED contexts
              /\ fatal' \in {fatal, "own cell", x.state}
          BY <4>1 DEF PrepareHandover
        <4>3. "HANDOVER_PREPARATION" \in States
          BY DEF States
        <4>4. contexts' \in SUBSET Context
          <5> DEFINE y == [x EXCEPT !.state = "HANDOVER_PREPARATION", !.target = cmd.cell]
          <5>1. y \in Context
            BY <1>a, <2>3, <4>3, ReplaceTyped
          <5>2. contexts' = Replace(x, y) \/ contexts' = contexts
            BY <4>2
          <5> HIDE DEF y
          <5> QED
            BY <1>a, <5>1, <5>2 DEF Replace
        <4>5. x.state \in States
          BY <1>a, <4>3, ReplaceTyped
        <4> QED
          BY <4>2, <4>4, <4>5 DEF TypeOK
      <3> QED
        BY <1>8, <3>1, <3>2 DEF ReceiveCommand
    <2> QED
      BY <2>1, <2>2, <2>4 DEF TypeOK
  <1>9. ASSUME NEW x \in contexts, AdmitHandover(x) PROVE TypeOK'
    <2> DEFINE r == NextRnti(x.target)
    <2>1. /\ lastRnti' = [lastRnti EXCEPT ![x.target] = r]
          /\ contexts' = Replace(x, [x EXCEPT !.state = "HANDOVER_LEAVING", !.newRnti = r])
                            \cup {NewContext(x.ue, x.target, r, "HANDOVER_JOINING")}
          /\ UNCHANGED <<conf, ueVars, refusals, dataVars, ricVars, fatal>>
      BY <1>9 DEF AdmitHandover
    <2>2. "HANDOVER_LEAVING" \in States /\ "HANDOVER_JOINING" \in States
      BY DEF States
    <2>3. x.ue \in Ues /\ x.target \in Cells
      BY <1>a, <2>2, ReplaceTyped
    <2>4. r \in Nat /\ r \in Rnti
      BY <1>a, <2>3 DEF NextRnti, Rnti
    <2> HIDE DEF r
    <2>5. lastRnti' \in [Cells -> Nat]
      BY <1>a, <2>1, <2>4
    <2>6. Replace(x, [x EXCEPT !.state = "HANDOVER_LEAVING", !.newRnti = r]) \in SUBSET Context
      BY <1>a, <2>2, <2>4, ReplaceTyped
    <2>7. NewContext(x.ue, x.target, r, "HANDOVER_JOINING") \in Context
      BY <2>2, <2>3, <2>4 DEF NewContext, Context
    <2>8. contexts' \in SUBSET Context
      BY <2>1, <2>6, <2>7
    <2> QED
      BY <1>b, <2>1, <2>5, <2>8 DEF TypeOK
  <1>10. ASSUME NEW x \in contexts, RefuseHandover(x) PROVE TypeOK'
    <2>1. /\ refusals' = refusals + 1
          /\ lastRnti' = lastRnti \/ lastRnti' = [lastRnti EXCEPT ![x.target] = NextRnti(x.target)]
          /\ contexts' = Replace(x, [x EXCEPT !.state = "CONNECTED_NORMALLY"])
          /\ UNCHANGED <<conf, ueVars, dataVars, ricVars, fatal>>
      BY <1>10 DEF RefuseHandover
    <2>2. "CONNECTED_NORMALLY" \in States
      BY DEF States
    <2>3. x.target \in Cells /\ contexts' \in SUBSET Context
      BY <1>a, <2>1, <2>2, ReplaceTyped
    <2>4. NextRnti(x.target) \in Nat /\ refusals' \in Nat
      BY <1>a, <2>1, <2>3 DEF NextRnti
    <2>5. lastRnti' \in [Cells -> Nat]
      BY <1>a, <2>1, <2>4
    <2> QED
      BY <1>b, <2>1, <2>3, <2>4, <2>5 DEF TypeOK
  <1>11. ASSUME NEW x \in contexts, RecvReconfiguration(x) PROVE TypeOK'
    <2>1. /\ x.state = "HANDOVER_LEAVING"
          /\ serving' = [serving EXCEPT ![x.ue] = [cell |-> x.target, rnti |-> x.newRnti]]
          /\ UNCHANGED <<conf, place, moves, enbVars, dataVars, ricVars, fatal>>
      BY <1>11 DEF RecvReconfiguration
    <2>2. x.ue \in Ues /\ x.target \in Cells /\ x.newRnti \in Rnti
      BY <1>a, <2>1, ReplaceTyped DEF LeavingHasRnti, Rnti, States
    <2>3. [cell |-> x.target, rnti |-> x.newRnti] \in CellInfo
      BY <2>2 DEF CellInfo
    <2>4. serving' \in [Ues -> CellInfo]
      BY <1>a, <2>1, <2>2, <2>3
    <2> QED
      BY <1>b, <2>1, <2>4 DEF TypeOK
  <1>12. ASSUME NEW x \in contexts, ReconfigurationCompleted(x) \/ PathSwitchAcknowledge(x)
         PROVE  TypeOK'
    <2>1. /\ \E s \in States : contexts' = Replace(x, [x EXCEPT !.state = s])
          /\ UNCHANGED <<conf, ueVars, lastRnti, refusals, dataVars, ricVars, fatal>>
      BY <1>12 DEF ReconfigurationCompleted, PathSwitchAcknowledge, States
    <2>2. contexts' \in SUBSET Context
      BY <1>a, <2>1, ReplaceTyped
    <2> QED
      BY <1>b, <2>1, <2>2 DEF TypeOK
  <1>13. ASSUME NEW x \in contexts, UeContextRelease(x) PROVE TypeOK'
    <2>1. /\ contexts' = contexts \ {x}
          /\ UNCHANGED <<conf, ueVars, lastRnti, refusals, dataVars, ricVars, fatal>>
      BY <1>13 DEF UeContextRelease
    <2>2. contexts' \in SUBSET Context
      BY <1>a, <2>1
    <2> QED
      BY <1>b, <2>1, <2>2 DEF TypeOK
  <1>14. CASE UNCHANGED vars
    BY <1>b, <1>14 DEF vars, TypeOK
  <1> QED
    BY <1>1, <1>2, <1>3, <1>4, <1>5, <1>6, <1>7, <1>8, <1>9, <1>10, <1>11, <1>12, <1>13, <1>14
       DEF Next, Ended

(* What a step does to the contexts: none, or one of them changes its      *)
(* state or goes, or one is admitted and gets a second one at the target.  *)
LEMMA ContextStep ==
    ASSUME TypeOK, [Next]_vars
    PROVE  \/ UNCHANGED <<contexts, lastRnti>>
           \/ \E x \in contexts, cmd \in BagToSet(commands) :
                 /\ ReceiveCommand(cmd) /\ x \in Addressed(cmd)
                 /\ x.state = "CONNECTED_NORMALLY" /\ cmd.cell # x.cell
                 /\ contexts' = Replace(x, [x EXCEPT !.state = "HANDOVER_PREPARATION",
                                                    !.target = cmd.cell])
                 /\ UNCHANGED <<lastRnti, serving, fatal>>
           \/ \E x \in contexts : AdmitHandover(x) \/ RefuseHandover(x)
           \/ \E x \in contexts : ReconfigurationCompleted(x) \/ PathSwitchAcknowledge(x)
           \/ \E x \in contexts : UeContextRelease(x)
  <1> USE DEF ueVars, enbVars, dataVars, ricVars
  <1>1. ASSUME NEW cmd \in BagToSet(commands), ReceiveCommand(cmd)
        PROVE  \/ UNCHANGED <<contexts, lastRnti>>
               \/ \E x \in contexts :
                     /\ x \in Addressed(cmd)
                     /\ x.state = "CONNECTED_NORMALLY" /\ cmd.cell # x.cell
                     /\ contexts' = Replace(x, [x EXCEPT !.state = "HANDOVER_PREPARATION",
                                                        !.target = cmd.cell])
                     /\ UNCHANGED <<lastRnti, serving, fatal>>
    BY <1>1 DEF ReceiveCommand, PrepareHandover, Addressed
  <1>2. ASSUME NEW u \in Ues PROVE /\ \A p \in Places : Move(u, p) => UNCHANGED <<contexts, lastRnti>>
                                   /\ ReportCell(u) => UNCHANGED <<contexts, lastRnti>>
                                   /\ ReportPlace(u) => UNCHANGED <<contexts, lastRnti>>
    BY DEF Move, ReportCell, ReportPlace
  <1>3. ASSUME NEW u \in Ues, NEW i \in 1..MaxReports,
               ReceiveCellReport(u, i) \/ ReceivePlaceReport(u, i)
        PROVE  UNCHANGED <<contexts, lastRnti>>
    BY <1>3 DEF ReceiveCellReport, ReceivePlaceReport
  <1>4. QueryLms \/ ProcessLmQueryCommands => UNCHANGED <<contexts, lastRnti>>
    BY DEF QueryLms, ProcessLmQueryCommands
  <1>5. ASSUME NEW x \in contexts, RecvReconfiguration(x) PROVE UNCHANGED <<contexts, lastRnti>>
    BY <1>5 DEF RecvReconfiguration
  <1>6. UNCHANGED vars => UNCHANGED <<contexts, lastRnti>>
    BY DEF vars
  <1>7. Next \/ UNCHANGED vars
    OBVIOUS
  <1> QED
    BY <1>1, <1>2, <1>3, <1>4, <1>5, <1>6, <1>7, Zenon DEF Next, Ended

-----------------------------------------------------------------------------
(***************************************************************************)
(* Whose RNTIs they are.                                                   *)
(*                                                                         *)
(* An RNTI of a cell is given to one UE only, so some function `own` says  *)
(* whose it is.  Contexts, UEs, reports, rows and commands, however old,   *)
(* agree with it, and name RNTIs up to the last one allocated.             *)
(***************************************************************************)

\* The cells that UEs may be in.
Cover == IF ServingListed THEN conf.listed ELSE Cells

Held(own, last, c, r, u) == c \in Cover /\ r <= last[c] /\ own[<<c, r>>] = u

OwnContext(own, last, x) ==
    /\ Held(own, last, x.cell, x.rnti, x.ue)
    /\ x.target \in Cover
    /\ x.state = "HANDOVER_LEAVING"
       => x.newRnti # 0 /\ Held(own, last, x.target, x.newRnti, x.ue)

OwnInfo(own, last, u, e) == Held(own, last, e.cell, e.rnti, u)

OwnCommand(own, last, c) ==
    ServingListed => /\ Held(own, last, c.target, c.rnti, c.ue)
                     /\ c.cell \in Cover /\ c.target # c.cell

OwnContexts(own, last) == \A x \in contexts : OwnContext(own, last, x)
OwnServing(own, last) == \A u \in Ues : OwnInfo(own, last, u, serving[u])
OwnReports(own, last) ==
    \A u \in Ues : \A i \in DOMAIN cellReports[u] : OwnInfo(own, last, u, cellReports[u][i])
OwnKnown(own, last) ==
    \A u \in Ues : cellInfo[u] # Unknown
                    => /\ OwnInfo(own, last, u, cellInfo[u])
                       /\ <<cellInfo[u].cell, cellInfo[u].rnti, u>> \in rows
OwnRows(own, last) == \A w \in rows : Held(own, last, w[1], w[2], w[3])
OwnCollected(own, last) == \A l \in LMs : \A c \in collected[l] : OwnCommand(own, last, c)
OwnCommands(own, last) == \A c \in BagToSet(commands) : OwnCommand(own, last, c)

OwnParts(own, last) ==
    /\ OwnContexts(own, last) /\ OwnServing(own, last) /\ OwnReports(own, last)
    /\ OwnKnown(own, last) /\ OwnRows(own, last)
    /\ OwnCollected(own, last) /\ OwnCommands(own, last)

\* Commands that were collected rest on rows of the repository, one for a UE.
CollectedInv ==
    \A l \in LMs : /\ OnePerUe(collected[l])
                   /\ ServingListed
                      => \A c \in collected[l] : <<c.target, c.rnti, c.ue>> \in rows

\* 0 is nobody.
Owners == [Cells \X Nat -> Ues \cup {0}]

OwnInv ==
    /\ TypeOK
    /\ CollectedInv
    /\ \E own \in Owners : OwnParts(own, lastRnti)

\* RNTIs are allocated: `own` and `last` become `new` and `more`.
Allocated(own, last, new, more) ==
    \A c \in Cells : last[c] <= more[c] /\ \A r \in Nat : r <= last[c] => new[<<c, r>>] = own[<<c, r>>]

(* The cells UEs may be in are cells.                                      *)
LEMMA CoverCells == ASSUME TypeOK PROVE Cover \in SUBSET Cells
  <1>1. conf.listed \in SUBSET Cells
    BY KnownTyped
  <1> QED
    BY <1>1 DEF Cover

(* What was held before an allocation is held after it.                    *)
LEMMA HeldLonger ==
    ASSUME TypeOK, NEW own, NEW last \in [Cells -> Nat], NEW new, NEW more \in [Cells -> Nat],
           Allocated(own, last, new, more),
           NEW c, NEW r \in Nat, NEW u, Held(own, last, c, r, u)
    PROVE  Held(new, more, c, r, u)
  <1>1. c \in Cells /\ c \in Cover /\ r <= last[c] /\ own[<<c, r>>] = u
    BY CoverCells DEF Held
  <1>2. last[c] <= more[c] /\ new[<<c, r>>] = own[<<c, r>>]
    BY <1>1 DEF Allocated
  <1>3. last[c] \in Nat /\ more[c] \in Nat
    BY <1>1
  <1>4. r <= more[c]
    BY <1>1, <1>2, <1>3
  <1> QED
    BY <1>1, <1>2, <1>4 DEF Held

(* An allocation disturbs nothing that rests on RNTIs.                     *)
LEMMA OwnedLonger ==
    ASSUME TypeOK, NEW own, NEW last \in [Cells -> Nat], NEW new, NEW more \in [Cells -> Nat],
           Allocated(own, last, new, more), OwnParts(own, last)
    PROVE  OwnParts(new, more)
  <1>1. ASSUME NEW c, NEW r \in Nat, NEW u, Held(own, last, c, r, u) PROVE Held(new, more, c, r, u)
    BY <1>1, HeldLonger
  <1>2. ASSUME NEW e \in CellInfo, NEW u, OwnInfo(own, last, u, e) PROVE OwnInfo(new, more, u, e)
    <2>1. e.rnti \in Nat
      BY DEF CellInfo, Rnti
    <2> QED
      BY <1>1, <1>2, <2>1 DEF OwnInfo
  <1>3. ASSUME NEW c \in Command, OwnCommand(own, last, c) PROVE OwnCommand(new, more, c)
    <2>1. c.rnti \in Nat
      BY DEF Command, Rnti
    <2> QED
      BY <1>1, <1>3, <2>1 DEF OwnCommand
  <1>4. ASSUME NEW x \in contexts PROVE OwnContext(new, more, x)
    <2>1. x.rnti \in Nat /\ x.newRnti \in Nat
      BY DEF TypeOK, Context, Rnti
    <2>2. OwnContext(own, last, x)
      BY DEF OwnParts, OwnContexts, OwnServing, OwnReports, OwnKnown, OwnRows, OwnCollected, OwnCommands
    <2> QED
      BY <1>1, <2>1, <2>2 DEF OwnContext
  <1>5. ASSUME NEW u \in Ues PROVE OwnInfo(new, more, u, serving[u])
    <2>1. serving[u] \in CellInfo /\ OwnInfo(own, last, u, serving[u])
      BY DEF TypeOK, OwnParts, OwnServing, OwnReports
    <2> QED
      BY <1>2, <2>1
  <1>6. ASSUME NEW u \in Ues, NEW i \in DOMAIN cellReports[u]
        PROVE  OwnInfo(new, more, u, cellReports[u][i])
    <2>1. cellReports[u] \in Seq(CellInfo) /\ OwnInfo(own, last, u, cellReports[u][i])
      BY DEF TypeOK, OwnParts, OwnServing, OwnReports
    <2>2. cellReports[u][i] \in CellInfo
      BY <2>1
    <2> QED
      BY <1>2, <2>1, <2>2
  <1>7. ASSUME NEW u \in Ues, cellInfo[u] # Unknown
        PROVE  /\ OwnInfo(new, more, u, cellInfo[u])
               /\ <<cellInfo[u].cell, cellInfo[u].rnti, u>> \in rows
    <2>1. cellInfo[u] \in CellInfo
      BY <1>7 DEF TypeOK
    <2>2. OwnInfo(own, last, u, cellInfo[u]) /\ <<cellInfo[u].cell, cellInfo[u].rnti, u>> \in rows
      BY <1>7 DEF OwnParts, OwnKnown
    <2> QED
      BY <1>2, <2>1, <2>2
  <1>8. ASSUME NEW w \in rows PROVE Held(new, more, w[1], w[2], w[3])
    <2>1. w[2] \in Nat
      BY DEF TypeOK, Rnti
    <2>2. Held(own, last, w[1], w[2], w[3])
      BY DEF OwnParts, OwnContexts, OwnServing, OwnReports, OwnKnown, OwnRows, OwnCollected, OwnCommands
    <2> QED
      BY <1>1, <2>1, <2>2
  <1>9. ASSUME NEW l \in LMs, NEW c \in collected[l] PROVE OwnCommand(new, more, c)
    <2>1. c \in Command
      BY DEF TypeOK
    <2>2. OwnCommand(own, last, c)
      BY DEF OwnParts, OwnContexts, OwnServing, OwnReports, OwnKnown, OwnRows, OwnCollected, OwnCommands
    <2> QED
      BY <1>3, <2>1, <2>2
  <1>10. ASSUME NEW c \in BagToSet(commands) PROVE OwnCommand(new, more, c)
    <2>1. c \in Command
      BY DEF TypeOK
    <2>2. OwnCommand(own, last, c)
      BY DEF OwnParts, OwnContexts, OwnServing, OwnReports, OwnKnown, OwnRows, OwnCollected, OwnCommands
    <2> QED
      BY <1>3, <2>1, <2>2
  <1> QED
    BY <1>4, <1>5, <1>6, <1>7, <1>8, <1>9, <1>10, Zenon
       DEF OwnParts, OwnContexts, OwnServing, OwnReports, OwnKnown, OwnRows, OwnCollected, OwnCommands

(* The parts that a step leaves alone.                                     *)
LEMMA OwnFrame ==
    ASSUME NEW own, NEW last, OwnParts(own, last), UNCHANGED conf
    PROVE  /\ Cover' = Cover /\ ServingListed' = ServingListed
           /\ \A c, r, u : Held(own, last, c, r, u)' <=> Held(own, last, c, r, u)
           /\ \A x : OwnContext(own, last, x)' <=> OwnContext(own, last, x)
           /\ \A u, e : OwnInfo(own, last, u, e)' <=> OwnInfo(own, last, u, e)
           /\ \A c : OwnCommand(own, last, c)' <=> OwnCommand(own, last, c)
           /\ UNCHANGED contexts => OwnContexts(own, last)'
           /\ UNCHANGED serving => OwnServing(own, last)'
           /\ UNCHANGED cellReports => OwnReports(own, last)'
           /\ UNCHANGED <<cellInfo, rows>> => OwnKnown(own, last)'
           /\ UNCHANGED rows => OwnRows(own, last)'
           /\ UNCHANGED collected => OwnCollected(own, last)'
           /\ UNCHANGED commands => OwnCommands(own, last)'
  <1>1. /\ Cover' = Cover /\ ServingListed' = ServingListed
        /\ \A c, r, u : Held(own, last, c, r, u)' <=> Held(own, last, c, r, u)
        /\ \A x : OwnContext(own, last, x)' <=> OwnContext(own, last, x)
        /\ \A u, e : OwnInfo(own, last, u, e)' <=> OwnInfo(own, last, u, e)
        /\ \A c : OwnCommand(own, last, c)' <=> OwnCommand(own, last, c)
    BY DEF Cover, ServingListed, Held, OwnContext, OwnInfo, OwnCommand
  <1>2. UNCHANGED contexts => OwnContexts(own, last)'
    BY <1>1 DEF OwnParts, OwnContexts
  <1>3. UNCHANGED serving => OwnServing(own, last)'
    BY <1>1 DEF OwnParts, OwnServing
  <1>4. UNCHANGED cellReports => OwnReports(own, last)'
    BY <1>1 DEF OwnParts, OwnReports
  <1>5. UNCHANGED <<cellInfo, rows>> => OwnKnown(own, last)'
    BY <1>1 DEF OwnParts, OwnKnown
  <1>6. UNCHANGED rows => OwnRows(own, last)'
    BY <1>1 DEF OwnParts, OwnRows
  <1>7. UNCHANGED collected => OwnCollected(own, last)'
    BY <1>1 DEF OwnParts, OwnCollected
  <1>8. UNCHANGED commands => OwnCommands(own, last)'
    BY <1>1 DEF OwnParts, OwnCommands, BagToSet
  <1> QED
    BY <1>1, <1>2, <1>3, <1>4, <1>5, <1>6, <1>7, <1>8

(* The fields of a context that has changed.                               *)
LEMMA ChangedFields ==
    ASSUME NEW x \in Context, NEW s
    PROVE  LET y == [x EXCEPT !.state = s] IN
           /\ y.ue = x.ue /\ y.cell = x.cell /\ y.rnti = x.rnti /\ y.state = s
           /\ y.target = x.target /\ y.newRnti = x.newRnti
  BY DEF Context

(* The same when a handover to c is prepared.                              *)
LEMMA PreparedFields ==
    ASSUME NEW x \in Context, NEW s, NEW c
    PROVE  LET y == [x EXCEPT !.state = s, !.target = c] IN
           /\ y.ue = x.ue /\ y.cell = x.cell /\ y.rnti = x.rnti /\ y.state = s
           /\ y.target = c /\ y.newRnti = x.newRnti
  BY DEF Context

(* The same when the handover is admitted with RNTI r.                     *)
LEMMA AdmittedFields ==
    ASSUME NEW x \in Context, NEW s, NEW r
    PROVE  LET y == [x EXCEPT !.state = s, !.newRnti = r] IN
           /\ y.ue = x.ue /\ y.cell = x.cell /\ y.rnti = x.rnti /\ y.state = s
           /\ y.target = x.target /\ y.newRnti = r
  BY DEF Context

(* The fields of a new context.                                            *)
LEMMA NewFields ==
    ASSUME NEW u, NEW c, NEW r, NEW s
    PROVE  LET y == NewContext(u, c, r, s) IN
           /\ y.ue = u /\ y.cell = c /\ y.rnti = r /\ y.state = s
           /\ y.target = c /\ y.newRnti = 0
  BY DEF NewContext

(* Steps of UEs and of the RIC.                                            *)
LEMMA OwnDataStep ==
    ASSUME TypeOK, NEW own, NEW last, OwnParts(own, last), NEW u \in Ues,
           \/ \E p \in Places : Move(u, p)
           \/ ReportCell(u) \/ ReportPlace(u)
           \/ \E i \in 1..MaxReports : ReceiveCellReport(u, i) \/ ReceivePlaceReport(u, i)
    PROVE  OwnParts(own, last)'
  <1> USE DEF ueVars, enbVars, dataVars, ricVars
  <1>1. CASE (\E p \in Places : Move(u, p)) \/ ReportPlace(u)
             \/ \E i \in 1..MaxReports : ReceivePlaceReport(u, i)
    <2>1. UNCHANGED <<conf, contexts, serving, cellReports, cellInfo, rows, collected, commands>>
      BY <1>1 DEF Move, ReportPlace, ReceivePlaceReport
    <2> QED
      BY <2>1, OwnFrame DEF OwnParts
  <1>2. CASE ReportCell(u)
    <2>1. /\ cellReports' = [cellReports EXCEPT ![u] = Append(cellReports[u], serving[u])]
          /\ UNCHANGED <<conf, contexts, serving, cellInfo, rows, collected, commands>>
      BY <1>2 DEF ReportCell
    <2>2. cellReports \in [Ues -> Seq(CellInfo)] /\ serving \in [Ues -> CellInfo]
      BY DEF TypeOK
    <2>3. ASSUME NEW v \in Ues, NEW i \in DOMAIN cellReports'[v]
          PROVE  OwnInfo(own, last, v, cellReports'[v][i])
      <3>1. \/ i \in DOMAIN cellReports[v] /\ cellReports'[v][i] = cellReports[v][i]
            \/ v = u /\ cellReports'[v][i] = serving[u]
        <4>1. CASE v # u
          BY <2>1, <2>2, <4>1
        <4>2. CASE v = u
          <5>1. cellReports'[v] = Append(cellReports[u], serving[u])
            BY <2>1, <2>2, <4>2
          <5>2. cellReports[u] \in Seq(CellInfo) /\ serving[u] \in CellInfo
            BY <2>2
          <5> QED
            BY <4>2, <5>1, <5>2
        <4> QED
          BY <4>1, <4>2
      <3> QED
        BY <3>1 DEF OwnParts, OwnReports, OwnServing
    <2>4. OwnReports(own, last)'
      BY <2>1, <2>3, OwnFrame DEF OwnReports
    <2> QED
      BY <2>1, <2>4, OwnFrame DEF OwnParts
  <1>3. ASSUME NEW i \in 1..MaxReports, ReceiveCellReport(u, i) PROVE OwnParts(own, last)'
    <2> DEFINE q == cellReports[u]
    <2>1. /\ i \in DOMAIN q
          /\ cellInfo' = [cellInfo EXCEPT ![u] = q[i]]
          /\ rows' = rows \cup {<<q[i].cell, q[i].rnti, u>>}
          /\ cellReports' = [cellReports EXCEPT ![u] = SubSeq(q, i + 1, Len(q))]
          /\ UNCHANGED <<conf, contexts, serving, collected, commands>>
      BY <1>3 DEF ReceiveCellReport
    <2>2. /\ cellReports \in [Ues -> Seq(CellInfo)] /\ q \in Seq(CellInfo)
          /\ cellInfo \in [Ues -> CellInfo \cup {Unknown}]
      BY DEF TypeOK
    <2>3. \A j \in DOMAIN q : OwnInfo(own, last, u, q[j])
      BY DEF OwnParts, OwnReports
    <2>4. ASSUME NEW v \in Ues, NEW j \in DOMAIN cellReports'[v]
          PROVE  OwnInfo(own, last, v, cellReports'[v][j])
      <3>1. CASE v # u
        <4>1. cellReports'[v] = cellReports[v]
          BY <2>1, <2>2, <3>1
        <4> QED
          BY <4>1 DEF OwnParts, OwnReports
      <3>2. CASE v = u
        <4>1. cellReports'[v] = SubSeq(q, i + 1, Len(q))
          BY <2>1, <2>2, <3>2
        <4> HIDE DEF q
        <4>2. \E k \in DOMAIN q : SubSeq(q, i + 1, Len(q))[j] = q[k]
          <5>1. i \in Nat /\ Len(q) \in Nat /\ DOMAIN q = 1..Len(q) /\ i \in 1..Len(q)
            BY <2>1, <2>2
          <5>2. DOMAIN SubSeq(q, i + 1, Len(q)) = 1..(Len(q) - i) /\ j \in 1..(Len(q) - i)
            BY <2>2, <4>1, <5>1
          <5>3. i + j \in 1..Len(q)
            BY <5>1, <5>2
          <5>4. SubSeq(q, i + 1, Len(q))[j] = q[i + j]
            BY <2>2, <5>1, <5>2, <5>3
          <5> QED
            BY <5>1, <5>3, <5>4
        <4> QED
          BY <2>3, <3>2, <4>1, <4>2
      <3> QED
        BY <3>1, <3>2
    <2>5. OwnReports(own, last)'
      BY <2>1, <2>4, OwnFrame DEF OwnReports
    <2>6. OwnKnown(own, last)'
      <3>1. ASSUME NEW v \in Ues, cellInfo'[v] # Unknown
            PROVE  /\ OwnInfo(own, last, v, cellInfo'[v])
                   /\ <<cellInfo'[v].cell, cellInfo'[v].rnti, v>> \in rows'
        <4>1. CASE v # u
          <5>1. cellInfo'[v] = cellInfo[v]
            BY <2>1, <2>2, <4>1
          <5> QED
            BY <2>1, <3>1, <5>1 DEF OwnParts, OwnKnown
        <4>2. CASE v = u
          <5>1. cellInfo'[v] = q[i]
            BY <2>1, <2>2, <4>2
          <5> QED
            BY <2>1, <2>3, <4>2, <5>1
        <4> QED
          BY <4>1, <4>2
      <3> QED
        BY <2>1, <3>1, OwnFrame DEF OwnKnown
    <2>7. OwnRows(own, last)'
      <3>1. Held(own, last, q[i].cell, q[i].rnti, u)
        BY <2>1, <2>3 DEF OwnInfo
      <3>2. ASSUME NEW w \in rows' PROVE Held(own, last, w[1], w[2], w[3])
        BY <2>1, <3>1 DEF OwnParts, OwnRows
      <3> QED
        BY <2>1, <3>2, OwnFrame DEF OwnRows
    <2> QED
      BY <2>1, <2>5, <2>6, <2>7, OwnFrame DEF OwnParts
  <1> QED
    BY <1>1, <1>2, <1>3

(* A query: the commands rest on cell info of the repository.              *)
LEMMA OwnQuery ==
    ASSUME TypeOK, NEW own, NEW last, OwnParts(own, last), QueryLms
    PROVE  OwnParts(own, last)' /\ CollectedInv'
  <1> USE DEF ueVars, enbVars, dataVars, ricVars
  <1>1. UNCHANGED <<conf, contexts, serving, cellReports, cellInfo, rows, commands>>
    BY DEF QueryLms
  <1>2. \A l \in LMs : Decided(collected'[l])
    BY QueryShape
  <1>3. ASSUME NEW l \in LMs, NEW c \in collected'[l], ServingListed
        PROVE  /\ Held(own, last, c.target, c.rnti, c.ue)
               /\ c.cell \in Cover /\ c.target # c.cell
               /\ <<c.target, c.rnti, c.ue>> \in rows
    <2>1. Decision(c)
      BY <1>2 DEF Decided
    <2>2. c.ue \in Ues /\ cellInfo[c.ue] # Unknown
      BY <2>1 DEF Decision, Known
    <2>3. /\ Held(own, last, cellInfo[c.ue].cell, cellInfo[c.ue].rnti, c.ue)
          /\ <<cellInfo[c.ue].cell, cellInfo[c.ue].rnti, c.ue>> \in rows
      BY <2>2 DEF OwnParts, OwnKnown, OwnInfo
    <2>4. cellInfo[c.ue].cell \in conf.listed /\ Cover = conf.listed
      BY <1>3, <2>3 DEF Held, Cover
    <2>5. /\ c.target = cellInfo[c.ue].cell /\ c.cell \in conf.listed
          /\ c.rnti = cellInfo[c.ue].rnti /\ c.cell # cellInfo[c.ue].cell
      BY <1>3, <2>1, <2>4 DEF Decision
    <2> QED
      BY <2>3, <2>4, <2>5
  <1>4. \A l \in LMs : \A c \in collected'[l] : OwnCommand(own, last, c)
    BY <1>3 DEF OwnCommand
  <1>5. OwnCollected(own, last)'
    BY <1>1, <1>4, OwnFrame DEF OwnCollected
  <1>6. \A l \in LMs : OnePerUe(collected'[l])
    BY <1>2 DEF Decided
  <1>7. ServingListed' = ServingListed
    BY <1>1, OwnFrame
  <1>8. CollectedInv'
    BY <1>1, <1>3, <1>6, <1>7 DEF CollectedInv, OnePerUe
  <1> QED
    BY <1>1, <1>5, <1>8, OwnFrame DEF OwnParts

(* The commands are sent.                                                  *)
LEMMA OwnProcess ==
    ASSUME TypeOK, NEW own, NEW last, OwnParts(own, last), ProcessLmQueryCommands
    PROVE  OwnParts(own, last)' /\ CollectedInv'
  <1> USE DEF ueVars, enbVars, dataVars, ricVars
  <1>1. /\ UNCHANGED <<conf, contexts, serving, cellReports, cellInfo, rows>>
        /\ commands' = commands (+) Filter /\ collected' = [l \in LMs |-> {}]
    BY DEF ProcessLmQueryCommands
  <1>2. IsABag(Filter) /\ BagToSet(Filter) \subseteq AllCollected /\ IsABag(commands)
    BY FilterShape DEF TypeOK
  <1>3. BagToSet(commands') = BagToSet(commands) \cup BagToSet(Filter)
    BY <1>1, <1>2, BagSum
  <1>4. \A c \in AllCollected : OwnCommand(own, last, c)
    BY DEF OwnParts, OwnCollected, AllCollected
  <1>5. \A c \in BagToSet(commands) : OwnCommand(own, last, c)
    BY DEF OwnParts, OwnCommands
  <1>6. \A c \in BagToSet(commands') : OwnCommand(own, last, c)
    BY <1>2, <1>3, <1>4, <1>5
  <1>7. OwnCommands(own, last)'
    BY <1>1, <1>6, OwnFrame DEF OwnCommands
  <1>8. OwnCollected(own, last)' /\ CollectedInv'
    BY <1>1 DEF OwnCollected, CollectedInv, OnePerUe
  <1> QED
    BY <1>1, <1>7, <1>8, OwnFrame DEF OwnParts

(* A context gives way to another one of its UE.                           *)
LEMMA OwnReplace ==
    ASSUME NEW own, NEW last, OwnParts(own, last), UNCHANGED conf,
           NEW x \in contexts, NEW y, OwnContext(own, last, y),
           \A z \in contexts' : z \in contexts \/ z = y \/ OwnContext(own, last, z)
    PROVE  OwnContexts(own, last)'
  <1>1. \A z \in contexts' : OwnContext(own, last, z)
    BY DEF OwnParts, OwnContexts
  <1> QED
    BY <1>1, OwnFrame DEF OwnContexts

(* Steps of the handover that take no RNTI.                                *)
LEMMA OwnHandover ==
    ASSUME TypeOK, NEW own, NEW last, OwnParts(own, last),
           \/ \E cmd \in BagToSet(commands) : ReceiveCommand(cmd)
           \/ \E x \in contexts : \/ RefuseHandover(x) \/ RecvReconfiguration(x)
                                  \/ ReconfigurationCompleted(x) \/ PathSwitchAcknowledge(x)
                                  \/ UeContextRelease(x)
    PROVE  OwnParts(own, last)'
  <1> USE DEF ueVars, enbVars, dataVars, ricVars
  <1>0. ASSUME NEW x \in contexts PROVE x \in Context /\ OwnContext(own, last, x)
    BY DEF TypeOK, OwnParts, OwnContexts
  <1>1. ASSUME NEW cmd \in BagToSet(commands), ReceiveCommand(cmd) PROVE OwnParts(own, last)'
    <2>1. /\ commands' = commands (-) SetToBag({cmd})
          /\ UNCHANGED <<conf, serving, cellReports, cellInfo, rows, collected>>
      BY <1>1 DEF ReceiveCommand
    <2>2. BagToSet(commands') \subseteq BagToSet(commands)
      BY <2>1, BagTake DEF TypeOK
    <2>3. \A c \in BagToSet(commands) : OwnCommand(own, last, c)
      BY DEF OwnParts, OwnCommands
    <2>4. OwnCommands(own, last)'
      BY <2>1, <2>2, <2>3, OwnFrame DEF OwnCommands
    <2>5. cmd.cell \in Cover
      BY <2>3 DEF OwnCommand, Cover, TypeOK, Command
    <2>6. OwnContexts(own, last)'
      <3>1. CASE UNCHANGED contexts
        BY <2>1, <3>1, OwnFrame
      <3>2. ASSUME NEW x \in contexts,
                   contexts' = Replace(x, [x EXCEPT !.state = "HANDOVER_PREPARATION",
                                                   !.target = cmd.cell])
            PROVE  OwnContexts(own, last)'
        <4> DEFINE y == [x EXCEPT !.state = "HANDOVER_PREPARATION", !.target = cmd.cell]
        <4>1. /\ y.ue = x.ue /\ y.cell = x.cell /\ y.rnti = x.rnti
              /\ y.state = "HANDOVER_PREPARATION" /\ y.target = cmd.cell
          BY <1>0, PreparedFields
        <4>2. contexts' = Replace(x, y)
          BY <3>2
        <4> HIDE DEF y
        <4>3. OwnContext(own, last, y)
          BY <1>0, <2>5, <4>1 DEF OwnContext
        <4> QED
          BY <2>1, <4>2, <4>3, OwnReplace DEF Replace
      <3> QED
        BY <1>1, <3>1, <3>2 DEF ReceiveCommand, PrepareHandover, Addressed
    <2> QED
      BY <2>1, <2>4, <2>6, OwnFrame DEF OwnParts
  <1>2. ASSUME NEW x \in contexts,
               RefuseHandover(x) \/ ReconfigurationCompleted(x) \/ PathSwitchAcknowledge(x)
        PROVE  OwnParts(own, last)'
    <2>1. /\ \E s \in States \ {"HANDOVER_LEAVING"} : contexts' = Replace(x, [x EXCEPT !.state = s])
          /\ UNCHANGED <<conf, serving, cellReports, cellInfo, rows, collected, commands>>
      BY <1>2 DEF RefuseHandover, ReconfigurationCompleted, PathSwitchAcknowledge, States
    <2>2. PICK s \in States \ {"HANDOVER_LEAVING"} : contexts' = Replace(x, [x EXCEPT !.state = s])
      BY <2>1
    <2> DEFINE y == [x EXCEPT !.state = s]
    <2>3. /\ y.ue = x.ue /\ y.cell = x.cell /\ y.rnti = x.rnti
          /\ y.state = s /\ y.target = x.target
      BY <1>0, ChangedFields
    <2>4. contexts' = Replace(x, y)
      BY <2>2
    <2> HIDE DEF y
    <2>5. OwnContext(own, last, y)
      BY <1>0, <2>3 DEF OwnContext
    <2>6. OwnContexts(own, last)'
      BY <2>1, <2>4, <2>5, OwnReplace DEF Replace
    <2> QED
      BY <2>1, <2>6, OwnFrame DEF OwnParts
  <1>3. ASSUME NEW x \in contexts, RecvReconfiguration(x) PROVE OwnParts(own, last)'
    <2>1. /\ x.state = "HANDOVER_LEAVING"
          /\ serving' = [serving EXCEPT ![x.ue] = [cell |-> x.target, rnti |-> x.newRnti]]
          /\ UNCHANGED <<conf, contexts, cellReports, cellInfo, rows, collected, commands>>
      BY <1>3 DEF RecvReconfiguration
    <2>2. Held(own, last, x.target, x.newRnti, x.ue)
      BY <1>0, <2>1 DEF OwnContext
    <2>3. serving \in [Ues -> CellInfo]
      BY DEF TypeOK
    <2>4. ASSUME NEW u \in Ues PROVE OwnInfo(own, last, u, serving'[u])
      <3>1. CASE u = x.ue
        <4>1. serving'[u] = [cell |-> x.target, rnti |-> x.newRnti]
          BY <2>1, <2>3, <3>1
        <4>2. serving'[u].cell = x.target /\ serving'[u].rnti = x.newRnti
          BY <4>1
        <4> QED
          BY <2>2, <3>1, <4>2 DEF OwnInfo
      <3>2. CASE u # x.ue
        <4>1. serving'[u] = serving[u]
          BY <2>1, <2>3, <3>2
        <4> QED
          BY <4>1 DEF OwnParts, OwnServing
      <3> QED
        BY <3>1, <3>2
    <2>5. OwnServing(own, last)'
      BY <2>1, <2>4, OwnFrame DEF OwnServing
    <2> QED
      BY <2>1, <2>5, OwnFrame DEF OwnParts
  <1>4. ASSUME NEW x \in contexts, UeContextRelease(x) PROVE OwnParts(own, last)'
    <2>1. /\ contexts' = contexts \ {x}
          /\ UNCHANGED <<conf, serving, cellReports, cellInfo, rows, collected, commands>>
      BY <1>4 DEF UeContextRelease
    <2>2. OwnContexts(own, last)'
      BY <1>0, <2>1, OwnReplace
    <2> QED
      BY <2>1, <2>2, OwnFrame DEF OwnParts
  <1> QED
    BY <1>1, <1>2, <1>3, <1>4

(* A handover is admitted with an RNTI that the UE has just got.           *)
LEMMA OwnAdmit ==
    ASSUME TypeOK, NEW own, NEW last, OwnParts(own, last), NEW x \in contexts, AdmitHandover(x),
           NextRnti(x.target) # 0, Held(own, last, x.target, NextRnti(x.target), x.ue)
    PROVE  OwnParts(own, last)'
  <1> USE DEF ueVars, enbVars, dataVars, ricVars
  <1> DEFINE r == NextRnti(x.target)
             y == [x EXCEPT !.state = "HANDOVER_LEAVING", !.newRnti = r]
             z == NewContext(x.ue, x.target, r, "HANDOVER_JOINING")
  <1>1. /\ contexts' = Replace(x, y) \cup {z}
        /\ UNCHANGED <<conf, serving, cellReports, cellInfo, rows, collected, commands>>
    BY DEF AdmitHandover
  <1>2. x \in Context /\ OwnContext(own, last, x)
    BY DEF TypeOK, OwnParts, OwnContexts
  <1>3. /\ y.ue = x.ue /\ y.cell = x.cell /\ y.rnti = x.rnti
        /\ y.target = x.target /\ y.newRnti = r
    BY <1>2, AdmittedFields
  <1>4. z.ue = x.ue /\ z.cell = x.target /\ z.rnti = r /\ z.target = x.target
        /\ z.state = "HANDOVER_JOINING"
    BY NewFields
  <1> HIDE DEF y, z
  <1>5. OwnContext(own, last, y)
    BY <1>2, <1>3 DEF OwnContext
  <1>6. OwnContext(own, last, z)
    BY <1>2, <1>4 DEF OwnContext
  <1>7. OwnContexts(own, last)'
    BY <1>1, <1>5, <1>6, OwnReplace DEF Replace
  <1> QED
    BY <1>1, <1>7, OwnFrame DEF OwnParts

(* Every step keeps the ownership of RNTIs.                                *)
LEMMA OwnStep == OwnInv /\ [Next]_vars => OwnInv'
  <1> SUFFICES ASSUME OwnInv, [Next]_vars PROVE OwnInv'
    OBVIOUS
  <1> USE DEF ueVars, enbVars, dataVars, ricVars
  <1>0. TypeOK /\ CollectedInv /\ lastRnti \in [Cells -> Nat]
    BY DEF OwnInv, TypeOK
  <1>1. PICK own \in Owners : OwnParts(own, lastRnti)
    BY DEF OwnInv
  <1>2. LeavingHasRnti
    BY <1>1 DEF OwnParts, OwnContexts, OwnContext, LeavingHasRnti
  <1>3. TypeOK'
    BY <1>0, <1>2, TypeStep
  <1>4. PICK last \in [Cells -> Nat] : last = lastRnti'
    BY <1>3 DEF TypeOK
  <1>a. UNCHANGED <<conf, collected>> /\ rows \subseteq rows' => CollectedInv'
    BY <1>0 DEF CollectedInv, ServingListed, OnePerUe
  <1>b. UNCHANGED lastRnti => OwnParts(own, last)
    BY <1>1, <1>4
  <1>c. (\E new \in Owners : OwnParts(new, last)') => (\E new \in Owners : OwnParts(new, lastRnti))'
    BY <1>4
  <1>5. ASSUME NEW u \in Ues,
               \/ \E p \in Places : Move(u, p)
               \/ ReportCell(u) \/ ReportPlace(u)
               \/ \E i \in 1..MaxReports : ReceiveCellReport(u, i) \/ ReceivePlaceReport(u, i)
        PROVE  OwnInv'
    <2>1. UNCHANGED <<conf, lastRnti, collected>> /\ rows \subseteq rows'
      BY <1>5 DEF Move, ReportCell, ReportPlace, ReceiveCellReport, ReceivePlaceReport
    <2>2. OwnParts(own, last)'
      BY <1>0, <1>5, <1>b, <2>1, OwnDataStep
    <2> QED
      BY <1>3, <1>a, <1>c, <2>1, <2>2 DEF OwnInv
  <1>6. CASE QueryLms \/ ProcessLmQueryCommands
    <2>1. UNCHANGED lastRnti
      BY <1>6 DEF QueryLms, ProcessLmQueryCommands
    <2>2. OwnParts(own, last)' /\ CollectedInv'
      BY <1>0, <1>6, <1>b, <2>1, OwnQuery, OwnProcess
    <2> QED
      BY <1>3, <1>c, <2>2 DEF OwnInv
  <1>7. CASE \/ \E cmd \in BagToSet(commands) : ReceiveCommand(cmd)
             \/ \E x \in contexts : \/ RecvReconfiguration(x)
                                    \/ ReconfigurationCompleted(x) \/ PathSwitchAcknowledge(x)
                                    \/ UeContextRelease(x)
    <2>1. UNCHANGED <<conf, lastRnti, collected, rows>>
      BY <1>7 DEF ReceiveCommand, RecvReconfiguration, ReconfigurationCompleted,
                  PathSwitchAcknowledge, UeContextRelease
    <2>2. OwnParts(own, last)'
      BY <1>0, <1>7, <1>b, <2>1, OwnHandover
    <2> QED
      BY <1>3, <1>a, <1>c, <2>1, <2>2 DEF OwnInv
  <1>8. ASSUME NEW x \in contexts, RefuseHandover(x) PROVE OwnInv'
    <2>1. /\ UNCHANGED <<conf, collected, rows>>
          /\ \/ UNCHANGED lastRnti
             \/ lastRnti' = [lastRnti EXCEPT ![x.target] = NextRnti(x.target)]
      BY <1>8 DEF RefuseHandover
    <2>2. Allocated(own, lastRnti, own, last)
      <3>1. ASSUME NEW c \in Cells PROVE lastRnti[c] <= lastRnti'[c]
        BY <1>0, <2>1 DEF NextRnti
      <3> QED
        BY <1>4, <3>1 DEF Allocated
    <2>3. OwnParts(own, last)
      BY <1>0, <1>1, <2>2, OwnedLonger
    <2>4. OwnParts(own, last)'
      BY <1>0, <1>8, <2>3, OwnHandover
    <2> QED
      BY <1>3, <1>a, <1>c, <2>1, <2>4 DEF OwnInv
  <1>9. ASSUME NEW x \in contexts, AdmitHandover(x) PROVE OwnInv'
    <2> DEFINE r == NextRnti(x.target)
    <2>1. /\ UNCHANGED <<conf, collected, rows>>
          /\ lastRnti' = [lastRnti EXCEPT ![x.target] = r]
      BY <1>9 DEF AdmitHandover
    <2>2. x.target \in Cells /\ x.ue \in Ues /\ x.target \in Cover
      BY <1>0, <1>1 DEF TypeOK, Context, OwnParts, OwnContexts, OwnContext
    <2>3. r \in Nat /\ r = lastRnti[x.target] + 1 /\ lastRnti[x.target] \in Nat
      BY <1>0, <2>2 DEF NextRnti
    <2>4. /\ last[x.target] = r
          /\ \A c \in Cells : c # x.target => last[c] = lastRnti[c]
      BY <1>0, <1>4, <2>1, <2>2
    <2> HIDE DEF r
    <2>5. PICK new \in Owners :
             /\ new[<<x.target, r>>] = x.ue
             /\ \A p \in Cells \X Nat : p # <<x.target, r>> => new[p] = own[p]
      <3> DEFINE new == [own EXCEPT ![<<x.target, r>>] = x.ue]
      <3>1. own \in [Cells \X Nat -> Ues \cup {0}] /\ <<x.target, r>> \in Cells \X Nat
        BY <2>2, <2>3 DEF Owners
      <3>2. /\ new \in [Cells \X Nat -> Ues \cup {0}] /\ new[<<x.target, r>>] = x.ue
            /\ \A p \in Cells \X Nat : p # <<x.target, r>> => new[p] = own[p]
        BY <2>2, <3>1
      <3> QED
        BY <3>2 DEF Owners
    <2>6. Allocated(own, lastRnti, new, last)
      <3>1. ASSUME NEW c \in Cells PROVE lastRnti[c] <= last[c]
        BY <1>0, <2>2, <2>3, <2>4
      <3>2. ASSUME NEW c \in Cells, NEW s \in Nat, s <= lastRnti[c]
            PROVE  new[<<c, s>>] = own[<<c, s>>]
        <4>1. <<c, s>> \in Cells \X Nat
          OBVIOUS
        <4>2. <<c, s>> # <<x.target, r>>
          BY <2>3, <3>2
        <4> QED
          BY <2>5, <4>1, <4>2
      <3> QED
        BY <3>1, <3>2 DEF Allocated
    <2>7. OwnParts(new, last)
      BY <1>0, <1>1, <2>6, OwnedLonger
    <2>8. Held(new, last, x.target, r, x.ue) /\ r # 0
      BY <2>2, <2>3, <2>4, <2>5 DEF Held
    <2>9. OwnParts(new, last)'
      BY <1>0, <1>9, <2>7, <2>8, OwnAdmit DEF r
    <2> QED
      BY <1>3, <1>a, <1>c, <2>1, <2>9 DEF OwnInv
  <1>10. CASE UNCHANGED vars
    <2>1. UNCHANGED <<conf, contexts, serving, cellReports, cellInfo, rows, collected, commands,
                      lastRnti>>
      BY <1>10 DEF vars
    <2>2. OwnParts(own, last)'
      BY <1>b, <2>1, OwnFrame DEF OwnParts
    <2> QED
      BY <1>3, <1>a, <1>c, <2>1, <2>2 DEF OwnInv
  <1> QED
    BY <1>5, <1>6, <1>7, <1>8, <1>9, <1>10, Zenon DEF Next, Ended

(* The RNTIs of the first attachments: each UE has its own in its cell.    *)
LEMMA InitRntis ==
    ASSUME conf \in Configs
    PROVE  /\ conf.initCell \in [Ues -> Cells]
           /\ \A u \in Ues : InitRnti(u) \in Rnti
           /\ \A c \in Cells : Cardinality({u \in Ues : conf.initCell[u] = c}) \in Nat
           /\ \A u \in Ues : InitRnti(u) <= Cardinality({v \in Ues : conf.initCell[v] = conf.initCell[u]})
           /\ \A u, v \in Ues : conf.initCell[u] = conf.initCell[v] /\ InitRnti(u) = InitRnti(v) => u = v
  <1> DEFINE B(u) == {v \in Ues : conf.initCell[v] = conf.initCell[u] /\ v <= u}
             A(c) == {v \in Ues : conf.initCell[v] = c}
  <1>0. conf \in Config
    BY LoopAssumption
  <1>1. conf.initCell \in [Ues -> Cells]
    BY <1>0 DEF Config
  <1>2. Ues \in SUBSET Nat /\ IsFiniteSet(Ues)
    BY Numbers
  <1>3. ASSUME NEW c PROVE IsFiniteSet(A(c)) /\ Cardinality(A(c)) \in Nat
    BY <1>2, FS_Subset, FS_CardinalityType
  <1>4. ASSUME NEW u \in Ues
        PROVE  IsFiniteSet(B(u)) /\ Cardinality(B(u)) \in Nat /\ B(u) # {}
    <2>1. u \in B(u) /\ B(u) \in SUBSET Ues
      BY <1>2
    <2> HIDE DEF B
    <2> QED
      BY <1>2, <2>1, FS_Subset, FS_CardinalityType
  <1>5. ASSUME NEW u \in Ues PROVE InitRnti(u) \in Rnti
    <2>1. Cardinality(B(u)) # 0
      BY <1>4, FS_EmptySet
    <2> QED
      BY <1>4, <2>1 DEF InitRnti, Rnti
  <1>6. ASSUME NEW u \in Ues PROVE InitRnti(u) <= Cardinality(A(conf.initCell[u]))
    <2>1. B(u) \in SUBSET A(conf.initCell[u])
      OBVIOUS
    <2>2. Cardinality(B(u)) <= Cardinality(A(conf.initCell[u]))
      BY <1>3, <2>1, FS_Subset
    <2> QED
      BY <2>2 DEF InitRnti
  <1>7. ASSUME NEW u \in Ues, NEW v \in Ues, conf.initCell[u] = conf.initCell[v], u < v
        PROVE  InitRnti(u) # InitRnti(v)
    <2>0. u \in Nat /\ v \in Nat
      BY <1>2
    <2>a. ASSUME NEW w \in B(u) PROVE w \in B(v)
      <3>1. w \in Ues /\ conf.initCell[w] = conf.initCell[u] /\ w <= u
        OBVIOUS
      <3>2. w \in Nat
        BY <1>2, <3>1
      <3>3. w <= v
        BY <1>7, <2>0, <3>1, <3>2
      <3> QED
        BY <1>7, <3>1, <3>3
    <2>b. v <= v /\ ~(v <= u)
      BY <1>7, <2>0
    <2>1. B(u) \in SUBSET B(v) /\ v \in B(v) /\ v \notin B(u)
      <3>1. v \in B(v) /\ v \notin B(u)
        BY <2>b
      <3> HIDE DEF B
      <3> QED
        BY <2>a, <3>1
    <2>2. IsFiniteSet(B(v)) /\ Cardinality(B(u)) \in Nat /\ Cardinality(B(v)) \in Nat
      BY <1>4
    <2> HIDE DEF B
    <2>3. Cardinality(B(u)) < Cardinality(B(v))
      <3>1. Cardinality(B(u)) <= Cardinality(B(v)) /\ (Cardinality(B(u)) = Cardinality(B(v)) => B(u) = B(v))
        BY <2>1, <2>2, FS_Subset
      <3> QED
        BY <2>1, <2>2, <3>1
    <2>4. InitRnti(u) = Cardinality(B(u)) /\ InitRnti(v) = Cardinality(B(v))
      BY DEF InitRnti, B
    <2> QED
      BY <2>2, <2>3, <2>4
  <1>8. ASSUME NEW u \in Ues, NEW v \in Ues, conf.initCell[u] = conf.initCell[v],
               InitRnti(u) = InitRnti(v)
        PROVE  u = v
    <2>1. u \in Nat /\ v \in Nat
      BY <1>2
    <2>2. ~(u < v) /\ ~(v < u)
      BY <1>7, <1>8
    <2> QED
      BY <2>1, <2>2
  <1> QED
    BY <1>1, <1>3, <1>5, <1>6, <1>8

(* The loop begins with each RNTI given to one UE.                         *)
LEMMA OwnInit == Init => OwnInv
  <1> SUFFICES ASSUME Init PROVE OwnInv
    OBVIOUS
  <1>1. /\ conf \in Configs /\ place \in [Ues -> Places]
        /\ serving = [u \in Ues |-> [cell |-> conf.initCell[u], rnti |-> InitRnti(u)]]
        /\ contexts = {NewContext(u, conf.initCell[u], InitRnti(u), "CONNECTED_NORMALLY") : u \in Ues}
        /\ lastRnti = [c \in Cells |-> Cardinality({u \in Ues : conf.initCell[u] = c})]
        /\ cellReports = [u \in Ues |-> <<>>] /\ placeReports = [u \in Ues |-> <<>>]
        /\ cellInfo = [u \in Ues |-> Unknown] /\ position = [u \in Ues |-> Unknown]
        /\ rows = {} /\ collected = [l \in LMs |-> {}] /\ pendingCmds = {}
        /\ commands = EmptyBag /\ fatal = "no" /\ moves = 0 /\ refusals = 0
    BY DEF Init
  <1>2. /\ conf.initCell \in [Ues -> Cells] /\ \A u \in Ues : InitRnti(u) \in Rnti
        /\ \A c \in Cells : Cardinality({u \in Ues : conf.initCell[u] = c}) \in Nat
        /\ \A u \in Ues : InitRnti(u) <= Cardinality({v \in Ues : conf.initCell[v] = conf.initCell[u]})
        /\ \A u, v \in Ues : conf.initCell[u] = conf.initCell[v] /\ InitRnti(u) = InitRnti(v) => u = v
    BY <1>1, InitRntis
  <1>3. IsABag(commands) /\ BagToSet(commands) = {}
    BY <1>1 DEF EmptyBag, SetToBag, IsABag, BagToSet
  <1>4. ASSUME NEW u \in Ues
        PROVE  NewContext(u, conf.initCell[u], InitRnti(u), "CONNECTED_NORMALLY") \in Context
    BY <1>2 DEF NewContext, Context, States
  <1>5. contexts \in SUBSET Context
    BY <1>1, <1>4
  <1>6. serving \in [Ues -> CellInfo]
    BY <1>1, <1>2 DEF CellInfo
  <1>7. lastRnti \in [Cells -> Nat]
    BY <1>1, <1>2
  <1>8. cellReports \in [Ues -> Seq(CellInfo)] /\ placeReports \in [Ues -> Seq(Places)]
    BY <1>1
  <1>9. TypeOK
    BY <1>1, <1>3, <1>5, <1>6, <1>7, <1>8 DEF TypeOK
  <1>10. CollectedInv
    BY <1>1 DEF CollectedInv, OnePerUe
  <1> DEFINE Mine(p) == {u \in Ues : conf.initCell[u] = p[1] /\ InitRnti(u) = p[2]}
             own == [p \in Cells \X Nat |-> IF Mine(p) = {} THEN 0 ELSE CHOOSE u \in Mine(p) : TRUE]
  <1>11. own \in Owners
    <2>1. ASSUME NEW p \in Cells \X Nat
          PROVE  (IF Mine(p) = {} THEN 0 ELSE CHOOSE u \in Mine(p) : TRUE) \in Ues \cup {0}
      OBVIOUS
    <2> QED
      BY <2>1 DEF Owners
  <1>12. ASSUME NEW u \in Ues PROVE Held(own, lastRnti, conf.initCell[u], InitRnti(u), u)
    <2> DEFINE p == <<conf.initCell[u], InitRnti(u)>>
    <2>1. p \in Cells \X Nat /\ conf.initCell[u] \in Cells
      BY <1>2 DEF Rnti
    <2>2. Mine(p) = {u}
      BY <1>2
    <2>3. own[p] = u
      BY <2>1, <2>2
    <2>4. conf.initCell[u] \in Cover
      BY <2>1 DEF Cover, ServingListed
    <2>5. InitRnti(u) <= lastRnti[conf.initCell[u]]
      BY <1>1, <1>2, <2>1
    <2> HIDE DEF own
    <2> QED
      BY <2>3, <2>4, <2>5 DEF Held
  <1> HIDE DEF own
  <1>13. OwnContexts(own, lastRnti)
    <2>1. ASSUME NEW u \in Ues
          PROVE  OwnContext(own, lastRnti,
                            NewContext(u, conf.initCell[u], InitRnti(u), "CONNECTED_NORMALLY"))
      <3>1. conf.initCell[u] \in Cover
        BY <1>12 DEF Held
      <3> QED
        BY <1>12, <3>1, NewFields DEF OwnContext
    <2> QED
      BY <1>1, <2>1 DEF OwnContexts
  <1>14. OwnServing(own, lastRnti)
    BY <1>1, <1>12 DEF OwnServing, OwnInfo
  <1>15. OwnReports(own, lastRnti) /\ OwnKnown(own, lastRnti) /\ OwnRows(own, lastRnti)
    BY <1>1 DEF OwnReports, OwnKnown, OwnRows
  <1>16. OwnCollected(own, lastRnti) /\ OwnCommands(own, lastRnti)
    BY <1>1, <1>3 DEF OwnCollected, OwnCommands
  <1> QED
    BY <1>9, <1>10, <1>11, <1>13, <1>14, <1>15, <1>16 DEF OwnInv, OwnParts

(* Every reachable state is typed.                                         *)
THEOREM TypeCorrect == Spec => []TypeOK
  <1>1. OwnInv => TypeOK
    BY DEF OwnInv
  <1> QED
    BY <1>1, OwnInit, OwnStep, PTL DEF Spec

(* For any number of UEs and cells and any delays of reports and commands: *)
(* as long as the repository lists the cells that serve UEs, a command     *)
(* never hands over a UE that the LM did not mean.                         *)
THEOREM CommandsMeetTheirUe == Spec => []RightUe
  <1>1. ASSUME OwnInv PROVE RightUe
    <2>1. PICK own \in Owners : OwnParts(own, lastRnti)
      BY <1>1 DEF OwnInv
    <2>2. ASSUME ServingListed, NEW cmd \in AllCollected \cup BagToSet(commands),
                 NEW x \in Addressed(cmd)
          PROVE  x.ue = cmd.ue
      <3>1. OwnCommand(own, lastRnti, cmd)
        BY <2>1 DEF OwnParts, OwnCollected, OwnCommands, AllCollected
      <3>2. x \in contexts /\ x.cell = cmd.target /\ x.rnti = cmd.rnti
        BY DEF Addressed
      <3>3. own[<<x.cell, x.rnti>>] = x.ue
        BY <2>1, <3>2 DEF OwnParts, OwnContexts, OwnContext, Held
      <3>4. own[<<cmd.target, cmd.rnti>>] = cmd.ue
        BY <2>2, <3>1 DEF OwnCommand, Held
      <3> QED
        BY <3>2, <3>3, <3>4
    <2> QED
      BY <2>2 DEF RightUe
  <1> QED
    BY <1>1, OwnInit, OwnStep, PTL DEF Spec

(***************************************************************************)
(* The default LM precedes.                                                *)
(***************************************************************************)

(* What was added to a bag is what it has more than before.                *)
LEMMA BagAdded ==
    ASSUME NEW A, NEW B, IsABag(A), IsABag(B)
    PROVE  /\ BagToSet((A (+) B) (-) A) = BagToSet(B)
           /\ \A x \in BagToSet(B) : ((A (+) B) (-) A)[x] = B[x]
  <1> DEFINE S == A (+) B
             D == S (-) A
  <1>1. /\ DOMAIN S = (DOMAIN A) \cup (DOMAIN B)
        /\ \A x \in DOMAIN S : S[x] = (IF x \in DOMAIN A THEN A[x] ELSE 0)
                                       + (IF x \in DOMAIN B THEN B[x] ELSE 0)
    BY DEF (+)
  <1>2. (\A x \in DOMAIN A : A[x] \in Nat /\ A[x] > 0) /\ \A x \in DOMAIN B : B[x] \in Nat /\ B[x] > 0
    BY DEF IsABag
  <1> HIDE DEF S
  <1> DEFINE M(x) == IF x \in DOMAIN A THEN S[x] - A[x] ELSE S[x]
  <1>3. DOMAIN D = {x \in DOMAIN S : M(x) > 0} /\ \A x \in DOMAIN D : D[x] = M(x)
    BY DEF (-)
  <1>4. \A x \in DOMAIN S : M(x) = IF x \in DOMAIN B THEN B[x] ELSE 0
    BY <1>1, <1>2
  <1> HIDE DEF D, M
  <1>5. DOMAIN D = DOMAIN B /\ \A x \in DOMAIN B : D[x] = B[x]
    BY <1>1, <1>2, <1>3, <1>4
  <1> QED
    BY <1>5 DEF D, S, BagToSet

(* A node with the RNTI of a row is the UE of the row: the command affects *)
(* the UE the LM meant.                                                    *)
LEMMA AffectsItsUe ==
    ASSUME OwnInv, ServingListed, NEW c \in AllCollected
    PROVE  AffectedNode(c) = c.ue /\ c.ue \in Ues
  <1>1. PICK own \in Owners : OwnParts(own, lastRnti)
    BY DEF OwnInv
  <1>2. PICK l \in LMs : c \in collected[l]
    BY DEF AllCollected
  <1>3. <<c.target, c.rnti, c.ue>> \in rows
    BY <1>2 DEF OwnInv, CollectedInv
  <1>4. c.target \in conf.listed
    BY <1>1, <1>2 DEF OwnParts, OwnCollected, OwnCommand, Held, Cover
  <1>5. c.ue \in Ues
    <2>1. TypeOK
      BY DEF OwnInv
    <2>2. c \in Command
      BY <2>1, FilterShape
    <2> QED
      BY <2>2 DEF Command
  <1>6. ASSUME NEW u, <<c.target, c.rnti, u>> \in rows PROVE u = own[<<c.target, c.rnti>>]
    BY <1>1, <1>6 DEF OwnParts, OwnRows, Held
  <1> DEFINE found == {u \in Ues : c.target \in conf.listed /\ <<c.target, c.rnti, u>> \in rows}
  <1>7. found = {c.ue}
    BY <1>3, <1>4, <1>5, <1>6
  <1>8. AffectedNode(c) = IF found = {} THEN 0 ELSE CHOOSE u \in found : TRUE
    BY DEF AffectedNode
  <1> HIDE DEF found
  <1> QED
    BY <1>5, <1>7, <1>8

(* What OranCmmSingleCommandPerNode lets through.                          *)
LEMMA SinglePrecedes ==
    ASSUME OwnInv, ServingListed
    PROVE  /\ OnePerUe(SingleCommandPerNode)
           /\ \A c \in SingleCommandPerNode, d \in collected[conf.defaultLm] : c.ue = d.ue => c = d
  <1>1. TypeOK /\ CollectedInv
    BY DEF OwnInv
  <1>2. PICK sel : /\ Selection(sel) /\ DefaultDone(sel)
                   /\ SingleCommandPerNode = {sel[a].cmd : a \in {b \in Ues \cup {0} : sel[b] # None}}
    BY <1>1, SingleShape
  <1>3. conf.defaultLm \in LMs
    <2>1. conf \in Config
      BY <1>1, KnownTyped
    <2> QED
      BY <2>1 DEF Config
  <1>4. ASSUME NEW c \in SingleCommandPerNode
        PROVE  c.ue \in Ues \cup {0} /\ sel[c.ue] # None /\ c = sel[c.ue].cmd
    <2>1. PICK a \in Ues \cup {0} : sel[a] # None /\ c = sel[a].cmd
      BY <1>2
    <2>2. c \in AllCollected /\ AffectedNode(c) = a
      BY <1>2, <2>1 DEF Selection, Entry
    <2>3. c.ue = a
      BY <2>2, AffectsItsUe
    <2> QED
      BY <2>1, <2>3
  <1>5. OnePerUe(SingleCommandPerNode)
    BY <1>4 DEF OnePerUe
  <1>6. ASSUME NEW c \in SingleCommandPerNode, NEW d \in collected[conf.defaultLm], c.ue = d.ue
        PROVE  c = d
    <2>1. d \in AllCollected
      BY <1>3 DEF AllCollected
    <2>2. d \in OfNode(conf.defaultLm, c.ue)
      BY <1>6, <2>1, AffectsItsUe DEF OfNode
    <2>3. sel[c.ue].isDefault
      BY <1>2, <1>4, <2>2 DEF DefaultDone
    <2>4. c = First(OfNode(conf.defaultLm, c.ue))
      BY <1>2, <1>4, <2>3 DEF Selection, Entry
    <2>5. OfNode(conf.defaultLm, c.ue) \in SUBSET Command
      BY <1>1, <1>3 DEF OfNode, TypeOK
    <2>6. c \in OfNode(conf.defaultLm, c.ue)
      BY <2>2, <2>4, <2>5, FirstIn
    <2>7. c \in collected[conf.defaultLm]
      BY <2>6 DEF OfNode
    <2> QED
      BY <1>1, <1>3, <1>6, <2>7 DEF CollectedInv, OnePerUe
  <1> QED
    BY <1>5, <1>6

(* Every step lets one command through for each UE, the default LM's if    *)
(* there is one.                                                           *)
LEMMA PrecedesStep ==
    ASSUME OwnInv, conf.cmm = "SingleCommandPerNode", ServingListed, ProcessLmQueryCommands
    PROVE  /\ \A c, d \in BagToSet(NewlySent) : c.ue = d.ue => c = d
           /\ \A c \in BagToSet(NewlySent) : NewlySent[c] = 1
           /\ \A c \in BagToSet(NewlySent), d \in collected[conf.defaultLm] :
                 c.ue = d.ue => c = d
  <1> DEFINE F == SetToBag(SingleCommandPerNode)
  <1>1. Filter = F
    BY DEF Filter
  <1>2. commands' = commands (+) F /\ IsABag(commands)
    BY <1>1 DEF ProcessLmQueryCommands, OwnInv, TypeOK
  <1>3. /\ IsABag(F) /\ BagToSet(F) = SingleCommandPerNode
        /\ \A c \in SingleCommandPerNode : F[c] = 1
    BY BagOfSet
  <1> HIDE DEF F
  <1>4. NewlySent = (commands (+) F) (-) commands
    BY <1>2 DEF NewlySent
  <1>5. /\ BagToSet(NewlySent) = SingleCommandPerNode
        /\ \A c \in SingleCommandPerNode : NewlySent[c] = 1
    BY <1>2, <1>3, <1>4, BagAdded
  <1> QED
    BY <1>5, SinglePrecedes DEF OnePerUe

(* With OranCmmSingleCommandPerNode each UE gets one command of a query at *)
(* most, and the default LM's if it has one.                               *)
THEOREM DefaultPrecedes == Spec => DefaultLmPrecedes
  <1>1. OwnInv /\ [Next]_vars
        => [conf.cmm = "SingleCommandPerNode" /\ ServingListed /\ ProcessLmQueryCommands
            => /\ \A c, d \in BagToSet(NewlySent) : c.ue = d.ue => c = d
               /\ \A c \in BagToSet(NewlySent) : NewlySent[c] = 1
               /\ \A c \in BagToSet(NewlySent), d \in collected[conf.defaultLm] :
                     c.ue = d.ue => c = d]_vars
    BY PrecedesStep
  <1> QED
    BY <1>1, OwnInit, OwnStep, PTL DEF Spec, DefaultLmPrecedes

(***************************************************************************)
(* No second handover.  Two cells, and OranCmmHandover: every command      *)
(* under way is remembered, once, and a context that has begun its         *)
(* handover has had its one command.                                       *)
(***************************************************************************)
Guarded == conf.cmm = "Handover" /\ ServingListed /\ Cardinality(conf.listed) = 2

Begun == {"HANDOVER_PREPARATION", "HANDOVER_LEAVING"}

\* A command for the UE that has the RNTI x.rnti in the cell of x.
For(c, x) == c.target = x.cell /\ c.rnti = x.rnti

SentOnce ==
    /\ \A c \in BagToSet(commands) : commands[c] = 1 /\ Key(c) \in pendingCmds
    /\ \A c, d \in BagToSet(commands) : Key(c) = Key(d) => c = d

BegunOnce ==
    \A x \in contexts : x.state \in Begun
       => /\ \A d \in conf.listed \ {x.cell} : <<x.cell, d, x.rnti>> \in pendingCmds
          /\ \A c \in BagToSet(commands) : ~For(c, x)

SecondInv == Guarded => SentOnce /\ BegunOnce /\ fatal \notin Begun

(* Two cells: a command has no choice of the cell to go to.                *)
LEMMA OtherCell ==
    ASSUME NEW T, Cardinality(T) = 2, IsFiniteSet(T), NEW a \in T, NEW b \in T, NEW c \in T,
           a # b, a # c
    PROVE  b = c
  <1>1. SUFFICES ASSUME b # c PROVE FALSE
    OBVIOUS
  <1>2. IsFiniteSet({a, b, c}) /\ Cardinality({a, b, c}) <= 2
    <2>1. {a, b, c} \in SUBSET T
      OBVIOUS
    <2> QED
      BY <2>1, FS_Subset
  <1>3. IsFiniteSet({}) /\ Cardinality({}) = 0
    BY FS_EmptySet
  <1>4. IsFiniteSet({c}) /\ Cardinality({c}) = 1
    BY FS_Singleton
  <1>5. IsFiniteSet({b, c}) /\ Cardinality({b, c}) = 2
    <2>1. b \notin {c} /\ {b, c} = {c} \cup {b}
      BY <1>1
    <2>2. IsFiniteSet({c} \cup {b}) /\ Cardinality({c} \cup {b}) = Cardinality({c}) + 1
      BY <1>4, <2>1, FS_AddElement
    <2> QED
      BY <1>4, <2>1, <2>2
  <1>6. Cardinality({a, b, c}) = 3
    <2>1. a \notin {b, c} /\ {a, b, c} = {b, c} \cup {a}
      OBVIOUS
    <2> QED
      BY <1>5, <2>1, FS_AddElement
  <1> QED
    BY <1>2, <1>6

(* What OranCmmHandover lets through: commands with a key that is not      *)
(* remembered, one of each key.                                            *)
LEMMA NotPendingShape ==
    ASSUME TypeOK
    PROVE  /\ NotPending \subseteq AllCollected
           /\ \A c \in NotPending : Key(c) \notin pendingCmds
           /\ \A c, d \in NotPending : Key(c) = Key(d) => c = d
  <1> DEFINE new == {c \in AllCollected : Key(c) \notin pendingCmds}
             K(k) == {c \in new : Key(c) = k}
             KS == {Key(c) : c \in new}
  <1>1. NotPending = {First(K(k)) : k \in KS}
    BY DEF NotPending
  <1>2. ASSUME NEW k \in KS
        PROVE  First(K(k)) \in new /\ Key(First(K(k))) = k
    <2>1. K(k) \in SUBSET Command /\ K(k) # {}
      BY FilterShape
    <2> HIDE DEF K
    <2>2. First(K(k)) \in K(k)
      BY <2>1, FirstIn
    <2> QED
      BY <2>2 DEF K
  <1> HIDE DEF K, KS
  <1>3. ASSUME NEW c \in NotPending
        PROVE  c \in new /\ \E k \in KS : c = First(K(k)) /\ Key(c) = k
    BY <1>1, <1>2
  <1>4. ASSUME NEW c \in NotPending, NEW d \in NotPending, Key(c) = Key(d) PROVE c = d
    BY <1>3, <1>4
  <1> QED
    BY <1>3, <1>4

(* A command under way, or collected, goes from one listed cell to         *)
(* another.                                                                *)
LEMMA CommandCells ==
    ASSUME OwnInv, ServingListed, NEW c \in AllCollected \cup BagToSet(commands)
    PROVE  c.target \in conf.listed /\ c.cell \in conf.listed /\ c.target # c.cell
  <1>1. PICK own \in Owners : OwnParts(own, lastRnti)
    BY DEF OwnInv
  <1>2. OwnCommand(own, lastRnti, c)
    BY <1>1 DEF OwnParts, OwnCollected, OwnCommands, AllCollected
  <1> QED
    BY <1>2 DEF OwnCommand, Held, Cover

(* Begun contexts that had begun before, with the same commands or fewer.  *)
LEMMA BegunFrame ==
    ASSUME BegunOnce, UNCHANGED conf, pendingCmds \subseteq pendingCmds',
           BagToSet(commands') \subseteq BagToSet(commands),
           \A x \in contexts' : x.state \in Begun
              => \E y \in contexts : y.state \in Begun /\ y.cell = x.cell /\ y.rnti = x.rnti
    PROVE  BegunOnce'
  <1>1. ASSUME NEW x \in contexts', x.state \in Begun
        PROVE  /\ \A d \in conf.listed \ {x.cell} : <<x.cell, d, x.rnti>> \in pendingCmds'
               /\ \A c \in BagToSet(commands') : ~For(c, x)
    <2>1. PICK y \in contexts : y.state \in Begun /\ y.cell = x.cell /\ y.rnti = x.rnti
      BY <1>1
    <2>2. /\ \A d \in conf.listed \ {y.cell} : <<y.cell, d, y.rnti>> \in pendingCmds
          /\ \A c \in BagToSet(commands) : ~For(c, y)
      BY <2>1 DEF BegunOnce
    <2> QED
      BY <2>1, <2>2 DEF For
  <1> QED
    BY <1>1 DEF BegunOnce

(* The RIC sends what was not remembered, and remembers it.                *)
LEMMA SecondProcess ==
    ASSUME OwnInv, Guarded, SentOnce, BegunOnce, ProcessLmQueryCommands
    PROVE  SentOnce' /\ BegunOnce'
  <1> USE DEF ueVars, enbVars, dataVars, ricVars
  <1> DEFINE F == SetToBag(NotPending)
  <1>0. TypeOK
    BY DEF OwnInv
  <1>1. Filter = F
    BY DEF Filter, Guarded
  <1>2. /\ IsABag(F) /\ BagToSet(F) = NotPending /\ \A c \in NotPending : F[c] = 1
    BY BagOfSet
  <1>3. /\ commands' = commands (+) F /\ IsABag(commands)
        /\ UNCHANGED <<conf, contexts, fatal>>
    BY <1>0, <1>1 DEF ProcessLmQueryCommands, TypeOK
  <1>4. pendingCmds' = pendingCmds \cup {Key(c) : c \in NotPending}
    BY <1>1, <1>2 DEF ProcessLmQueryCommands, Remembered, Guarded
  <1>5. /\ NotPending \subseteq AllCollected
        /\ \A c \in NotPending : Key(c) \notin pendingCmds
        /\ \A c, d \in NotPending : Key(c) = Key(d) => c = d
    BY <1>0, NotPendingShape
  <1>6. \A c \in NotPending : c \notin BagToSet(commands)
    BY <1>5 DEF SentOnce
  <1> HIDE DEF F
  <1>7. BagToSet(commands') = BagToSet(commands) \cup NotPending
    BY <1>2, <1>3, BagSum
  <1>8. \A c \in BagToSet(commands') : commands'[c] = 1
    <2>1. ASSUME NEW c \in BagToSet(commands) PROVE commands'[c] = commands[c]
      <3>1. c \notin BagToSet(F)
        BY <1>2, <1>6
      <3> QED
        BY <1>2, <1>3, <2>1, <3>1 DEF IsABag, BagToSet, (+)
    <2>2. ASSUME NEW c \in NotPending PROVE commands'[c] = F[c]
      <3>1. c \notin BagToSet(commands) /\ c \in BagToSet(F)
        BY <1>2, <1>6
      <3> QED
        BY <1>2, <1>3, <3>1 DEF IsABag, BagToSet, (+)
    <2> QED
      BY <1>2, <1>7, <2>1, <2>2 DEF SentOnce
  <1>9. SentOnce'
    <2>1. \A c \in BagToSet(commands') : Key(c) \in pendingCmds'
      BY <1>4, <1>7 DEF SentOnce
    <2>2. \A c, d \in BagToSet(commands') : Key(c) = Key(d) => c = d
      BY <1>5, <1>7 DEF SentOnce
    <2> QED
      BY <1>8, <2>1, <2>2 DEF SentOnce, Key
  <1>10. ASSUME NEW x \in contexts, x.state \in Begun, NEW c \in NotPending PROVE ~For(c, x)
    <2>1. SUFFICES ASSUME For(c, x) PROVE FALSE
      OBVIOUS
    <2>2. c.target = x.cell /\ c.rnti = x.rnti
      BY <2>1 DEF For
    <2>3. c.cell \in conf.listed /\ c.target # c.cell
      BY <1>5, CommandCells DEF Guarded
    <2>4. <<x.cell, c.cell, x.rnti>> \in pendingCmds
      BY <1>10, <2>2, <2>3 DEF BegunOnce
    <2> QED
      BY <1>5, <2>2, <2>4 DEF Key
  <1>11. ASSUME NEW x \in contexts', x.state \in Begun
         PROVE  /\ \A d \in conf.listed \ {x.cell} : <<x.cell, d, x.rnti>> \in pendingCmds'
                /\ \A c \in BagToSet(commands') : ~For(c, x)
    <2>1. x \in contexts
      BY <1>3
    <2>2. /\ \A d \in conf.listed \ {x.cell} : <<x.cell, d, x.rnti>> \in pendingCmds
          /\ \A c \in BagToSet(commands) : ~For(c, x)
      BY <1>11, <2>1 DEF BegunOnce
    <2> QED
      BY <1>4, <1>7, <1>10, <1>11, <2>1, <2>2
  <1>12. BegunOnce'
    BY <1>3, <1>11 DEF BegunOnce
  <1> QED
    BY <1>9, <1>12

(* A command is received.                                                  *)
LEMMA SecondReceive ==
    ASSUME OwnInv, Guarded, SentOnce, BegunOnce, fatal \notin Begun,
           NEW cmd \in BagToSet(commands), ReceiveCommand(cmd)
    PROVE  SentOnce' /\ BegunOnce' /\ fatal' \notin Begun
  <1> USE DEF ueVars, enbVars, dataVars, ricVars
  <1>0. TypeOK /\ IsABag(commands) /\ contexts \in SUBSET Context
    BY DEF OwnInv, TypeOK
  <1>1. commands' = commands (-) SetToBag({cmd}) /\ UNCHANGED <<conf, pendingCmds>>
    BY DEF ReceiveCommand
  <1>2. /\ IsABag(commands') /\ BagToSet(commands') \subseteq BagToSet(commands)
        /\ \A c \in BagToSet(commands') : commands'[c] <= commands[c]
        /\ cmd \notin BagToSet(commands')
    BY <1>0, <1>1, BagTake DEF SentOnce
  <1>3. \A c \in BagToSet(commands') : commands'[c] = 1
    <2>1. ASSUME NEW c \in BagToSet(commands') PROVE commands'[c] = 1
      <3>1. commands'[c] <= 1
        BY <1>2 DEF SentOnce
      <3>2. commands'[c] \in Nat /\ commands'[c] # 0
        BY <1>2 DEF IsABag, BagToSet
      <3> QED
        BY <3>1, <3>2
    <2> QED
      BY <2>1
  <1>4. SentOnce'
    BY <1>1, <1>2, <1>3 DEF SentOnce, Key
  <1>5. cmd.target \in conf.listed /\ cmd.cell \in conf.listed /\ cmd.target # cmd.cell
    BY CommandCells DEF Guarded
  <1>6. IsFiniteSet(conf.listed) /\ Cardinality(conf.listed) = 2
    BY <1>0, KnownTyped, Numbers, FS_Subset DEF Guarded
  <1>7. ASSUME UNCHANGED contexts PROVE BegunOnce'
    BY <1>1, <1>2, <1>7, BegunFrame
  <1>8. ASSUME NEW x \in Addressed(cmd), PrepareHandover(x, cmd.cell)
        PROVE  BegunOnce' /\ fatal' \notin Begun
    <2>1. x \in contexts /\ x \in Context /\ For(cmd, x) /\ x.state \notin Begun
      BY <1>0 DEF Addressed, For, BegunOnce
    <2>2. CASE UNCHANGED contexts
      <3>1. fatal' \in {fatal, "own cell", x.state}
        BY <1>8 DEF PrepareHandover
      <3> QED
        BY <1>7, <2>1, <2>2, <3>1 DEF Begun
    <2>3. CASE /\ contexts' = Replace(x, [x EXCEPT !.state = "HANDOVER_PREPARATION", !.target = cmd.cell])
               /\ UNCHANGED fatal
      <3> DEFINE y == [x EXCEPT !.state = "HANDOVER_PREPARATION", !.target = cmd.cell]
      <3>1. y.cell = x.cell /\ y.rnti = x.rnti
        BY <2>1, PreparedFields
      <3>2. contexts' = (contexts \ {x}) \cup {y}
        BY <2>3 DEF Replace
      <3> HIDE DEF y
      <3>3. ASSUME NEW d \in conf.listed \ {x.cell} PROVE <<x.cell, d, x.rnti>> \in pendingCmds
        <4>1. d = cmd.cell
          BY <1>5, <1>6, <2>1, OtherCell DEF For
        <4>2. Key(cmd) \in pendingCmds
          BY DEF SentOnce
        <4> QED
          BY <2>1, <4>1, <4>2 DEF Key, For
      <3>4. ASSUME NEW c \in BagToSet(commands'), For(c, x) PROVE FALSE
        <4>1. c \in BagToSet(commands)
          BY <1>2
        <4>2. c.cell \in conf.listed /\ c.target # c.cell
          BY <4>1, CommandCells DEF Guarded
        <4>3. c.target = cmd.target /\ c.rnti = cmd.rnti
          BY <2>1, <3>4 DEF For
        <4>4. c.cell = cmd.cell
          BY <1>5, <1>6, <4>2, <4>3, OtherCell
        <4>5. c = cmd
          BY <4>1, <4>3, <4>4 DEF SentOnce, Key
        <4> QED
          BY <1>2, <4>5
      <3>5. ASSUME NEW z \in contexts', z.state \in Begun
            PROVE  /\ \A d \in conf.listed \ {z.cell} : <<z.cell, d, z.rnti>> \in pendingCmds
                   /\ \A c \in BagToSet(commands') : ~For(c, z)
        <4>1. CASE z = y
          BY <3>1, <3>3, <3>4, <4>1 DEF For
        <4>2. CASE z \in contexts
          BY <1>2, <3>5, <4>2 DEF BegunOnce
        <4> QED
          BY <3>2, <4>1, <4>2
      <3>6. BegunOnce'
        BY <1>1, <3>5 DEF BegunOnce, For
      <3> QED
        BY <2>3, <3>6
    <2> QED
      BY <1>8, <2>2, <2>3 DEF PrepareHandover
  <1>9. CASE \E x \in Addressed(cmd) : PrepareHandover(x, cmd.cell)
    BY <1>4, <1>8, <1>9
  <1>10. CASE fatal' \in {fatal, "null terminator"} /\ UNCHANGED contexts
    BY <1>4, <1>7, <1>10 DEF Begun
  <1> QED
    BY <1>9, <1>10 DEF ReceiveCommand

(* Every step keeps it.                                                    *)
LEMMA SecondStep == OwnInv /\ SecondInv /\ [Next]_vars => SecondInv'
  <1> SUFFICES ASSUME OwnInv, SecondInv, [Next]_vars, Guarded' PROVE SecondInv'
    BY DEF SecondInv
  <1> USE DEF ueVars, enbVars, dataVars, ricVars
  <1>0. TypeOK /\ contexts \in SUBSET Context
    BY DEF OwnInv, TypeOK
  <1>1. UNCHANGED conf
    BY DEF Next, vars, Move, ReportCell, ReportPlace, ReceiveCellReport, ReceivePlaceReport,
           QueryLms, ProcessLmQueryCommands, ReceiveCommand, AdmitHandover, RefuseHandover,
           RecvReconfiguration, ReconfigurationCompleted, PathSwitchAcknowledge,
           UeContextRelease, Ended
  <1>2. Guarded /\ SentOnce /\ BegunOnce /\ fatal \notin Begun
    BY <1>1 DEF Guarded, SecondInv, ServingListed
  <1>3. CASE ProcessLmQueryCommands
    <2>1. UNCHANGED fatal
      BY <1>3 DEF ProcessLmQueryCommands
    <2> QED
      BY <1>2, <1>3, <2>1, SecondProcess DEF SecondInv
  <1>4. CASE \E cmd \in BagToSet(commands) : ReceiveCommand(cmd)
    BY <1>2, <1>4, SecondReceive DEF SecondInv
  \* Nothing is sent, and what has begun had begun before.
  <1>5. ASSUME UNCHANGED <<pendingCmds, commands, fatal>>,
               \A x \in contexts' : x.state \in Begun
                  => \E y \in contexts : y.state \in Begun /\ y.cell = x.cell /\ y.rnti = x.rnti
        PROVE  SecondInv'
    <2>1. SentOnce'
      BY <1>2, <1>5 DEF SentOnce, Key
    <2>2. BegunOnce'
      BY <1>1, <1>2, <1>5, BegunFrame
    <2> QED
      BY <1>2, <1>5, <2>1, <2>2 DEF SecondInv
  <1>6. CASE UNCHANGED <<pendingCmds, commands, fatal, contexts>>
    BY <1>5, <1>6
  <1>7. ASSUME NEW x \in contexts, AdmitHandover(x) PROVE SecondInv'
    <2> DEFINE r == NextRnti(x.target)
               y == [x EXCEPT !.state = "HANDOVER_LEAVING", !.newRnti = r]
               z == NewContext(x.ue, x.target, r, "HANDOVER_JOINING")
    <2>1. /\ contexts' = (contexts \ {x}) \cup {y, z} /\ UNCHANGED <<pendingCmds, commands, fatal>>
          /\ x.state \in Begun
      BY <1>7 DEF AdmitHandover, Replace, Begun
    <2>2. y.cell = x.cell /\ y.rnti = x.rnti
      BY <1>0, AdmittedFields
    <2>3. z.state \notin Begun
      BY NewFields DEF Begun
    <2> HIDE DEF y, z
    <2> QED
      BY <1>5, <2>1, <2>2, <2>3
  <1>8. ASSUME NEW x \in contexts, NEW s,
               s \notin Begun, contexts' = Replace(x, [x EXCEPT !.state = s]),
               UNCHANGED <<pendingCmds, commands, fatal>>
        PROVE  SecondInv'
    <2> DEFINE y == [x EXCEPT !.state = s]
    <2>1. y.state \notin Begun
      BY <1>0, <1>8, ChangedFields
    <2>2. contexts' = (contexts \ {x}) \cup {y}
      BY <1>8 DEF Replace
    <2> HIDE DEF y
    <2> QED
      BY <1>5, <1>8, <2>1, <2>2
  <1>9. ASSUME NEW x \in contexts, RefuseHandover(x) \/ PathSwitchAcknowledge(x) PROVE SecondInv'
    <2>1. /\ contexts' = Replace(x, [x EXCEPT !.state = "CONNECTED_NORMALLY"])
          /\ UNCHANGED <<pendingCmds, commands, fatal>>
      BY <1>9 DEF RefuseHandover, PathSwitchAcknowledge
    <2> QED
      BY <1>8, <2>1 DEF Begun
  <1>10. ASSUME NEW x \in contexts, ReconfigurationCompleted(x) PROVE SecondInv'
    <2>1. /\ contexts' = Replace(x, [x EXCEPT !.state = "HANDOVER_PATH_SWITCH"])
          /\ UNCHANGED <<pendingCmds, commands, fatal>>
      BY <1>10 DEF ReconfigurationCompleted
    <2> QED
      BY <1>8, <2>1 DEF Begun
  <1>11. ASSUME NEW x \in contexts, UeContextRelease(x) PROVE SecondInv'
    <2>1. contexts' \subseteq contexts /\ UNCHANGED <<pendingCmds, commands, fatal>>
      BY <1>11 DEF UeContextRelease
    <2> QED
      BY <1>5, <2>1
  <1>12. ASSUME \/ \E u \in Ues, p \in Places : Move(u, p)
                \/ \E u \in Ues : ReportCell(u) \/ ReportPlace(u)
                \/ \E u \in Ues, i \in 1..MaxReports : ReceiveCellReport(u, i) \/ ReceivePlaceReport(u, i)
                \/ QueryLms \/ Ended \/ UNCHANGED vars
                \/ \E x \in contexts : RecvReconfiguration(x)
         PROVE  UNCHANGED <<pendingCmds, commands, fatal, contexts>>
    BY <1>12 DEF vars, Move, ReportCell, ReportPlace, ReceiveCellReport, ReceivePlaceReport,
                 QueryLms, RecvReconfiguration, Ended
  <1> QED
    BY <1>3, <1>4, <1>6, <1>7, <1>9, <1>10, <1>11, <1>12 DEF Next

(* For any number of UEs, refused handovers included: with OranCmmHandover *)
(* and two cells, no eNB is asked to hand over a UE whose handover it has  *)
(* begun.                                                                  *)
THEOREM OneHandoverAtATime == Spec => []NoSecondHandover
  <1>1. Init => SecondInv
    <2> SUFFICES ASSUME Init PROVE SentOnce /\ BegunOnce /\ fatal \notin Begun
      BY DEF SecondInv
    <2>1. BagToSet(commands) = {} /\ fatal = "no"
      BY DEF Init, EmptyBag, SetToBag, BagToSet
    <2>2. \A x \in contexts : x.state = "CONNECTED_NORMALLY"
      BY NewFields DEF Init
    <2> QED
      BY <2>1, <2>2 DEF SentOnce, BegunOnce, Begun
  <1>2. SecondInv => NoSecondHandover
    BY DEF SecondInv, NoSecondHandover, Guarded, Begun
  <1> QED
    BY <1>1, <1>2, OwnInit, OwnStep, SecondStep, PTL DEF Spec

-----------------------------------------------------------------------------
(***************************************************************************)
(* The handover service.  A context is found by its cell and RNTI, and so  *)
(* is the context it was sent from; a UE has a context at its place; a UE  *)
(* that was told to leave is expected at the target until it is there, and *)
(* as long as it is only expected there, the source keeps its context.     *)
(***************************************************************************)
Spot(x) == [cell |-> x.cell, rnti |-> x.rnti]
Goal(x) == [cell |-> x.target, rnti |-> x.newRnti]

Leaving == {x \in contexts : x.state = "HANDOVER_LEAVING"}
Joining == {x \in contexts : x.state = "HANDOVER_JOINING"}

SpotsApart == \A x, y \in contexts : Spot(x) = Spot(y) => x = y
GoalsApart == \A x, y \in Leaving : Goal(x) = Goal(y) => x = y
Served == \A u \in Ues : \E x \in contexts : Spot(x) = serving[u]
Expected == \A x \in Leaving : Spot(x) = serving[x.ue] => \E y \in Joining : Spot(y) = Goal(x)
Kept == \A y \in Joining : Spot(y) = serving[y.ue] => \E x \in Leaving : Spot(y) = Goal(x)

ServiceInv == SpotsApart /\ GoalsApart /\ Served /\ Expected /\ Kept

\* Whose the contexts are, and that the next RNTI of a cell is nobody's.
Owned ==
    /\ \A x \in contexts, u \in Ues : Spot(x) = serving[u] => x.ue = u
    /\ \A x \in Leaving, u \in Ues : Goal(x) = serving[u] => x.ue = u
    /\ \A x \in Leaving, y \in contexts : Goal(x) = Spot(y) => x.ue = y.ue

Unused(p) ==
    /\ \A x \in contexts : Spot(x) # p
    /\ \A x \in Leaving : Goal(x) # p
    /\ \A u \in Ues : serving[u] # p

(* Ownership, without the owners.                                          *)
LEMMA OwnedNow ==
    ASSUME OwnInv
    PROVE  Owned /\ \A c \in Cells : Unused([cell |-> c, rnti |-> NextRnti(c)])
  <1>1. PICK own \in Owners : OwnParts(own, lastRnti)
    BY DEF OwnInv
  <1>2. /\ contexts \in SUBSET Context /\ serving \in [Ues -> CellInfo]
        /\ lastRnti \in [Cells -> Nat]
    BY DEF OwnInv, TypeOK
  <1>3. ASSUME NEW x \in contexts
        PROVE  /\ own[<<x.cell, x.rnti>>] = x.ue /\ x.rnti <= lastRnti[x.cell]
               /\ x \in Leaving => /\ own[<<x.target, x.newRnti>>] = x.ue
                                   /\ x.newRnti <= lastRnti[x.target]
    BY <1>1 DEF OwnParts, OwnContexts, OwnContext, Held, Leaving
  <1>4. ASSUME NEW u \in Ues
        PROVE  /\ own[<<serving[u].cell, serving[u].rnti>>] = u
               /\ serving[u].rnti <= lastRnti[serving[u].cell]
    BY <1>1 DEF OwnParts, OwnServing, OwnInfo, Held
  <1>5. \A x \in Leaving : x \in contexts
    BY DEF Leaving
  <1>a. ASSUME NEW x \in contexts, NEW u \in Ues, Spot(x) = serving[u] PROVE x.ue = u
    <2>1. serving[u].cell = x.cell /\ serving[u].rnti = x.rnti
      BY <1>a DEF Spot
    <2> QED
      BY <1>3, <1>4, <2>1
  <1>b. ASSUME NEW x \in Leaving, NEW u \in Ues, Goal(x) = serving[u] PROVE x.ue = u
    <2>1. serving[u].cell = x.target /\ serving[u].rnti = x.newRnti
      BY <1>b DEF Goal
    <2> QED
      BY <1>3, <1>4, <1>5, <2>1
  <1>c. ASSUME NEW x \in Leaving, NEW y \in contexts, Goal(x) = Spot(y) PROVE x.ue = y.ue
    <2>1. y.cell = x.target /\ y.rnti = x.newRnti
      BY <1>c DEF Goal, Spot
    <2> QED
      BY <1>3, <1>5, <2>1
  <1>6. Owned
    BY <1>a, <1>b, <1>c DEF Owned
  <1>7. ASSUME NEW c \in Cells PROVE Unused([cell |-> c, rnti |-> NextRnti(c)])
    <2> DEFINE n == NextRnti(c)
    <2>1. n = lastRnti[c] + 1 /\ lastRnti[c] \in Nat
      BY <1>2 DEF NextRnti
    <2>2. ~(n <= lastRnti[c])
      BY <2>1
    <2> HIDE DEF n
    <2>3. \A x \in contexts : Spot(x) # [cell |-> c, rnti |-> n]
      BY <1>3, <2>2 DEF Spot
    <2>4. \A x \in Leaving : Goal(x) # [cell |-> c, rnti |-> n]
      BY <1>3, <1>5, <2>2 DEF Goal
    <2>5. ASSUME NEW u \in Ues, serving[u] = [cell |-> c, rnti |-> n] PROVE FALSE
      <3>1. serving[u].cell = c /\ serving[u].rnti = n
        BY <2>5
      <3> QED
        BY <1>4, <2>2, <3>1
    <2> QED
      BY <2>3, <2>4, <2>5 DEF n, Unused
  <1> QED
    BY <1>6, <1>7

\* Context x becomes y: the same UE at the same place, in a state in which it
\* neither leaves nor is expected.
Turns(x, y) ==
    /\ y.ue = x.ue /\ Spot(y) = Spot(x)
    /\ y.state \notin {"HANDOVER_LEAVING", "HANDOVER_JOINING"}
    /\ x.state # "HANDOVER_LEAVING"
    /\ x.state = "HANDOVER_JOINING" => Spot(x) = serving[x.ue]
    /\ contexts' = (contexts \ {x}) \cup {y}
    /\ UNCHANGED serving

\* Context x is admitted: it becomes y, and z expects the UE at the target.
Admits(x, y, z) ==
    /\ x.state = "HANDOVER_PREPARATION"
    /\ y.ue = x.ue /\ Spot(y) = Spot(x) /\ y.state = "HANDOVER_LEAVING"
    /\ y.target = x.target /\ Goal(y) = Spot(z)
    /\ z.state = "HANDOVER_JOINING" /\ Unused(Spot(z))
    /\ contexts' = (contexts \ {x}) \cup {y, z}
    /\ UNCHANGED serving

(* What a step does to the contexts and to the place of the UE.            *)
LEMMA ServiceCases ==
    ASSUME OwnInv, [Next]_vars
    PROVE  \/ UNCHANGED <<contexts, serving>> /\ (UNCHANGED fatal \/ (Running /\ ~Running'))
           \/ /\ Running /\ Running'
              /\ \/ \E x \in contexts, c \in Cells : 
                       /\ x.state = "CONNECTED_NORMALLY" /\ c # x.cell
                       /\ Turns(x, [x EXCEPT !.state = "HANDOVER_PREPARATION", !.target = c])
                 \/ \E x \in contexts :
                       /\ x.state \in {"HANDOVER_PREPARATION", "HANDOVER_PATH_SWITCH"}
                       /\ Turns(x, [x EXCEPT !.state = "CONNECTED_NORMALLY"])
                 \/ \E x \in Joining :
                       /\ Spot(x) = serving[x.ue]
                       /\ Turns(x, [x EXCEPT !.state = "HANDOVER_PATH_SWITCH"])
                 \/ \E x \in contexts : \E y, z : Admits(x, y, z)
                 \/ \E x \in Leaving : RecvReconfiguration(x)
                 \/ \E x \in Leaving : UeContextRelease(x)
  <1> USE DEF ueVars, enbVars, dataVars, ricVars
  <1> DEFINE Still == UNCHANGED <<contexts, serving>> /\ (UNCHANGED fatal \/ (Running /\ ~Running'))
  <1>0. contexts \in SUBSET Context
    BY DEF OwnInv, TypeOK
  <1>1. ASSUME NEW cmd \in BagToSet(commands), ReceiveCommand(cmd)
        PROVE  \/ Still
               \/ /\ Running /\ Running'
                  /\ \E x \in contexts, c \in Cells : 
                       /\ x.state = "CONNECTED_NORMALLY" /\ c # x.cell
                       /\ Turns(x, [x EXCEPT !.state = "HANDOVER_PREPARATION", !.target = c])
    <2>1. cmd.cell \in Cells /\ UNCHANGED serving /\ Running
      BY <1>1 DEF ReceiveCommand, OwnInv, TypeOK, Command
    <2>2. ASSUME NEW x \in Addressed(cmd), PrepareHandover(x, cmd.cell), ~ UNCHANGED contexts
          PROVE  /\ x \in contexts /\ x.state = "CONNECTED_NORMALLY" /\ cmd.cell # x.cell
                 /\ Turns(x, [x EXCEPT !.state = "HANDOVER_PREPARATION", !.target = cmd.cell])
                 /\ Running'
      <3>1. x \in contexts /\ x \in Context
        BY <1>0 DEF Addressed
      <3>2. /\ x.state = "CONNECTED_NORMALLY" /\ cmd.cell # x.cell /\ UNCHANGED fatal
            /\ contexts' = Replace(x, [x EXCEPT !.state = "HANDOVER_PREPARATION", !.target = cmd.cell])
        BY <2>2 DEF PrepareHandover
      <3> DEFINE y == [x EXCEPT !.state = "HANDOVER_PREPARATION", !.target = cmd.cell]
      <3>3. /\ y.ue = x.ue /\ y.cell = x.cell /\ y.rnti = x.rnti
            /\ y.state = "HANDOVER_PREPARATION"
        BY <3>1, PreparedFields
      <3>4. contexts' = (contexts \ {x}) \cup {y}
        BY <3>2 DEF Replace
      <3> HIDE DEF y
      <3>5. Turns(x, y)
        BY <2>1, <3>2, <3>3, <3>4 DEF Turns, Spot
      <3> QED
        BY <2>1, <3>1, <3>2, <3>5 DEF y, Running
    <2>3. ASSUME NEW x \in Addressed(cmd), PrepareHandover(x, cmd.cell), UNCHANGED contexts
          PROVE  Still
      <3>0. x \in contexts /\ x \in Context
        BY <1>0 DEF Addressed
      <3>1. fatal' \in {fatal, "own cell", x.state}
        BY <2>3 DEF PrepareHandover
      <3>2. x.state # "no"
        BY <3>0 DEF Context, States
      <3>3. fatal' = fatal \/ ~Running'
        BY <3>1, <3>2 DEF Running
      <3>4. UNCHANGED <<contexts, serving>>
        BY <2>1, <2>3
      <3>5. CASE fatal' = fatal
        BY <3>4, <3>5
      <3>6. CASE ~Running'
        BY <2>1, <3>4, <3>6
      <3> QED
        BY <3>3, <3>5, <3>6
    <2>4. ASSUME fatal' \in {fatal, "null terminator"}, UNCHANGED contexts PROVE Still
      <3>1. fatal' = fatal \/ ~Running'
        BY <2>4 DEF Running
      <3>2. UNCHANGED <<contexts, serving>>
        BY <2>1, <2>4
      <3>3. CASE fatal' = fatal
        BY <3>2, <3>3
      <3>4. CASE ~Running'
        BY <2>1, <3>2, <3>4
      <3> QED
        BY <3>1, <3>3, <3>4
    <2>5. \/ \E x \in Addressed(cmd) : PrepareHandover(x, cmd.cell)
          \/ fatal' \in {fatal, "null terminator"} /\ UNCHANGED contexts
      BY <1>1 DEF ReceiveCommand
    <2> HIDE DEF Still
    <2> QED
      BY <2>1, <2>2, <2>3, <2>4, <2>5
  <1>2. ASSUME NEW x \in contexts, RefuseHandover(x) \/ PathSwitchAcknowledge(x)
        PROVE  /\ Running /\ Running'
               /\ x.state \in {"HANDOVER_PREPARATION", "HANDOVER_PATH_SWITCH"}
               /\ Turns(x, [x EXCEPT !.state = "CONNECTED_NORMALLY"])
    <2> DEFINE y == [x EXCEPT !.state = "CONNECTED_NORMALLY"]
    <2>1. /\ Running /\ UNCHANGED <<fatal, serving>>
          /\ x.state \in {"HANDOVER_PREPARATION", "HANDOVER_PATH_SWITCH"}
          /\ contexts' = (contexts \ {x}) \cup {y}
      BY <1>2 DEF RefuseHandover, PathSwitchAcknowledge, Replace
    <2>2. y.ue = x.ue /\ y.cell = x.cell /\ y.rnti = x.rnti /\ y.state = "CONNECTED_NORMALLY"
      BY <1>0, ChangedFields
    <2> HIDE DEF y
    <2>3. Turns(x, y)
      BY <2>1, <2>2 DEF Turns, Spot
    <2> QED
      BY <2>1, <2>3 DEF y, Running
  <1>3. ASSUME NEW x \in contexts, ReconfigurationCompleted(x)
        PROVE  /\ Running /\ Running' /\ x \in Joining /\ Spot(x) = serving[x.ue]
               /\ Turns(x, [x EXCEPT !.state = "HANDOVER_PATH_SWITCH"])
    <2> DEFINE y == [x EXCEPT !.state = "HANDOVER_PATH_SWITCH"]
    <2>1. /\ Running /\ UNCHANGED <<fatal, serving>>
          /\ x \in Joining /\ x.state = "HANDOVER_JOINING" /\ Spot(x) = serving[x.ue]
          /\ contexts' = (contexts \ {x}) \cup {y}
      BY <1>3 DEF ReconfigurationCompleted, Replace, Spot, Joining
    <2>2. y.ue = x.ue /\ y.cell = x.cell /\ y.rnti = x.rnti /\ y.state = "HANDOVER_PATH_SWITCH"
      BY <1>0, ChangedFields
    <2> HIDE DEF y
    <2>3. Turns(x, y)
      BY <2>1, <2>2 DEF Turns, Spot
    <2> QED
      BY <2>1, <2>3 DEF y, Running
  <1>4. ASSUME NEW x \in contexts, AdmitHandover(x)
        PROVE  Running /\ Running' /\ \E y, z : Admits(x, y, z)
    <2> DEFINE r == NextRnti(x.target)
               y == [x EXCEPT !.state = "HANDOVER_LEAVING", !.newRnti = r]
               z == NewContext(x.ue, x.target, r, "HANDOVER_JOINING")
    <2>1. /\ Running /\ UNCHANGED <<fatal, serving>> /\ x.state = "HANDOVER_PREPARATION"
          /\ contexts' = (contexts \ {x}) \cup {y, z}
      BY <1>4 DEF AdmitHandover, Replace
    <2>2. /\ y.ue = x.ue /\ y.cell = x.cell /\ y.rnti = x.rnti /\ y.state = "HANDOVER_LEAVING"
          /\ y.target = x.target /\ y.newRnti = r
      BY <1>0, AdmittedFields
    <2>3. z.cell = x.target /\ z.rnti = r /\ z.state = "HANDOVER_JOINING"
      BY NewFields
    <2>4. x.target \in Cells
      BY <1>0 DEF Context
    <2>5. Unused([cell |-> x.target, rnti |-> r])
      BY <2>4, OwnedNow
    <2> HIDE DEF y, z, r
    <2>6. Admits(x, y, z)
      BY <2>1, <2>2, <2>3, <2>5 DEF Admits, Spot, Goal
    <2> QED
      BY <2>1, <2>6 DEF Running
  <1>5. ASSUME NEW x \in contexts, RecvReconfiguration(x) \/ UeContextRelease(x)
        PROVE  Running /\ Running' /\ x \in Leaving
    BY <1>5 DEF RecvReconfiguration, UeContextRelease, Leaving, Running
  <1>6. ASSUME \/ \E u \in Ues, p \in Places : Move(u, p)
               \/ \E u \in Ues : ReportCell(u) \/ ReportPlace(u)
               \/ \E u \in Ues, i \in 1..MaxReports : ReceiveCellReport(u, i) \/ ReceivePlaceReport(u, i)
               \/ QueryLms \/ ProcessLmQueryCommands \/ Ended \/ UNCHANGED vars
        PROVE  Still
    <2>1. UNCHANGED <<contexts, serving, fatal>>
      BY <1>6 DEF vars, Move, ReportCell, ReportPlace, ReceiveCellReport, ReceivePlaceReport,
                  QueryLms, ProcessLmQueryCommands, Ended
    <2> QED
      BY <2>1
  <1> HIDE DEF Still
  <1>7. Next \/ UNCHANGED vars
    OBVIOUS
  <1>8. CASE \E cmd \in BagToSet(commands) : ReceiveCommand(cmd)
    BY <1>1, <1>8, Zenon DEF Still
  <1>9. CASE \E x \in contexts : RefuseHandover(x) \/ PathSwitchAcknowledge(x)
    BY <1>2, <1>9, Zenon
  <1>10. CASE \E x \in contexts : ReconfigurationCompleted(x)
    BY <1>3, <1>10, Zenon
  <1>11. CASE \E x \in contexts : AdmitHandover(x)
    BY <1>4, <1>11, Zenon
  <1>12. CASE \E x \in contexts : RecvReconfiguration(x) \/ UeContextRelease(x)
    BY <1>5, <1>12, Zenon
  <1>13. CASE Still
    BY <1>13 DEF Still
  <1> QED
    BY <1>6, <1>7, <1>8, <1>9, <1>10, <1>11, <1>12, <1>13, Zenon DEF Next

(* A context changes its state.                                            *)
LEMMA ServiceTurn ==
    ASSUME Owned, ServiceInv, NEW x \in contexts, NEW y, Turns(x, y)
    PROVE  ServiceInv'
  <1>1. /\ y.ue = x.ue /\ Spot(y) = Spot(x) /\ contexts' = (contexts \ {x}) \cup {y}
        /\ UNCHANGED serving
    BY DEF Turns
  <1>2. Leaving' = Leaving
    BY DEF Turns, Leaving
  <1>3. Joining' = Joining \ {x}
    BY DEF Turns, Joining
  <1>4. SpotsApart'
    BY <1>1 DEF ServiceInv, SpotsApart, Spot
  <1>5. GoalsApart'
    BY <1>2 DEF ServiceInv, GoalsApart, Goal
  <1>6. Served'
    BY <1>1 DEF ServiceInv, Served, Spot
  <1>7. ASSUME NEW w \in Leaving, Spot(w) = serving[w.ue]
        PROVE  \E v \in Joining \ {x} : Spot(v) = Goal(w)
    <2>1. PICK v \in Joining : Spot(v) = Goal(w)
      BY <1>7 DEF ServiceInv, Expected
    <2>2. v # x
      <3>1. SUFFICES ASSUME v = x PROVE FALSE
        OBVIOUS
      <3>2. x.state = "HANDOVER_JOINING" /\ w \in contexts /\ w.state = "HANDOVER_LEAVING"
        BY <3>1 DEF Joining, Leaving
      <3>3. Spot(x) = serving[x.ue] /\ w.ue = x.ue
        BY <2>1, <3>1, <3>2 DEF Turns, Owned
      <3>4. w = x
        BY <1>7, <3>2, <3>3 DEF ServiceInv, SpotsApart
      <3> QED
        BY <3>2, <3>4
    <2> QED
      BY <2>1, <2>2
  <1>8. Expected'
    BY <1>1, <1>2, <1>3, <1>7 DEF Expected, Spot, Goal
  <1>9. Kept'
    BY <1>1, <1>2, <1>3 DEF ServiceInv, Kept, Spot, Goal
  <1> QED
    BY <1>4, <1>5, <1>6, <1>8, <1>9 DEF ServiceInv

(* A handover is admitted.                                                 *)
LEMMA ServiceAdmit ==
    ASSUME ServiceInv, \A u \in Ues : serving[u] \in CellInfo, contexts \in SUBSET Context,
           contexts' \in SUBSET Context,
           NEW x \in contexts, NEW y, NEW z, Admits(x, y, z)
    PROVE  ServiceInv'
  <1>1. /\ y.ue = x.ue /\ Spot(y) = Spot(x) /\ contexts' = (contexts \ {x}) \cup {y, z}
        /\ Goal(y) = Spot(z) /\ UNCHANGED serving
        /\ y.state = "HANDOVER_LEAVING" /\ z.state = "HANDOVER_JOINING"
    BY DEF Admits
  <1>2. Leaving' = Leaving \cup {y}
    BY <1>1 DEF Admits, Leaving
  <1>3. Joining' = Joining \cup {z}
    BY <1>1 DEF Admits, Joining
  <1>4. /\ \A w \in contexts : Spot(w) # Spot(z)
        /\ \A w \in Leaving : Goal(w) # Spot(z)
        /\ \A u \in Ues : serving[u] # Spot(z)
    BY DEF Admits, Unused
  <1>5. SpotsApart'
    <2>1. ASSUME NEW v \in contexts', NEW w \in contexts', Spot(v) = Spot(w) PROVE v = w
      BY <1>1, <1>4, <2>1 DEF ServiceInv, SpotsApart
    <2> QED
      BY <2>1 DEF SpotsApart, Spot
  <1>6. GoalsApart'
    <2>1. ASSUME NEW v \in Leaving \cup {y}, NEW w \in Leaving \cup {y}, Goal(v) = Goal(w) PROVE v = w
      BY <1>1, <1>4, <2>1 DEF ServiceInv, GoalsApart
    <2> QED
      BY <1>2, <2>1 DEF GoalsApart, Goal
  <1>7. Served'
    <2>1. ASSUME NEW u \in Ues PROVE \E w \in contexts' : Spot(w) = serving[u]
      <3>1. PICK w \in contexts : Spot(w) = serving[u]
        BY DEF ServiceInv, Served
      <3> QED
        BY <1>1, <3>1
    <2> QED
      BY <1>1, <2>1 DEF Served, Spot
  <1>8. Expected'
    <2>1. ASSUME NEW w \in Leaving \cup {y}, Spot(w) = serving[w.ue]
          PROVE  \E v \in Joining \cup {z} : Spot(v) = Goal(w)
      BY <1>1, <2>1 DEF ServiceInv, Expected
    <2> QED
      BY <1>1, <1>2, <1>3, <2>1 DEF Expected, Spot, Goal
  <1>9. Kept'
    <2>1. z.ue \in Ues
      BY <1>1 DEF Context
    <2>2. ASSUME NEW v \in Joining \cup {z}, Spot(v) = serving[v.ue]
          PROVE  \E w \in Leaving \cup {y} : Spot(v) = Goal(w)
      BY <1>1, <1>4, <2>1, <2>2 DEF ServiceInv, Kept
    <2> QED
      BY <1>1, <1>2, <1>3, <2>2 DEF Kept, Spot, Goal
  <1> QED
    BY <1>5, <1>6, <1>7, <1>8, <1>9 DEF ServiceInv

(* The UE goes to the target.                                              *)
LEMMA ServiceMove ==
    ASSUME Owned, ServiceInv, serving \in [Ues -> CellInfo], contexts \in SUBSET Context,
           NEW x \in Leaving, RecvReconfiguration(x)
    PROVE  /\ ServiceInv' /\ Spot(x) = serving[x.ue] /\ UNCHANGED contexts
           /\ x.ue \in Ues /\ serving' = [serving EXCEPT ![x.ue] = Goal(x)]
           /\ \E y \in Joining : Spot(y) = Goal(x)
  <1>1. /\ x \in contexts /\ x.ue \in Ues /\ x.state = "HANDOVER_LEAVING"
    BY DEF Leaving, Context
  <1>2. /\ Spot(x) = serving[x.ue] /\ serving' = [serving EXCEPT ![x.ue] = Goal(x)]
        /\ UNCHANGED contexts
    BY DEF RecvReconfiguration, Spot, Goal, enbVars
  <1>3. /\ serving'[x.ue] = Goal(x)
        /\ \A u \in Ues : u # x.ue => serving'[u] = serving[u]
    BY <1>1, <1>2
  <1>4. Leaving' = Leaving /\ Joining' = Joining
    BY <1>2 DEF Leaving, Joining
  <1>5. PICK y \in Joining : Spot(y) = Goal(x)
    BY <1>2 DEF ServiceInv, Expected
  <1>6. y \in contexts /\ y.state = "HANDOVER_JOINING"
    BY DEF Joining
  <1>7. SpotsApart' /\ GoalsApart'
    BY <1>2, <1>4 DEF ServiceInv, SpotsApart, GoalsApart, Spot, Goal
  <1>8. Served'
    <2>1. ASSUME NEW u \in Ues PROVE \E w \in contexts : Spot(w) = serving'[u]
      BY <1>3, <1>5, <1>6 DEF ServiceInv, Served
    <2> QED
      BY <1>2, <2>1 DEF Served, Spot
  <1>9. Expected'
    <2>1. ASSUME NEW w \in Leaving, Spot(w) = serving'[w.ue]
          PROVE  \E v \in Joining : Spot(v) = Goal(w)
      <3>1. w \in contexts /\ w.ue \in Ues /\ w.state = "HANDOVER_LEAVING"
        BY DEF Leaving, Context
      <3>2. w.ue # x.ue
        <4>1. SUFFICES ASSUME w.ue = x.ue PROVE FALSE
          OBVIOUS
        <4>2. Spot(w) = Spot(y)
          BY <1>3, <1>5, <2>1, <4>1
        <4>3. w = y
          BY <1>6, <3>1, <4>2 DEF ServiceInv, SpotsApart
        <4> QED
          BY <1>6, <3>1, <4>3
      <3> QED
        BY <1>3, <2>1, <3>1, <3>2 DEF ServiceInv, Expected
    <2> QED
      BY <1>4, <2>1 DEF Expected, Spot, Goal
  <1>10. Kept'
    <2>1. ASSUME NEW v \in Joining, Spot(v) = serving'[v.ue]
          PROVE  \E w \in Leaving : Spot(v) = Goal(w)
      <3>1. v.ue \in Ues
        BY DEF Joining, Context
      <3>2. CASE v.ue = x.ue
        BY <1>3, <2>1, <3>2
      <3>3. CASE v.ue # x.ue
        BY <1>3, <2>1, <3>1, <3>3 DEF ServiceInv, Kept
      <3> QED
        BY <3>2, <3>3
    <2> QED
      BY <1>4, <2>1 DEF Kept, Spot, Goal
  <1> QED
    BY <1>1, <1>2, <1>5, <1>7, <1>8, <1>9, <1>10 DEF ServiceInv

(* The source forgets the UE: it is not there any more, and not only       *)
(* expected at the target.                                                 *)
LEMMA ServiceRelease ==
    ASSUME Owned, ServiceInv, contexts \in SUBSET Context,
           NEW x \in Leaving, UeContextRelease(x)
    PROVE  /\ ServiceInv' /\ contexts' = contexts \ {x} /\ UNCHANGED serving
           /\ \A u \in Ues : Spot(x) # serving[u]
           /\ \A y \in Joining : Spot(y) # Goal(x)
  <1>1. /\ x \in contexts /\ x.ue \in Ues /\ x.state = "HANDOVER_LEAVING"
    BY DEF Leaving, Context
  <1>2. contexts' = contexts \ {x} /\ UNCHANGED serving
    BY DEF UeContextRelease, ueVars
  <1>3. ASSUME NEW y \in Joining, Spot(y) = Goal(x) PROVE FALSE
    <2>1. /\ y \in contexts /\ y.state = "HANDOVER_JOINING"
          /\ y.cell = x.target /\ y.rnti = x.newRnti
      BY <1>3 DEF Joining, Spot, Goal
    <2> QED
      BY <2>1 DEF UeContextRelease
  <1>4. ASSUME NEW u \in Ues, Spot(x) = serving[u] PROVE FALSE
    <2>1. x.ue = u
      BY <1>1, <1>4 DEF Owned
    <2> QED
      BY <1>3, <1>4, <2>1 DEF ServiceInv, Expected
  <1>5. Leaving' = Leaving \ {x} /\ Joining' = Joining
    BY <1>1, <1>2 DEF Leaving, Joining
  <1>6. SpotsApart' /\ GoalsApart'
    BY <1>2, <1>5 DEF ServiceInv, SpotsApart, GoalsApart, Spot, Goal
  <1>7. Served'
    <2>1. ASSUME NEW u \in Ues PROVE \E w \in contexts \ {x} : Spot(w) = serving[u]
      <3>1. PICK w \in contexts : Spot(w) = serving[u]
        BY DEF ServiceInv, Served
      <3> QED
        BY <1>4, <3>1
    <2> QED
      BY <1>2, <2>1 DEF Served, Spot
  <1>8. Expected'
    BY <1>2, <1>5 DEF ServiceInv, Expected, Spot, Goal
  <1>9. Kept'
    <2>1. ASSUME NEW v \in Joining, Spot(v) = serving[v.ue]
          PROVE  \E w \in Leaving \ {x} : Spot(v) = Goal(w)
      <3>1. PICK w \in Leaving : Spot(v) = Goal(w)
        BY <2>1 DEF ServiceInv, Kept
      <3> QED
        BY <1>3, <3>1
    <2> QED
      BY <1>2, <1>5, <2>1 DEF Kept, Spot, Goal
  <1> QED
    BY <1>2, <1>3, <1>4, <1>6, <1>7, <1>8, <1>9 DEF ServiceInv

(* Every step keeps the contexts in order.                                 *)
LEMMA ServiceStep == OwnInv /\ OwnInv' /\ ServiceInv /\ [Next]_vars => ServiceInv'
  <1> SUFFICES ASSUME OwnInv, OwnInv', ServiceInv, [Next]_vars PROVE ServiceInv'
    OBVIOUS
  <1>1. /\ Owned /\ contexts \in SUBSET Context /\ serving \in [Ues -> CellInfo]
        /\ contexts' \in SUBSET Context
    BY OwnedNow DEF OwnInv, TypeOK
  <1>2. CASE UNCHANGED <<contexts, serving>>
    <2>1. Leaving' = Leaving /\ Joining' = Joining
      BY <1>2 DEF Leaving, Joining
    <2> QED
      BY <1>2, <2>1 DEF ServiceInv, SpotsApart, GoalsApart, Served, Expected, Kept, Spot, Goal
  <1>3. \A x \in Joining : x \in contexts
    BY DEF Joining
  <1>4. CASE \E x \in contexts : \E y : Turns(x, y)
    BY <1>1, <1>4, ServiceTurn
  <1>5. CASE \E x \in contexts : \E y, z : Admits(x, y, z)
    BY <1>1, <1>5, ServiceAdmit
  <1>6. CASE \E x \in Leaving : RecvReconfiguration(x)
    BY <1>1, <1>6, ServiceMove
  <1>7. CASE \E x \in Leaving : UeContextRelease(x)
    BY <1>1, <1>7, ServiceRelease
  <1> QED
    BY <1>2, <1>3, <1>4, <1>5, <1>6, <1>7, ServiceCases, Zenon

(* The loop begins with a context for each UE.                             *)
LEMMA ServiceInit == Init => ServiceInv
  <1> SUFFICES ASSUME Init PROVE ServiceInv
    OBVIOUS
  <1> DEFINE C(u) == NewContext(u, conf.initCell[u], InitRnti(u), "CONNECTED_NORMALLY")
  <1>1. /\ contexts = {C(u) : u \in Ues} /\ conf \in Configs
        /\ serving = [u \in Ues |-> [cell |-> conf.initCell[u], rnti |-> InitRnti(u)]]
    BY DEF Init
  <1>2. \A u \in Ues : Spot(C(u)) = serving[u] /\ C(u).state = "CONNECTED_NORMALLY"
    BY <1>1, NewFields DEF Spot
  <1>3. \A u, v \in Ues : serving[u] = serving[v] => u = v
    <2>1. ASSUME NEW u \in Ues, NEW v \in Ues, serving[u] = serving[v] PROVE u = v
      <3>1. conf.initCell[u] = conf.initCell[v] /\ InitRnti(u) = InitRnti(v)
        BY <1>1, <2>1
      <3> QED
        BY <1>1, <3>1, InitRntis
    <2> QED
      BY <2>1
  <1> HIDE DEF C
  <1>4. Leaving = {} /\ Joining = {}
    BY <1>1, <1>2 DEF Leaving, Joining
  <1>5. SpotsApart
    BY <1>1, <1>2, <1>3 DEF SpotsApart
  <1>6. Served
    BY <1>1, <1>2 DEF Served
  <1> QED
    BY <1>4, <1>5, <1>6 DEF ServiceInv, GoalsApart, Expected, Kept

\* What the service shows of a UE with context h, sent there from context w.
Shown(h, w) ==
    IF h.state = "HANDOVER_PREPARATION"
      THEN [phase |-> "preparing", cell |-> h.cell, target |-> h.target]
    ELSE IF h.state = "HANDOVER_LEAVING"
      THEN [phase |-> "executing", cell |-> h.cell, target |-> h.target]
    ELSE IF h.state = "HANDOVER_JOINING"
      THEN [phase |-> "executing", cell |-> w.cell, target |-> h.cell]
    ELSE [phase |-> "connected", cell |-> h.cell, target |-> 0]

\* The context of a UE, and the one it was sent from if it is not there yet.
Here(u, h, w) ==
    /\ h \in contexts /\ Spot(h) = serving[u]
    /\ h.state = "HANDOVER_JOINING" => w \in Leaving /\ Goal(w) = serving[u]

Described == Running => \A u \in Ues : \A h, w : Here(u, h, w) => ServicePhase(u) = Shown(h, w)

(* The service shows what the contexts of the UE say.                      *)
LEMMA Describes == OwnInv /\ ServiceInv => Described
  <1> SUFFICES ASSUME OwnInv, ServiceInv, Running, NEW u \in Ues, NEW h, NEW w, Here(u, h, w)
               PROVE  ServicePhase(u) = Shown(h, w)
    BY DEF Described
  <1> DEFINE here == CHOOSE x \in contexts : [cell |-> x.cell, rnti |-> x.rnti] = serving[u]
             from == CHOOSE x \in contexts : x.state = "HANDOVER_LEAVING" /\ x.ue = u
                                             /\ [cell |-> x.target, rnti |-> x.newRnti] = serving[u]
  <1>1. h \in contexts /\ [cell |-> h.cell, rnti |-> h.rnti] = serving[u]
    BY DEF Here, Spot
  <1>2. here = h
    <2>1. here \in contexts /\ [cell |-> here.cell, rnti |-> here.rnti] = serving[u]
      BY <1>1
    <2> HIDE DEF here
    <2> QED
      BY <1>1, <2>1 DEF ServiceInv, SpotsApart, Spot
  <1>3. h.state = "HANDOVER_JOINING" => from = w
    <2>1. SUFFICES ASSUME w \in Leaving, Goal(w) = serving[u] PROVE from = w
      BY DEF Here
    <2>2. /\ w \in contexts /\ w.state = "HANDOVER_LEAVING" /\ w.ue = u
          /\ [cell |-> w.target, rnti |-> w.newRnti] = serving[u]
      BY <2>1, OwnedNow DEF Leaving, Owned, Goal
    <2>3. /\ from \in contexts /\ from.state = "HANDOVER_LEAVING"
          /\ [cell |-> from.target, rnti |-> from.newRnti] = serving[u]
      BY <2>2
    <2> HIDE DEF from
    <2>4. from \in Leaving /\ Goal(from) = Goal(w)
      BY <2>1, <2>3 DEF Leaving, Goal
    <2> QED
      BY <2>1, <2>4 DEF ServiceInv, GoalsApart
  <1>4. ServicePhase(u) =
          IF ~Running THEN [phase |-> "disconnected", cell |-> 0, target |-> 0] ELSE
          CASE here.state = "HANDOVER_PREPARATION" ->
                 [phase |-> "preparing", cell |-> here.cell, target |-> here.target]
            [] here.state = "HANDOVER_LEAVING" ->
                 [phase |-> "executing", cell |-> here.cell, target |-> here.target]
            [] here.state = "HANDOVER_JOINING" ->
                 [phase |-> "executing", cell |-> from.cell, target |-> here.cell]
            [] OTHER -> [phase |-> "connected", cell |-> here.cell, target |-> 0]
    BY Zenon DEF ServicePhase
  <1> HIDE DEF here, from
  <1> QED
    BY <1>2, <1>3, <1>4 DEF Shown

(* Each UE has such contexts.                                              *)
LEMMA SomeHere ==
    ASSUME OwnInv, ServiceInv, NEW u \in Ues
    PROVE  \E h, w : Here(u, h, w)
  <1>1. PICK h \in contexts : Spot(h) = serving[u]
    BY DEF ServiceInv, Served
  <1>2. h.ue = u
    BY <1>1, OwnedNow DEF Owned
  <1>3. CASE h.state = "HANDOVER_JOINING"
    <2>1. h \in Joining
      BY <1>3 DEF Joining
    <2>2. PICK w \in Leaving : Spot(h) = Goal(w)
      BY <1>1, <1>2, <2>1 DEF ServiceInv, Kept
    <2> QED
      BY <1>1, <2>2 DEF Here
  <1>4. CASE h.state # "HANDOVER_JOINING"
    BY <1>1, <1>4 DEF Here
  <1> QED
    BY <1>3, <1>4

\* A step of the handover service, or none.
Simulates(p, q) ==
    \/ q = p
    \/ /\ p.phase = "connected"
       /\ \E c \in Cells : c # p.cell /\ q = [phase |-> "preparing", cell |-> p.cell, target |-> c]
    \/ p.phase = "preparing" /\ q = [phase |-> "connected", cell |-> p.cell, target |-> 0]
    \/ p.phase = "preparing" /\ q = [phase |-> "executing", cell |-> p.cell, target |-> p.target]
    \/ p.phase = "executing" /\ q = [phase |-> "connected", cell |-> p.target, target |-> 0]
    \/ p.phase # "disconnected" /\ q = [phase |-> "disconnected", cell |-> 0, target |-> 0]

(* Such a step is one of module LteHandoverService.                        *)
LEMMA SimulatesService ==
    ASSUME NEW u \in Ues, Simulates(ServicePhase(u), ServicePhase(u)')
    PROVE  [Service(u)!Next]_(Service(u)!vars)
  <1> DEFINE p == ServicePhase(u)
             q == ServicePhase(u)'
  <1>1. CASE q = p
    <2>1. Service(u)!vars' = Service(u)!vars
      BY <1>1 DEF Service!vars
    <2> QED
      BY <2>1
  <1>2. CASE q # p
    BY <1>2 DEF Simulates, Service!Next, Service!Request, Service!Refuse, Service!Admit,
                Service!Complete, Service!Lose
  <1> QED
    BY <1>1, <1>2

(* A context changes: the UE has it still, or it is another UE's.          *)
LEMMA HereTurns ==
    ASSUME NEW x \in contexts, NEW y, Turns(x, y), NEW u, NEW h, NEW w, Here(u, h, w)
    PROVE  IF h = x THEN Here(u, y, w)' ELSE Here(u, h, w)'
  <1>1. Leaving' = Leaving
    BY DEF Turns, Leaving
  <1>2. /\ contexts' = (contexts \ {x}) \cup {y} /\ UNCHANGED serving /\ Spot(y) = Spot(x)
        /\ y.state # "HANDOVER_JOINING"
    BY DEF Turns
  <1>3. CASE h = x
    <2>1. y \in contexts' /\ Spot(y) = serving'[u]
      BY <1>2, <1>3 DEF Here
    <2> QED
      BY <1>2, <1>3, <2>1 DEF Here, Spot, Goal
  <1>4. CASE h # x
    BY <1>1, <1>2, <1>4 DEF Here, Spot, Goal
  <1> QED
    BY <1>3, <1>4

(* A handover is admitted.                                                 *)
LEMMA HereAdmits ==
    ASSUME NEW x \in contexts, NEW y, NEW z, Admits(x, y, z), NEW u, NEW h, NEW w, Here(u, h, w)
    PROVE  IF h = x THEN Here(u, y, w)' ELSE Here(u, h, w)'
  <1>1. Leaving \subseteq Leaving'
    BY DEF Admits, Leaving
  <1>2. /\ contexts' = (contexts \ {x}) \cup {y, z} /\ UNCHANGED serving /\ Spot(y) = Spot(x)
        /\ y.state # "HANDOVER_JOINING"
    BY DEF Admits
  <1>3. CASE h = x
    <2>1. y \in contexts' /\ Spot(y) = serving'[u]
      BY <1>2, <1>3 DEF Here
    <2> QED
      BY <1>2, <1>3, <2>1 DEF Here, Spot, Goal
  <1>4. CASE h # x
    BY <1>1, <1>2, <1>4 DEF Here, Spot, Goal
  <1> QED
    BY <1>3, <1>4

(* Every step of the loop is one of the service, or none.                  *)
LEMMA ServiceSimulated ==
    ASSUME OwnInv, ServiceInv, Described, Described', [Next]_vars, NEW u \in Ues
    PROVE  Simulates(ServicePhase(u), ServicePhase(u)')
  <1> DEFINE p == ServicePhase(u)
             q == ServicePhase(u)'
  <1>1. /\ Owned /\ contexts \in SUBSET Context /\ serving \in [Ues -> CellInfo]
    BY OwnedNow DEF OwnInv, TypeOK
  <1>2. PICK h, w : Here(u, h, w)
    BY SomeHere
  <1>3. h \in contexts /\ Spot(h) = serving[u]
    BY <1>2 DEF Here
  <1>4. Running => p = Shown(h, w)
    BY <1>2 DEF Described
  <1>5. ASSUME Running', NEW i, NEW v, Here(u, i, v)' PROVE q = Shown(i, v)
    BY <1>5 DEF Described
  <1>6. CASE UNCHANGED <<contexts, serving, fatal>>
    <2>1. q = p
      BY <1>6 DEF ServicePhase, Running
    <2> QED
      BY <2>1 DEF Simulates
  <1> HIDE DEF p, q
  <1>7. CASE Running /\ ~Running'
    <2>1. q = [phase |-> "disconnected", cell |-> 0, target |-> 0]
      BY <1>7 DEF q, ServicePhase
    <2>2. p.phase # "disconnected"
      BY <1>4, <1>7 DEF Shown
    <2> QED
      BY <2>1, <2>2 DEF Simulates, p, q
  \* The UE has its context and shows the same as before.
  <1>a. ASSUME Running, Running', Here(u, h, w)' PROVE Simulates(p, q)
    <2>1. q = p
      BY <1>4, <1>5, <1>a
    <2> QED
      BY <2>1 DEF Simulates
  <1>8. ASSUME Running, Running', NEW x \in contexts, NEW c \in Cells,
               x.state = "CONNECTED_NORMALLY", c # x.cell,
               Turns(x, [x EXCEPT !.state = "HANDOVER_PREPARATION", !.target = c])
        PROVE  Simulates(p, q)
    <2> DEFINE y == [x EXCEPT !.state = "HANDOVER_PREPARATION", !.target = c]
    <2>1. y.cell = x.cell /\ y.state = "HANDOVER_PREPARATION" /\ y.target = c
      BY <1>1, PreparedFields
    <2>2. Turns(x, y)
      BY <1>8
    <2> HIDE DEF y
    <2>3. IF h = x THEN Here(u, y, w)' ELSE Here(u, h, w)'
      BY <1>2, <2>2, HereTurns
    <2>4. CASE h = x
      <3>1. p = [phase |-> "connected", cell |-> x.cell, target |-> 0]
        BY <1>4, <1>8, <2>4 DEF Shown
      <3>2. q = [phase |-> "preparing", cell |-> x.cell, target |-> c]
        BY <1>5, <1>8, <2>1, <2>3, <2>4 DEF Shown
      <3> QED
        BY <1>8, <3>1, <3>2 DEF Simulates
    <2> QED
      BY <1>8, <1>a, <2>3, <2>4
  <1>9. ASSUME Running, Running', NEW x \in contexts,
               x.state \in {"HANDOVER_PREPARATION", "HANDOVER_PATH_SWITCH"},
               Turns(x, [x EXCEPT !.state = "CONNECTED_NORMALLY"])
        PROVE  Simulates(p, q)
    <2> DEFINE y == [x EXCEPT !.state = "CONNECTED_NORMALLY"]
    <2>1. y.cell = x.cell /\ y.state = "CONNECTED_NORMALLY"
      BY <1>1, ChangedFields
    <2>2. Turns(x, y)
      BY <1>9
    <2> HIDE DEF y
    <2>3. IF h = x THEN Here(u, y, w)' ELSE Here(u, h, w)'
      BY <1>2, <2>2, HereTurns
    <2>4. CASE h = x
      <3>1. q = [phase |-> "connected", cell |-> x.cell, target |-> 0]
        BY <1>5, <1>9, <2>1, <2>3, <2>4 DEF Shown
      <3>2. CASE x.state = "HANDOVER_PREPARATION"
        <4>1. p = [phase |-> "preparing", cell |-> x.cell, target |-> x.target]
          BY <1>4, <1>9, <2>4, <3>2 DEF Shown
        <4> QED
          BY <3>1, <4>1 DEF Simulates
      <3>3. CASE x.state = "HANDOVER_PATH_SWITCH"
        <4>1. p = [phase |-> "connected", cell |-> x.cell, target |-> 0]
          BY <1>4, <1>9, <2>4, <3>3 DEF Shown
        <4> QED
          BY <3>1, <4>1 DEF Simulates
      <3> QED
        BY <1>9, <3>2, <3>3
    <2> QED
      BY <1>9, <1>a, <2>3, <2>4
  <1>10. ASSUME Running, Running', NEW x \in Joining,
                Turns(x, [x EXCEPT !.state = "HANDOVER_PATH_SWITCH"])
         PROVE  Simulates(p, q)
    <2> DEFINE y == [x EXCEPT !.state = "HANDOVER_PATH_SWITCH"]
    <2>0. x \in contexts /\ x.state = "HANDOVER_JOINING"
      BY DEF Joining
    <2>1. y.cell = x.cell /\ y.state = "HANDOVER_PATH_SWITCH"
      BY <1>1, <2>0, ChangedFields
    <2>2. Turns(x, y)
      BY <1>10
    <2> HIDE DEF y
    <2>3. IF h = x THEN Here(u, y, w)' ELSE Here(u, h, w)'
      BY <1>2, <2>0, <2>2, HereTurns
    <2>4. CASE h = x
      <3>1. p = [phase |-> "executing", cell |-> w.cell, target |-> x.cell]
        BY <1>4, <1>10, <2>0, <2>4 DEF Shown
      <3>2. q = [phase |-> "connected", cell |-> x.cell, target |-> 0]
        BY <1>5, <1>10, <2>1, <2>3, <2>4 DEF Shown
      <3> QED
        BY <3>1, <3>2 DEF Simulates
    <2> QED
      BY <1>10, <1>a, <2>3, <2>4
  <1>11. ASSUME Running, Running', NEW x \in contexts, NEW y, NEW z, Admits(x, y, z)
         PROVE  Simulates(p, q)
    <2>1. /\ x.state = "HANDOVER_PREPARATION" /\ y.state = "HANDOVER_LEAVING"
          /\ y.cell = x.cell /\ y.target = x.target
      BY <1>11 DEF Admits, Spot
    <2>3. IF h = x THEN Here(u, y, w)' ELSE Here(u, h, w)'
      BY <1>2, <1>11, HereAdmits
    <2>4. CASE h = x
      <3>1. p = [phase |-> "preparing", cell |-> x.cell, target |-> x.target]
        BY <1>4, <1>11, <2>1, <2>4 DEF Shown
      <3>2. q = [phase |-> "executing", cell |-> x.cell, target |-> x.target]
        BY <1>5, <1>11, <2>1, <2>3, <2>4 DEF Shown
      <3> QED
        BY <3>1, <3>2 DEF Simulates
    <2> QED
      BY <1>11, <1>a, <2>3, <2>4
  <1>12. ASSUME Running, Running', NEW x \in Leaving, RecvReconfiguration(x)
         PROVE  Simulates(p, q)
    <2>1. /\ Spot(x) = serving[x.ue] /\ UNCHANGED contexts
          /\ x.ue \in Ues /\ serving' = [serving EXCEPT ![x.ue] = Goal(x)]
      BY <1>1, <1>12, ServiceMove
    <2>2. PICK y \in Joining : Spot(y) = Goal(x)
      BY <1>1, <1>12, ServiceMove
    <2>3. Leaving' = Leaving
      BY <2>1 DEF Leaving
    <2>4. CASE u = x.ue
      <3>1. h = x /\ x.state = "HANDOVER_LEAVING"
        BY <1>3, <2>1, <2>4 DEF ServiceInv, SpotsApart, Leaving
      <3>2. p = [phase |-> "executing", cell |-> x.cell, target |-> x.target]
        BY <1>4, <1>12, <3>1 DEF Shown
      <3>3. serving'[u] = Goal(x)
        BY <1>1, <2>1, <2>4
      <3>4. Here(u, y, x)'
        BY <2>1, <2>2, <2>3, <3>3 DEF Here, Spot, Goal, Joining
      <3>5. y.state = "HANDOVER_JOINING" /\ y.cell = x.target
        BY <2>2 DEF Joining, Spot, Goal
      <3>6. q = [phase |-> "executing", cell |-> x.cell, target |-> x.target]
        BY <1>5, <1>12, <3>4, <3>5 DEF Shown
      <3> QED
        BY <3>2, <3>6 DEF Simulates
    <2>5. CASE u # x.ue
      <3>1. serving'[u] = serving[u]
        BY <1>1, <2>1, <2>5
      <3>2. Here(u, h, w)'
        BY <1>2, <2>1, <2>3, <3>1 DEF Here, Spot, Goal
      <3> QED
        BY <1>12, <1>a, <3>2
    <2> QED
      BY <2>4, <2>5
  <1>13. ASSUME Running, Running', NEW x \in Leaving, UeContextRelease(x)
         PROVE  Simulates(p, q)
    <2>1. /\ contexts' = contexts \ {x} /\ UNCHANGED serving
          /\ \A v \in Ues : Spot(x) # serving[v]
          /\ \A y \in Joining : Spot(y) # Goal(x)
      BY <1>1, <1>13, ServiceRelease
    <2>2. Leaving' = Leaving \ {x}
      BY <2>1 DEF Leaving
    <2>3. h # x
      BY <1>3, <2>1
    <2>4. h.state = "HANDOVER_JOINING" => w # x
      <3>1. h.state = "HANDOVER_JOINING" => h \in Joining /\ Goal(w) = Spot(h)
        BY <1>2 DEF Here, Joining
      <3> QED
        BY <2>1, <3>1
    <2>5. Here(u, h, w)'
      BY <1>2, <2>1, <2>2, <2>3, <2>4 DEF Here, Spot, Goal
    <2> QED
      BY <1>13, <1>a, <2>5
  <1>14. UNCHANGED <<contexts, serving>> /\ UNCHANGED fatal => UNCHANGED <<contexts, serving, fatal>>
    OBVIOUS
  <1>15. Simulates(p, q)
    BY <1>6, <1>7, <1>8, <1>9, <1>10, <1>11, <1>12, <1>13, <1>14, ServiceCases, Zenon DEF p, q
  <1> QED
    BY <1>15 DEF p, q

(* Each UE begins connected.                                               *)
LEMMA ServiceBegins == Init => \A u \in Ues : Service(u)!Init
  <1> SUFFICES ASSUME Init, NEW u \in Ues PROVE Service(u)!Init
    OBVIOUS
  <1>1. OwnInv /\ ServiceInv /\ Described /\ Running
    BY OwnInit, ServiceInit, Describes DEF Init, Running
  <1>2. PICK h, w : Here(u, h, w)
    BY <1>1, SomeHere
  <1>3. h \in contexts /\ h.state = "CONNECTED_NORMALLY" /\ h.cell \in Cells
    <2>1. \A x \in contexts : x.state = "CONNECTED_NORMALLY"
      BY NewFields DEF Init
    <2> QED
      BY <1>1, <1>2, <2>1 DEF Here, OwnInv, TypeOK, Context
  <1>4. ServicePhase(u) = [phase |-> "connected", cell |-> h.cell, target |-> 0]
    BY <1>1, <1>2, <1>3 DEF Described, Shown
  <1> QED
    BY <1>3, <1>4 DEF Service!Init

(* Whatever the LMs want and whenever commands arrive, the loop does to    *)
(* each UE what the handover service does that LteX2Handover implements,   *)
(* or nothing, from the moment it is connected.                            *)
THEOREM LoopRefinesService == Spec => (\A u \in Ues : Service(u)!Init) /\ LoopUsesService
  <1>1. OwnInv' /\ ServiceInv' => Described'
    BY Describes, PTL
  <1>2. OwnInv /\ OwnInv' /\ ServiceInv /\ [Next]_vars
        => [\A u \in Ues : [Service(u)!Next]_(Service(u)!vars)]_vars
    <2> SUFFICES ASSUME OwnInv, OwnInv', ServiceInv, [Next]_vars, NEW u \in Ues
                 PROVE  [Service(u)!Next]_(Service(u)!vars)
      OBVIOUS
    <2>1. Described /\ Described'
      BY <1>1, Describes, ServiceStep
    <2> QED
      BY <2>1, ServiceSimulated, SimulatesService
  <1> QED
    BY <1>2, OwnInit, OwnStep, ServiceInit, ServiceStep, ServiceBegins, PTL DEF Spec, LoopUsesService
===============================================================================
