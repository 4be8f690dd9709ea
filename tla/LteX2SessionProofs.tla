-------------------------- MODULE LteX2SessionProofs --------------------------
(***************************************************************************)
(* The contexts of one session, that is of one TEID, between two eNBs, and *)
(* the handover as a service between any number of eNBs: for any number of *)
(* RNTIs and attachments, the ideal and the real RRC protocol, and links   *)
(* to the core network of any speed.                                       *)
(*                                                                         *)
(* The argument of the first: between two cells an X2 link orders all that *)
(* one of them tells the other, so a cell has forgotten that a UE was      *)
(* there before it is asked to take the UE back.  So of each TEID a cell   *)
(* has one context, and the maps that are searched by TEID lead to it.     *)
(*                                                                         *)
(* Of the second: a context that is offered or sent a UE is claimed by one *)
(* source, for which it was created, and when the UE's path is switched to *)
(* it that source is told.  So the phase of the handover can be read from  *)
(* the context at the UE's place or, while that one only waits, from the   *)
(* source that claims it, and each effect of a step on those two is one    *)
(* step of the service, or none.                                           *)
(***************************************************************************)
EXTENDS LteX2PathProofs

(***************************************************************************)
(* X2 links, message by message.                                           *)
(***************************************************************************)

\* What is done with the message that is next on a link, and what a message
\* that is put on a link comes from.
Handled(s, d, m) ==
    /\ m.msg = "HandoverRequest" => Refuses(s, d) \/ \E q \in Places : Admits(s, d, q)
    /\ m.msg = "HandoverRequestAck" => \E p, q \in Places : Commands(s, d, p, q)
    /\ m.msg = "PreparationFailure" => \E p \in Spots : Fails(s, d, p)
    /\ m.msg = "UeContextRelease" => \E p \in Spots : Ends(s, d, p)
    /\ m.msg = "HandoverCancel" => Cancels(s, d)
Posted(a, b, n) ==
    /\ n.msg = "HandoverRequest" =>
          \E p \in Places : Prepares(p, b) /\ p.cell = a /\ p.rnti = n.old /\ n.teid = ctx[p].teid
    /\ n.msg = "HandoverRequestAck" =>
          \E q \in Places : Admits(b, a, q) /\ q.rnti = n.new /\ n.old = From(b, a)
    /\ n.msg = "UeContextRelease" =>
          \E q \in Places : Switches(q) /\ q.cell = a /\ ctx[q].source.cell = b /\ ctx[q].source.rnti = n.old
    /\ n.msg = "HandoverCancel" =>
          \E p \in Places : TimesLeaving(p) /\ p.cell = a /\ p.rnti = n.old /\ ctx[p].target.cell = b
                            /\ ctx[p].target.rnti = n.new
\* A message is taken from a link or not, and one is put on another or not.
LinkStep == \E x \in [Links -> Seq(X2Msgs)] :
    /\ \/ x = x2
       \/ \E s, d \in Cells, msg \in X2Names :
             Arrived(s, d, msg) /\ x = X2Taken(s, d) /\ Handled(s, d, Head(x2[<<s, d>>]))
    /\ \/ x2' = x
       \/ \E a, b \in Cells, n \in X2Msgs :
             a # b /\ Posted(a, b, n) /\ x2' = [x EXCEPT ![<<a, b>>] = Append(@, n)]

(* Every step does no more than that.                                      *)
LEMMA LinksStep ==
    ASSUME Base, Effects
    PROVE  LinkStep
  <1>t. x2 \in [Links -> Seq(X2Msgs)] /\ ctx \in [Places -> Contexts]
    BY DEF Base, TypeInv, LinksTyped, CellsTyped
  <1>u. ASSUME UNCHANGED x2 PROVE LinkStep
    BY <1>u, <1>t DEF LinkStep
  <1>s. ASSUME NEW a \in Cells, NEW b \in Cells, a # b, NEW n \in X2Msgs, Posted(a, b, n),
               x2' = [x2 EXCEPT ![<<a, b>>] = Append(@, n)]
        PROVE  LinkStep
    BY <1>s, <1>t DEF LinkStep
  <1>k. ASSUME NEW s \in Cells, NEW d \in Cells, NEW msg, Arrived(s, d, msg)
        PROVE  /\ X2Taken(s, d) \in [Links -> Seq(X2Msgs)] /\ msg \in X2Names /\ s # d
               /\ \A n : X2Answered(s, d, n) = [X2Taken(s, d) EXCEPT ![<<d, s>>] = Append(@, n)]
    <2>1. s # d /\ x2[<<s, d>>] # <<>> /\ Head(x2[<<s, d>>]) \in X2Msgs /\ Head(x2[<<s, d>>]).msg = msg
      BY <1>k DEF Arrived
    <2>2. msg \in X2Names
      BY <2>1 DEF X2Msgs
    <2> QED
      BY <2>1, <2>2, <1>t, MailTaken
  <1>r. ASSUME NEW s \in Cells, NEW d \in Cells, NEW msg, Arrived(s, d, msg), Handled(s, d, Head(x2[<<s, d>>])),
               x2' = X2Taken(s, d)
        PROVE  LinkStep
    BY <1>r, <1>k DEF LinkStep
  <1>a. ASSUME NEW s \in Cells, NEW d \in Cells, NEW msg, Arrived(s, d, msg), Handled(s, d, Head(x2[<<s, d>>])),
               NEW n \in X2Msgs, Posted(d, s, n), x2' = X2Answered(s, d, n)
        PROVE  LinkStep
    <2>1. PICK x \in [Links -> Seq(X2Msgs)] : x = X2Taken(s, d)
      BY <1>a, <1>k
    <2>2. x2' = [x EXCEPT ![<<d, s>>] = Append(@, n)] /\ d # s /\ msg \in X2Names
      BY <1>a, <1>k, <2>1
    <2>3. \E s0, d0 \in Cells, msg0 \in X2Names :
             Arrived(s0, d0, msg0) /\ x = X2Taken(s0, d0) /\ Handled(s0, d0, Head(x2[<<s0, d0>>]))
      BY <1>a, <2>1, <2>2
    <2>4. \E a, b \in Cells, m \in X2Msgs :
             a # b /\ Posted(a, b, m) /\ x2' = [x EXCEPT ![<<a, b>>] = Append(@, m)]
      BY <1>a, <2>2
    <2> QED
      BY <2>3, <2>4 DEF LinkStep
  <1>f. ASSUME NEW p \in Places, ctx[p].state = "HANDOVER_JOINING", Refusal(p) PROVE LinkStep
    <2>0. PICK o : o = ctx[p].source
      OBVIOUS
    <2>00. PICK n : n = X2("PreparationFailure", o.rnti, 0, 0)
      OBVIOUS
    <2>1. o \in Places /\ o.rnti \in Rntis /\ o.cell \in Cells /\ o.cell # p.cell /\ p.cell \in Cells
      BY <1>f, <2>0, PlaceTypes DEF Base, Allocated, CtxAllocated, Known
    <2>2. n \in X2Msgs /\ n.msg = "PreparationFailure"
      BY <2>00, <2>1, X2Types, PlaceTypes DEF X2Names
    <2>3. x2' = [x2 EXCEPT ![<<p.cell, o.cell>>] = Append(@, n)]
      BY <1>f, <2>0, <2>00 DEF Refusal, SendX2
    <2>4. Posted(p.cell, o.cell, n)
      BY <2>2 DEF Posted
    <2> QED
      BY <2>1, <2>2, <2>3, <2>4, <1>s
  <1>1. CASE UeEffect
    BY <1>1, <1>u DEF UeEffect, Still, Selecting, Accessing, Arriving, Leaves
  <1>2. CASE RrcEffect
    <2>1. PICK m \in RrcMsgs :
             \/ Connecting(m) \/ Rejected(m) \/ Commanded(m) \/ Replying(m) \/ Dropping(m)
             \/ Admitting(m) \/ Completing(m) \/ Reconfigures(m) \/ Removed(m)
      BY <1>2 DEF RrcEffect
    <2>2. CASE Removed(m)
      <3>1. m.at \in Places
        BY DEF RrcMsgs
      <3> QED
        BY <3>1, <2>2, <1>f, <1>u DEF Removed
    <2> QED
      BY <2>1, <2>2, <1>u DEF Connecting, Rejected, Commanded, Replying, Dropping, Admitting, Completing,
         Reconfigures
  <1>3. CASE X2Effect
    <2>1. ASSUME NEW s \in Cells, NEW d \in Cells, NEW p \in Places, Admits(s, d, p) PROVE LinkStep
      <3>0. PICK n : n = X2("HandoverRequestAck", From(s, d), p.rnti, 0)
        OBVIOUS
      <3>1. Arrived(s, d, "HandoverRequest") /\ x2' = X2Answered(s, d, n)
        BY <2>1, <3>0 DEF Admits
      <3>2. KnownAt(s, From(s, d)) /\ Head(x2[<<s, d>>]).msg = "HandoverRequest"
        BY <3>1, ArrivedFacts DEF Base, MailAllocated
      <3>3. p.rnti \in Rntis
        BY PlaceTypes
      <3>4. n \in X2Msgs /\ n.msg = "HandoverRequestAck" /\ n.new = p.rnti /\ n.old = From(s, d)
        BY <3>0, <3>2, <3>3, X2Types DEF X2Names, KnownAt
      <3>5. Handled(s, d, Head(x2[<<s, d>>]))
        BY <2>1, <3>2 DEF Handled
      <3>6. Posted(d, s, n)
        BY <2>1, <3>4 DEF Posted
      <3> QED
        BY <3>1, <3>4, <3>5, <3>6, <1>a
    <2>2. ASSUME NEW s \in Cells, NEW d \in Cells, Refuses(s, d) PROVE LinkStep
      <3>0. PICK n : n = X2("PreparationFailure", From(s, d), 0, 0)
        OBVIOUS
      <3>1. Arrived(s, d, "HandoverRequest") /\ x2' = X2Answered(s, d, n)
        BY <2>2, <3>0 DEF Refuses
      <3>2. KnownAt(s, From(s, d)) /\ Head(x2[<<s, d>>]).msg = "HandoverRequest"
        BY <3>1, ArrivedFacts DEF Base, MailAllocated
      <3>4. n \in X2Msgs /\ n.msg = "PreparationFailure"
        BY <3>0, <3>2, X2Types DEF X2Names, KnownAt
      <3>5. Handled(s, d, Head(x2[<<s, d>>]))
        BY <2>2, <3>2 DEF Handled
      <3>6. Posted(d, s, n)
        BY <3>4 DEF Posted
      <3> QED
        BY <3>1, <3>4, <3>5, <3>6, <1>a
    <2>4. ASSUME NEW s \in Cells, NEW d \in Cells, NEW p \in Places, NEW q \in Places, Commands(s, d, p, q)
          PROVE  LinkStep
      <3>1. Arrived(s, d, "HandoverRequestAck") /\ x2' = X2Taken(s, d)
        BY <2>4 DEF Commands
      <3>2. Handled(s, d, Head(x2[<<s, d>>]))
        BY <3>1, <2>4 DEF Arrived, Handled
      <3> QED
        BY <3>1, <3>2, <1>r
    <2>5. ASSUME NEW s \in Cells, NEW d \in Cells, NEW p \in Spots, Fails(s, d, p) \/ Ends(s, d, p)
          PROVE  LinkStep
      <3>1. PICK msg : Arrived(s, d, msg) /\ x2' = X2Taken(s, d)
                       /\ \/ msg = "PreparationFailure" /\ Fails(s, d, p)
                          \/ msg = "UeContextRelease" /\ Ends(s, d, p)
        BY <2>5 DEF Fails, Ends
      <3>2. Handled(s, d, Head(x2[<<s, d>>]))
        BY <3>1 DEF Arrived, Handled
      <3> QED
        BY <3>1, <3>2, <1>r
    <2>6. ASSUME NEW s \in Cells, NEW d \in Cells, Cancels(s, d) PROVE LinkStep
      <3>1. Arrived(s, d, "HandoverCancel") /\ x2' = X2Taken(s, d)
        BY <2>6 DEF Cancels
      <3>2. Handled(s, d, Head(x2[<<s, d>>]))
        BY <3>1, <2>6 DEF Arrived, Handled
      <3> QED
        BY <3>1, <3>2, <1>r
    <2> QED
      BY <1>3, <2>1, <2>2, <2>4, <2>5, <2>6 DEF X2Effect
  <1>4. CASE PlaceEffect
    <2>1. ASSUME NEW p \in Places, NEW c \in Cells, Prepares(p, c) PROVE LinkStep
      <3>0. PICK n : n = X2("HandoverRequest", p.rnti, 0, ctx[p].teid)
        OBVIOUS
      <3>1. /\ x2' = [x2 EXCEPT ![<<p.cell, c>>] = Append(@, n)] /\ ctx[p].teid \in Teids \cup {0}
            /\ c # p.cell
        BY <2>1, <3>0, <1>t DEF Prepares, SendX2, Contexts
      <3>2. p.rnti \in Rntis /\ p.cell \in Cells
        BY PlaceTypes
      <3>3. n \in X2Msgs /\ n.msg = "HandoverRequest" /\ n.teid = ctx[p].teid /\ n.old = p.rnti
        BY <3>0, <3>1, <3>2 DEF X2, X2Msgs, X2Names
      <3>4. Posted(p.cell, c, n)
        BY <3>3, <2>1 DEF Posted
      <3> QED
        BY <3>1, <3>2, <3>3, <3>4, <1>s
    <2>2. ASSUME NEW p \in Places, TimesLeaving(p) PROVE LinkStep
      <3>0. PICK o : o = ctx[p].target
        OBVIOUS
      <3>00. PICK n : n = X2("HandoverCancel", p.rnti, o.rnti, 0)
        OBVIOUS
      <3>1. /\ x2' = [x2 EXCEPT ![<<p.cell, o.cell>>] = Append(@, n)] /\ o.rnti \in Rntis \cup {0}
        BY <2>2, <3>0, <3>00, <1>t DEF TimesLeaving, SendX2, Contexts, Spots
      <3>3. n \in X2Msgs /\ n.msg = "HandoverCancel" /\ n.old = p.rnti /\ n.new = o.rnti
        BY <3>1, <3>00, X2Types, PlaceTypes DEF X2Names
      <3>4. Posted(p.cell, o.cell, n)
        BY <3>3, <3>0, <2>2 DEF Posted
      <3>5. CASE <<p.cell, o.cell>> \in Links
        <4>1. p.cell \in Cells /\ o.cell \in Cells /\ p.cell # o.cell
          BY <3>5 DEF Links
        <4> QED
          BY <4>1, <3>1, <3>3, <3>4, <1>s
      <3>6. CASE <<p.cell, o.cell>> \notin Links
        <4>1. UNCHANGED x2
          BY <3>1, <3>6, <1>t
        <4> QED
          BY <4>1, <1>u
      <3> QED
        BY <3>5, <3>6
    <2>3. ASSUME NEW p \in Places, Switches(p) PROVE LinkStep
      <3>0. PICK o : o = ctx[p].source
        OBVIOUS
      <3>00. PICK n : n = X2("UeContextRelease", o.rnti, p.rnti, 0)
        OBVIOUS
      <3>1. /\ x2' = [x2 EXCEPT ![<<p.cell, o.cell>>] = Append(@, n)]
            /\ ctx[p].state = "HANDOVER_PATH_SWITCH"
        BY <2>3, <3>0, <3>00 DEF Switches, SendX2, Continues, Enters
      <3>2. o \in Places /\ o.rnti \in Rntis /\ o.cell \in Cells /\ o.cell # p.cell /\ p.cell \in Cells
        BY <3>0, <3>1, PlaceTypes DEF Base, Allocated, CtxAllocated, Known
      <3>3. n \in X2Msgs /\ n.msg = "UeContextRelease" /\ n.old = o.rnti
        BY <3>2, <3>00, X2Types, PlaceTypes DEF X2Names
      <3>4. Posted(p.cell, o.cell, n)
        BY <3>3, <3>0, <2>3 DEF Posted
      <3> QED
        BY <3>1, <3>2, <3>3, <3>4, <1>s
    <2> QED
      BY <1>4, <2>1, <2>2, <2>3, <1>u, <1>f DEF PlaceEffect, Times, TimesJoining, SetsUp
  <1>5. CASE Forwards
    <2>1. PICK x \in [Links -> Seq(X2Msgs)] :
             /\ \/ x = x2
                \/ \E s, d \in Cells : Arrived(s, d, "UeData") /\ x = X2Taken(s, d)
             /\ \/ x2' = x
                \/ \E l \in Links, t \in Teids \cup {0} : x2' = [x EXCEPT ![l] = Append(@, X2("UeData", 0, 0, t))]
      BY <1>5 DEF Forwards
    <2>2. \/ x = x2
          \/ \E s, d \in Cells, msg \in X2Names :
                Arrived(s, d, msg) /\ x = X2Taken(s, d) /\ Handled(s, d, Head(x2[<<s, d>>]))
      <3>1. ASSUME NEW s \in Cells, NEW d \in Cells, Arrived(s, d, "UeData") PROVE Handled(s, d, Head(x2[<<s, d>>]))
        BY <3>1 DEF Arrived, Handled
      <3> QED
        BY <2>1, <3>1, <1>k
    <2>3. \/ x2' = x
          \/ \E a, b \in Cells, n \in X2Msgs :
                a # b /\ Posted(a, b, n) /\ x2' = [x EXCEPT ![<<a, b>>] = Append(@, n)]
      <3>1. ASSUME NEW l \in Links, NEW t \in Teids \cup {0}, x2' = [x EXCEPT ![l] = Append(@, X2("UeData", 0, 0, t))]
            PROVE  \E a, b \in Cells, n \in X2Msgs :
                      a # b /\ Posted(a, b, n) /\ x2' = [x EXCEPT ![<<a, b>>] = Append(@, n)]
        <4>0. PICK n : n = X2("UeData", 0, 0, t)
          OBVIOUS
        <4>1. n \in X2Msgs /\ n.msg = "UeData"
          BY <4>0 DEF X2, X2Msgs, X2Names
        <4>2. PICK a, b \in Cells : l = <<a, b>> /\ a # b
          BY DEF Links
        <4>3. Posted(a, b, n)
          BY <4>1 DEF Posted
        <4> QED
          BY <4>0, <4>1, <4>2, <4>3, <3>1
      <3> QED
        BY <2>1, <3>1
    <2> QED
      BY <2>2, <2>3 DEF LinkStep
  <1> QED
    BY <1>1, <1>2, <1>3, <1>4, <1>5 DEF Effects

\* What becomes of one link: with e = 1 its first message is gone; what else
\* was there is still there, in order, and at the end there may be a new one.
Moves(s, d, e) ==
    LET a == x2[<<s, d>>]
        b == x2'[<<s, d>>]
    IN /\ e = 1 => Calm /\ Len(a) > 0 /\ Handled(s, d, a[1])
       /\ \A i \in 1 .. Len(b) : \/ i + e \in 1 .. Len(a) /\ b[i] = a[i + e]
                                 \/ i + e = Len(a) + 1 /\ Posted(s, d, b[i])
       /\ \A i \in 1 .. Len(a) : i > e => i - e \in 1 .. Len(b) /\ b[i - e] = a[i]

(* Of each link.                                                           *)
LEMMA LinksMove ==
    ASSUME Base, LinkStep, NEW s \in Cells, NEW d \in Cells, s # d
    PROVE  \E e \in {0, 1} : Moves(s, d, e)
  <1>t. x2 \in [Links -> Seq(X2Msgs)]
    BY DEF Base, TypeInv, LinksTyped
  <1>k. PICK k : k = <<s, d>>
    OBVIOUS
  <1>l. k \in Links
    BY <1>k DEF Links
  <1>a. PICK a \in Seq(X2Msgs) : a = x2[k]
    BY <1>l, <1>t
  <1>b. PICK b : b = x2'[k]
    OBVIOUS
  <1>1. PICK x \in [Links -> Seq(X2Msgs)] :
           /\ \/ x = x2
              \/ \E s0, d0 \in Cells, msg \in X2Names :
                    Arrived(s0, d0, msg) /\ x = X2Taken(s0, d0) /\ Handled(s0, d0, Head(x2[<<s0, d0>>]))
           /\ \/ x2' = x
              \/ \E a0, b0 \in Cells, n \in X2Msgs :
                    a0 # b0 /\ Posted(a0, b0, n) /\ x2' = [x EXCEPT ![<<a0, b0>>] = Append(@, n)]
    BY DEF LinkStep
  <1>y. PICK y \in Seq(X2Msgs) : y = x[k]
    BY <1>l
  <1>2. \/ y = a
        \/ a # <<>> /\ y = Tail(a) /\ Calm /\ Handled(s, d, Head(a))
    <2>1. CASE x = x2
      BY <2>1, <1>a, <1>y
    <2>2. ASSUME NEW s0 \in Cells, NEW d0 \in Cells, NEW msg \in X2Names,
                 Arrived(s0, d0, msg), x = X2Taken(s0, d0), Handled(s0, d0, Head(x2[<<s0, d0>>]))
          PROVE  y = a \/ (a # <<>> /\ y = Tail(a) /\ Calm /\ Handled(s, d, Head(a)))
      <3>1. s0 # d0 /\ x2[<<s0, d0>>] # <<>> /\ Calm
        BY <2>2 DEF Arrived
      <3>2. /\ x[<<s0, d0>>] = Tail(x2[<<s0, d0>>])
            /\ k # <<s0, d0>> => x[k] = x2[k]
        <4>1. /\ X2Taken(s0, d0)[<<s0, d0>>] = Tail(x2[<<s0, d0>>])
              /\ \A h \in Links : h # <<s0, d0>> => X2Taken(s0, d0)[h] = x2[h]
          BY <3>1, <1>t, MailTaken
        <4> QED
          BY <4>1, <2>2, <1>l
      <3>3. CASE k = <<s0, d0>>
        <4>1. s0 = s /\ d0 = d
          BY <3>3, <1>k
        <4> QED
          BY <4>1, <3>1, <3>2, <3>3, <2>2, <1>a, <1>y, <1>k
      <3> QED
        BY <3>2, <3>3, <1>a, <1>y
    <2> QED
      BY <2>1, <2>2, <1>1
  <1>3. \/ b = y
        \/ \E n \in X2Msgs : b = Append(y, n) /\ Posted(s, d, n)
    <2>1. ASSUME NEW a0 \in Cells, NEW b0 \in Cells, NEW n \in X2Msgs, Posted(a0, b0, n),
                 x2' = [x EXCEPT ![<<a0, b0>>] = Append(@, n)]
          PROVE  b = y \/ (b = Append(y, n) /\ Posted(s, d, n))
      <3>1. /\ k = <<a0, b0>> => x2'[k] = Append(x[k], n)
            /\ k # <<a0, b0>> => x2'[k] = x[k]
        BY <2>1, <1>l, MailSent
      <3>2. k = <<a0, b0>> => a0 = s /\ b0 = d
        BY <1>k
      <3> QED
        BY <3>1, <3>2, <2>1, <1>b, <1>y
    <2> QED
      BY <2>1, <1>1, <1>b, <1>y
  <1>4. PICK e \in {0, 1} :
           /\ e = 1 => Calm /\ Len(a) > 0 /\ Handled(s, d, a[1])
           /\ Len(y) = Len(a) - e /\ Len(a) \in Nat /\ Len(y) \in Nat
           /\ \A i \in 1 .. Len(y) : y[i] = a[i + e]
    <2>1. CASE y = a
      <3>1. /\ Len(y) = Len(a) - 0 /\ Len(a) \in Nat /\ Len(y) \in Nat
            /\ \A i \in 1 .. Len(y) : y[i] = a[i + 0]
        BY <2>1
      <3> QED
        BY <3>1
    <2>2. CASE a # <<>> /\ y = Tail(a) /\ Calm /\ Handled(s, d, Head(a))
      <3>1. /\ Len(a) > 0 /\ Head(a) = a[1] /\ Len(Tail(a)) = Len(a) - 1 /\ Len(a) \in Nat /\ Len(Tail(a)) \in Nat
            /\ \A i \in 1 .. Len(Tail(a)) : Tail(a)[i] = a[i + 1]
        BY <2>2
      <3> QED
        BY <3>1, <2>2
    <2> QED
      BY <2>1, <2>2, <1>2
  <1>5. /\ \A i \in 1 .. Len(b) : \/ i \in 1 .. Len(y) /\ b[i] = y[i]
                                  \/ i = Len(y) + 1 /\ Posted(s, d, b[i])
        /\ Len(y) <= Len(b) /\ Len(b) \in Nat
        /\ \A i \in 1 .. Len(y) : b[i] = y[i]
    <2>1. ASSUME NEW n \in X2Msgs, b = Append(y, n), Posted(s, d, n)
          PROVE  /\ \A i \in 1 .. Len(b) : \/ i \in 1 .. Len(y) /\ b[i] = y[i]
                                           \/ i = Len(y) + 1 /\ Posted(s, d, b[i])
                 /\ Len(y) <= Len(b) /\ Len(b) \in Nat
                 /\ \A i \in 1 .. Len(y) : b[i] = y[i]
      <3>1. /\ Len(b) = Len(y) + 1 /\ b[Len(y) + 1] = n /\ Len(y) \in Nat
            /\ \A i \in 1 .. Len(y) : b[i] = y[i]
        BY <2>1
      <3> QED
        BY <3>1, <2>1
    <2>2. CASE b = y
      BY <2>2, <1>4
    <2> QED
      BY <2>1, <2>2, <1>3
  <1>6. \A i \in 1 .. Len(b) : \/ i + e \in 1 .. Len(a) /\ b[i] = a[i + e]
                               \/ i + e = Len(a) + 1 /\ Posted(s, d, b[i])
    <2>1. ASSUME NEW i \in 1 .. Len(b), i \in 1 .. Len(y), b[i] = y[i] PROVE i + e \in 1 .. Len(a) /\ b[i] = a[i + e]
      BY <2>1, <1>4
    <2>2. ASSUME NEW i \in 1 .. Len(b), i = Len(y) + 1 PROVE i + e = Len(a) + 1
      BY <2>2, <1>4
    <2> QED
      BY <2>1, <2>2, <1>5
  <1>7. \A i \in 1 .. Len(a) : i > e => i - e \in 1 .. Len(b) /\ b[i - e] = a[i]
    <2>1. ASSUME NEW i \in 1 .. Len(a), i > e PROVE i - e \in 1 .. Len(y) /\ (i - e) + e = i
      BY <2>1, <1>4
    <2>2. ASSUME NEW j \in 1 .. Len(y) PROVE j \in 1 .. Len(b) /\ b[j] = a[j + e]
      BY <2>2, <1>4, <1>5
    <2> QED
      BY <2>1, <2>2
  <1>8. a = x2[<<s, d>>] /\ b = x2'[<<s, d>>]
    BY <1>a, <1>b, <1>k
  <1> QED
    BY <1>4, <1>6, <1>7, <1>8 DEF Moves

(***************************************************************************)
(* The contexts of a session.                                              *)
(***************************************************************************)

\* The eNBs are two: each has an X2 link to the other and to no third.
TwoCells == \A a, b, c \in Cells : a # b /\ b # c => a = c

\* The context at p has the bearer of this session.
Holds(p, t) == ctx[p].state # "NONE" /\ ctx[p].teid = t

\* A handover of q is admitted, and q has not heard of it.
AdmittedFor(q) == \E s \in Cells \ {q.cell} : Accepted(x2[<<s, q.cell>>], q.rnti)
\* The UE of p is handed over to q, or was: then p is still to hear of it.
Hands(p, q) ==
    \/ Preparing(p, q.cell) /\ OfferedBy(p, q)
    \/ /\ ctx[p].state = "HANDOVER_LEAVING" /\ ctx[q].source = p
       /\ ctx[q].state \in {"HANDOVER_JOINING", "HANDOVER_PATH_SWITCH"}
    \/ ctx[p].state = "HANDOVER_LEAVING" /\ Released(p) /\ ctx[q].state \in InPlace /\ ~AdmittedFor(q)
Paired == \A p, q \in Places, t \in Teids : p # q /\ Holds(p, t) /\ Holds(q, t) =>
    p.cell # q.cell /\ (Hands(p, q) \/ Hands(q, p))

\* A request for session t is message i of a link; who asks; a message that
\* tells that its UE arrived.
Asks(s, d, i, t) ==
    /\ i \in 1 .. Len(x2[<<s, d>>])
    /\ x2[<<s, d>>][i].msg = "HandoverRequest" /\ x2[<<s, d>>][i].teid = t
Asker(s, d, i) == [cell |-> s, rnti |-> x2[<<s, d>>][i].old]
Frees(m, r) == m.msg = "UeContextRelease" /\ m.old = r

\* The context that asks holds the session; any other context that does is in
\* the cell that is asked, which hears before that the UE has left it.
AskerHolds == \A s, d \in Cells : s # d => \A i, t :
    Asks(s, d, i, t) /\ ctx[Asker(s, d, i)].state # "NONE" => ctx[Asker(s, d, i)].teid = t
AskedAlone == \A s, d \in Cells : s # d => \A t \in Teids : \A i : Asks(s, d, i, t) =>
    \A q \in Places : Holds(q, t) =>
        q = Asker(s, d, i) \/ (q.cell = d /\ \E j \in 1 .. (i - 1) : Frees(x2[<<s, d>>][j], q.rnti))
AskedOnce == \A s, d, a, b \in Cells : s # d /\ a # b => \A t \in Teids : \A i, j :
    Asks(s, d, i, t) /\ Asks(a, b, j, t) => s = a /\ d = b /\ i = j

\* A session is used by a context or a request; it has been created and its
\* eNB is not told yet.
Used(t) ==
    \/ \E p \in Places : Holds(p, t)
    \/ \E s, d \in Cells : s # d /\ \E i \in Nat : Asks(s, d, i, t)
Given(q, msg, t) == \E i \in 1 .. Len(q) : q[i].msg = msg /\ q[i].teid = t
Once(q, msg) == \A i, j \in 1 .. Len(q) :
    q[i].msg = msg /\ q[j].msg = msg /\ q[i].teid = q[j].teid => i = j
Ordered(t) == Given(s5, "CreateSessionRequest", t)
Granted(t) == Given(reply, "CreateSessionResponse", t)

\* Each session is created once, and is used once its eNB has been told.
Assigned ==
    /\ Once(s5, "CreateSessionRequest") /\ Once(reply, "CreateSessionResponse")
    /\ \A t \in Teids :
         /\ Used(t) => t <= Count
         /\ Ordered(t) \/ Granted(t) => t <= Count /\ ~Used(t)
         /\ ~(Ordered(t) /\ Granted(t))

SessionInv == Paired /\ AskerHolds /\ AskedAlone /\ AskedOnce /\ Assigned

(* A step changes one context.                                             *)
LEMMA OneContext ==
    ASSUME Effects
    PROVE  \E p : \A q \in Places \ {p} : ctx'[q] = ctx[q]
  <1>t. \A p, st, so, ta, ti : Turned(ctx, ctx', p, st, so, ta, ti) => \A q \in Places \ {p} : ctx'[q] = ctx[q]
    BY DEF Turned
  <1>u. UNCHANGED ctx => \E p : \A q \in Places \ {p} : ctx'[q] = ctx[q]
    OBVIOUS
  <1>g. \A p : Gone(p) => \E w : \A q \in Places \ {w} : ctx'[q] = ctx[q]
    BY <1>t DEF Gone
  <1>e. \A p, states, state, timers : Enters(p, states, state, timers) =>
           \E w : \A q \in Places \ {w} : ctx'[q] = ctx[q]
    BY <1>t DEF Enters
  <1>c. \A p, states : Continues(p, states) => \E w : \A q \in Places \ {w} : ctx'[q] = ctx[q]
    BY <1>e DEF Continues
  <1>1. CASE UeEffect
    BY <1>1, <1>t, <1>u DEF UeEffect, Still, Selecting, Accessing, Arriving, Leaves
  <1>2. CASE RrcEffect
    <2>1. PICK m \in RrcMsgs :
             \/ Connecting(m) \/ Rejected(m) \/ Commanded(m) \/ Replying(m) \/ Dropping(m)
             \/ Admitting(m) \/ Completing(m) \/ Reconfigures(m) \/ Removed(m)
      BY <1>2 DEF RrcEffect
    <2>2. CASE Connecting(m) \/ Rejected(m) \/ Commanded(m) \/ Replying(m) \/ Dropping(m)
      BY <2>2, <1>u DEF Connecting, Rejected, Commanded, Replying, Dropping
    <2>3. CASE Admitting(m) \/ Completing(m)
      BY <2>3, <1>e DEF Admitting, Completing
    <2>4. CASE Reconfigures(m) \/ Removed(m)
      BY <2>4, <1>c, <1>g DEF Reconfigures, Removed
    <2> QED
      BY <2>1, <2>2, <2>3, <2>4
  <1>3. CASE X2Effect
    BY <1>3, <1>t, <1>u, <1>g, <1>c, <1>e DEF X2Effect, Admits, Refuses, Commands, Fails, Ends, Cancels
  <1>4. CASE PlaceEffect
    BY <1>4, <1>t, <1>g, <1>c DEF PlaceEffect, Prepares, Times, TimesJoining, TimesLeaving, SetsUp, Switches
  <1>5. CASE Forwards
    BY <1>5, <1>u, <1>e DEF Forwards
  <1> QED
    BY <1>1, <1>2, <1>3, <1>4, <1>5 DEF Effects

(* A context gets a session from the MME, or as the target of a handover.  *)
LEMMA HoldsMoves ==
    ASSUME CoreStepped, NEW p \in Places, NEW t \in Teids, Holds(p, t)'
    PROVE  Holds(p, t) \/ (Answers(p) /\ Head(reply).teid = t) \/ (Joined(p) /\ ctx'[p].teid = t)
  <1>1. Involves(p) /\ t # 0 /\ ctx'[p].state # "NONE" /\ ctx'[p].teid = t
    BY PlaceTypes DEF CoreStepped, Holds
  <1> QED
    BY <1>1 DEF Involves, Answers, Holds

(* It keeps it.                                                            *)
LEMMA HoldsStays ==
    ASSUME CoreStepped, NEW p \in Places, ctx[p].state \notin {"NONE", "ATTACH_REQUEST", "INITIAL_RANDOM_ACCESS"},
           Base, Effects, ctx'[p].state # "NONE"
    PROVE  ctx'[p].teid = ctx[p].teid
  <1>1. Involves(p) /\ Follows(p)
    BY AllFollow DEF CoreStepped
  <1>2. Known(p)
    BY DEF Base, Allocated, CtxAllocated
  <1>3. ctx[p].state \in ContextStates
    BY DEF Base, TypeInv, CellsTyped, Contexts
  <1>4. ctx'[p].state # "INITIAL_RANDOM_ACCESS"
    BY <1>1, <1>3 DEF Follows, InPlace, Up, Left, Settling, ContextStates
  <1> QED
    BY <1>1, <1>2, <1>4 DEF Involves, Answers, Joined

(***************************************************************************)
(* Requests and releases on a link.                                        *)
(***************************************************************************)

(* A message at an index is under way.                                     *)
LEMMA AtIndex ==
    ASSUME TypeInv, NEW s \in Cells, NEW d \in Cells, s # d, NEW i \in 1 .. Len(x2[<<s, d>>])
    PROVE  /\ x2[<<s, d>>] \in Seq(X2Msgs) /\ Len(x2[<<s, d>>]) \in Nat
           /\ x2[<<s, d>>][i] \in Mail(x2[<<s, d>>]) /\ x2[<<s, d>>][i] \in X2Msgs
  <1>1. x2[<<s, d>>] \in Seq(X2Msgs)
    BY DEF TypeInv, LinksTyped, Links
  <1> QED
    BY <1>1 DEF Mail

(* A context that asks is known, and prepares the handover.                *)
LEMMA AskerFacts ==
    ASSUME Base, NEW s \in Cells, NEW d \in Cells, s # d, NEW i, NEW t, Asks(s, d, i, t)
    PROVE  LET o == Asker(s, d, i) IN
           /\ o \in Places /\ Known(o) /\ o.cell = s /\ o.rnti = x2[<<s, d>>][i].old
           /\ ctx[o].state # "NONE" => Preparing(o, d)
  <1>m. PICK m : m = x2[<<s, d>>][i]
    OBVIOUS
  <1>o. PICK o : o = Asker(s, d, i)
    OBVIOUS
  <1>1. m \in Mail(x2[<<s, d>>]) /\ m \in X2Msgs /\ m.msg = "HandoverRequest"
    BY <1>m, AtIndex DEF Base, Asks
  <1>2. KnownAt(s, m.old)
    BY <1>1 DEF Base, Allocated, X2Allocated, MailAllocated
  <1>3. o = [cell |-> s, rnti |-> m.old]
    BY <1>m, <1>o DEF Asker
  <1>4. o \in Places /\ Known(o) /\ o.cell = s /\ o.rnti = m.old
    BY <1>2, <1>3 DEF Known, KnownAt, Places
  <1>5. Asked(x2[<<o.cell, d>>], o.rnti)
    BY <1>1, <1>4 DEF Asked, IsAsk
  <1>6. ctx[o].state # "NONE" => Preparing(o, d)
    BY <1>4, <1>5 DEF Base, Protocol, Agreed
  <1> QED
    BY <1>m, <1>o, <1>4, <1>6

(* A context that is told that the UE arrived has let it go.               *)
LEMMA FreedFacts ==
    ASSUME Base, Support, NEW s \in Cells, NEW d \in Cells, s # d, NEW j \in 1 .. Len(x2[<<s, d>>]),
           NEW q \in Places, q.cell = d, Frees(x2[<<s, d>>][j], q.rnti)
    PROVE  Released(q) /\ ctx[q].state \in Left
  <1>1. x2[<<s, d>>][j] \in Mail(x2[<<s, d>>])
    BY AtIndex DEF Base
  <1>2. Told(x2[<<s, q.cell>>], "UeContextRelease", q.rnti)
    BY <1>1 DEF Told, Frees
  <1> QED
    BY <1>2 DEF Released, Support, Releases

(* It is told by a message at some index.                                  *)
LEMMA ReleasedIndex ==
    ASSUME TypeInv, NEW q \in Places, NEW s \in Cells, s # q.cell,
           Told(x2[<<s, q.cell>>], "UeContextRelease", q.rnti)
    PROVE  \E j \in 1 .. Len(x2[<<s, q.cell>>]) : Frees(x2[<<s, q.cell>>][j], q.rnti)
  BY DEF Told, Mail, Frees

(* A request is asked by a context that prepares the handover, or was under *)
(* way.                                                                    *)
LEMMA RequestMoves ==
    ASSUME Base, NEW s \in Cells, NEW d \in Cells, s # d, NEW e \in {0, 1}, Moves(s, d, e),
           NEW i, NEW t, Asks(s, d, i, t)'
    PROVE  \/ Asks(s, d, i + e, t) /\ Asker(s, d, i)' = Asker(s, d, i + e)
           \/ i + e = Len(x2[<<s, d>>]) + 1 /\ \E p \in Places : Prepares(p, d) /\ p = Asker(s, d, i)' /\ t = ctx[p].teid
  <1>b. PICK b : b = x2'[<<s, d>>]
    OBVIOUS
  <1>m. PICK n : n = b[i]
    OBVIOUS
  <1>1. i \in 1 .. Len(b) /\ n.msg = "HandoverRequest" /\ n.teid = t
    BY <1>b, <1>m DEF Asks
  <1>2. \/ i + e \in 1 .. Len(x2[<<s, d>>]) /\ n = x2[<<s, d>>][i + e]
        \/ i + e = Len(x2[<<s, d>>]) + 1 /\ Posted(s, d, n)
    BY <1>1, <1>b, <1>m DEF Moves
  <1>3. Asker(s, d, i)' = [cell |-> s, rnti |-> n.old]
    BY <1>b, <1>m DEF Asker
  <1>4. ASSUME i + e \in 1 .. Len(x2[<<s, d>>]) /\ n = x2[<<s, d>>][i + e]
        PROVE  Asks(s, d, i + e, t) /\ Asker(s, d, i)' = Asker(s, d, i + e)
    BY <1>1, <1>3, <1>4 DEF Asks, Asker
  <1>5. ASSUME Posted(s, d, n)
        PROVE  \E p \in Places : Prepares(p, d) /\ p = Asker(s, d, i)' /\ t = ctx[p].teid
    <2>1. PICK p \in Places : Prepares(p, d) /\ p.cell = s /\ p.rnti = n.old /\ n.teid = ctx[p].teid
      BY <1>1, <1>5 DEF Posted
    <2>2. p = [cell |-> s, rnti |-> n.old]
      BY <2>1 DEF Places
    <2> QED
      BY <1>1, <1>3, <2>1, <2>2
  <1> QED
    BY <1>2, <1>4, <1>5

(* A context that does not go has not heard what is under way to it.       *)
LEMMA FreesMoves ==
    ASSUME Base, NEW s \in Cells, NEW d \in Cells, s # d, NEW e \in {0, 1}, Moves(s, d, e),
           NEW q \in Places, q.cell = d, ctx[q].state # "NONE", ctx'[q].state # "NONE",
           NEW j \in 1 .. Len(x2[<<s, d>>]), Frees(x2[<<s, d>>][j], q.rnti)
    PROVE  j - e \in 1 .. Len(x2'[<<s, d>>]) /\ Frees(x2'[<<s, d>>][j - e], q.rnti)
  <1>a. PICK a : a = x2[<<s, d>>]
    OBVIOUS
  <1>t. a \in Seq(X2Msgs)
    BY <1>a, AtIndex DEF Base
  <1>1. ~(e = 1 /\ j = 1)
    <2> SUFFICES ASSUME e = 1, j = 1 PROVE FALSE
      OBVIOUS
    <2>1. Handled(s, d, a[1]) /\ a[1].msg = "UeContextRelease" /\ a[1].old = q.rnti /\ a # <<>>
      BY <1>a, <1>t DEF Moves, Frees
    <2>2. PICK p \in Spots : Ends(s, d, p)
      BY <2>1 DEF Handled
    <2>3. From(s, d) = q.rnti
      BY <2>1, <1>a, <1>t DEF From
    <2>4. p = q
      BY <2>2, <2>3 DEF Ends, Spots, Places
    <2> QED
      BY <2>2, <2>4 DEF Ends, Gone, Turned
  <1>2. j \in 1 .. Len(a) /\ Len(a) \in Nat
    BY <1>a, <1>t
  <1>3. j > e
    BY <1>1, <1>2
  <1>4. j - e \in 1 .. Len(x2'[<<s, d>>]) /\ x2'[<<s, d>>][j - e] = x2[<<s, d>>][j]
    BY <1>2, <1>3, <1>a DEF Moves
  <1> QED
    BY <1>4

(* A request that is admitted is taken from the link.                      *)
LEMMA AdmitsTakes ==
    ASSUME Base, NEW s \in Cells, NEW d \in Cells, NEW q \in Places, Admits(s, d, q)
    PROVE  /\ s # d /\ Asks(s, d, 1, Head(x2[<<s, d>>]).teid) /\ Asker(s, d, 1) = [cell |-> s, rnti |-> From(s, d)]
           /\ Asker(s, d, 1) = ctx'[q].source /\ q.cell = d /\ ~Known(q) /\ ctx[q].state = "NONE"
           /\ \A e \in {0, 1} : Moves(s, d, e) => e = 1
  <1>a. PICK a : a = x2[<<s, d>>]
    OBVIOUS
  <1>0. s # d /\ a # <<>> /\ Head(a).msg = "HandoverRequest"
    BY <1>a DEF Admits, Arrived
  <1>1. a \in Seq(X2Msgs) /\ x2 \in [Links -> Seq(X2Msgs)]
    BY <1>0, <1>a DEF Base, TypeInv, LinksTyped, Links
  <1>2. Len(a) \in Nat /\ Len(a) > 0 /\ Head(a) = a[1] /\ Len(Tail(a)) = Len(a) - 1
    BY <1>0, <1>1
  <1>3. Asks(s, d, 1, Head(a).teid) /\ Asker(s, d, 1) = [cell |-> s, rnti |-> From(s, d)]
    BY <1>0, <1>2, <1>a DEF Asks, Asker, From
  <1>4. ctx'[q].source = [cell |-> s, rnti |-> From(s, d)] /\ q.cell = d /\ Fresh(q)
    BY DEF Admits, Turned
  <1>5. ~Known(q) /\ ctx[q].state = "NONE"
    BY <1>4, FreshFacts DEF Base, Allocated, CtxAllocated
  <1>6. x2'[<<s, d>>] = Tail(a)
    <2>1. /\ X2Taken(s, d)[<<s, d>>] = Tail(x2[<<s, d>>]) /\ X2Taken(s, d) \in [Links -> Seq(X2Msgs)]
          /\ <<s, d>> \in Links /\ <<s, d>> # <<d, s>>
          /\ \A n : X2Answered(s, d, n) = [X2Taken(s, d) EXCEPT ![<<d, s>>] = Append(@, n)]
      BY <1>0, <1>1, <1>a, MailTaken
    <2>2. PICK n : x2' = X2Answered(s, d, n)
      BY DEF Admits
    <2> QED
      BY <2>1, <2>2, <1>a
  <1>7. ASSUME Moves(s, d, 0) PROVE FALSE
    <2>1. \A i \in 1 .. Len(a) : i > 0 => i - 0 \in 1 .. Len(x2'[<<s, d>>])
      BY <1>7, <1>a DEF Moves
    <2>2. Len(a) \in 1 .. Len(Tail(a))
      BY <2>1, <1>2, <1>6
    <2> QED
      BY <2>2, <1>2
  <1> QED
    BY <1>0, <1>3, <1>4, <1>5, <1>7, <1>a

(* A session that the MME is told of is granted.                           *)
LEMMA AnswersGranted ==
    ASSUME TypeInv, NEW p, Answers(p)
    PROVE  Granted(Head(reply).teid) /\ ctx[p].state # ctx'[p].state
  <1>1. reply \in Seq(Responses) /\ reply # <<>> /\ Head(reply).msg = "CreateSessionResponse"
    BY DEF TypeInv, CoreTyped, Answers, Takes
  <1>2. 1 \in 1 .. Len(reply) /\ reply[1] = Head(reply)
    BY <1>1
  <1> QED
    BY <1>1, <1>2 DEF Granted, Given, Answers

(* A session is not granted once it is used.                               *)
LEMMA UsedFacts ==
    ASSUME TypeInv, Assigned, NEW t \in Teids
    PROVE  /\ \A p \in Places : Holds(p, t) => ~Granted(t) /\ ~Ordered(t) /\ t <= Count
           /\ \A s, d \in Cells : s # d => \A i : Asks(s, d, i, t) => ~Granted(t) /\ ~Ordered(t) /\ t <= Count
  <1>1. \A p \in Places : Holds(p, t) => Used(t)
    BY DEF Used
  <1>2. ASSUME NEW s \in Cells, NEW d \in Cells, s # d, NEW i, Asks(s, d, i, t) PROVE Used(t)
    <2>1. i \in Nat
      BY <1>2, AtIndex DEF Asks
    <2> QED
      BY <1>2, <2>1 DEF Used
  <1> QED
    BY <1>1, <1>2 DEF Assigned

(* A context that prepares a handover has its session, and no other        *)
(* context changes.                                                        *)
LEMMA PreparesFacts ==
    ASSUME Base, Effects, CoreStepped, NEW p \in Places, NEW c \in Cells, Prepares(p, c)
    PROVE  /\ ctx[p].state = "CONNECTED_NORMALLY" /\ ctx'[p].state = "HANDOVER_PREPARATION"
           /\ ctx'[p].teid = ctx[p].teid /\ p.cell # c
           /\ \A q \in Places : ~Answers(q) /\ ~Joined(q)
  <1>1. /\ ctx[p].state = "CONNECTED_NORMALLY" /\ ctx'[p].state = "HANDOVER_PREPARATION" /\ p.cell # c
        /\ \A q \in Places \ {p} : ctx'[q] = ctx[q]
    BY DEF Prepares, Turned
  <1>2. ctx'[p].teid = ctx[p].teid
    BY <1>1, HoldsStays
  <1>3. ASSUME NEW q \in Places, Answers(q) PROVE FALSE
    BY <1>1, <1>3 DEF Answers
  <1>4. ASSUME NEW q \in Places, Joined(q) PROVE FALSE
    <2>1. ~Known(q) /\ ctx'[q].state = "HANDOVER_JOINING"
      BY <1>4 DEF Joined
    <2>2. ctx[q].state = "NONE"
      BY <2>1 DEF Base, Allocated, CtxAllocated
    <2> QED
      BY <1>1, <2>1, <2>2
  <1> QED
    BY <1>1, <1>2, <1>3, <1>4

(***************************************************************************)
(* Requests.                                                               *)
(***************************************************************************)

(* The context that asks for a handover keeps its session.                 *)
LEMMA StaysAskerHolds ==
    ASSUME Base, Effects, CoreStepped, LinkStep, AskerHolds
    PROVE  AskerHolds'
  <1> SUFFICES ASSUME NEW s \in Cells, NEW d \in Cells, s # d, NEW i, NEW t, Asks(s, d, i, t)',
                      NEW o, o = Asker(s, d, i)', ctx'[o].state # "NONE"
               PROVE  ctx'[o].teid = t
    BY DEF AskerHolds
  <1>1. PICK e \in {0, 1} : Moves(s, d, e)
    BY LinksMove
  <1>k. PICK k : k = i + e
    OBVIOUS
  <1>2. CASE Asks(s, d, k, t) /\ o = Asker(s, d, k)
    <2>1. o \in Places /\ Known(o) /\ (ctx[o].state # "NONE" => Preparing(o, d))
      <3>1. /\ Asker(s, d, k) \in Places /\ Known(Asker(s, d, k))
            /\ ctx[Asker(s, d, k)].state # "NONE" => Preparing(Asker(s, d, k), d)
        BY <1>2, AskerFacts
      <3> QED
        BY <3>1, <1>2
    <2>2. ctx[o].state # "NONE"
      BY <2>1, AllFollow DEF Follows
    <2>3. ctx[o].teid = t
      BY <1>2, <2>2 DEF AskerHolds
    <2> QED
      BY <2>1, <2>2, <2>3, HoldsStays DEF Preparing
  <1>3. CASE \E p \in Places : Prepares(p, d) /\ p = o /\ t = ctx[p].teid
    BY <1>3, PreparesFacts
  <1>4. \/ Asks(s, d, i + e, t) /\ Asker(s, d, i)' = Asker(s, d, i + e)
        \/ i + e = Len(x2[<<s, d>>]) + 1 /\ \E p \in Places : Prepares(p, d) /\ p = Asker(s, d, i)' /\ t = ctx[p].teid
    BY <1>1, RequestMoves
  <1> QED
    BY <1>2, <1>3, <1>4, <1>k

(* When a context asks for a handover, another context of its session is in *)
(* the cell that it asks, and is still to hear that its UE arrived.        *)
LEMMA PreparesAlone ==
    ASSUME Base, TwoCells, Paired, NEW p \in Places, NEW d \in Cells, Prepares(p, d),
           NEW q \in Places, p # q, NEW t \in Teids, Holds(p, t), Holds(q, t)
    PROVE  q.cell = d /\ \E j \in 1 .. Len(x2[<<p.cell, d>>]) : Frees(x2[<<p.cell, d>>][j], q.rnti)
  <1>1. ctx[p].state = "CONNECTED_NORMALLY" /\ p.cell # d
    BY DEF Prepares
  <1>2. p.cell # q.cell /\ (Hands(p, q) \/ Hands(q, p))
    BY DEF Paired
  <1>3. ~Hands(p, q)
    BY <1>1 DEF Hands, Preparing
  <1>4. Released(q)
    BY <1>1, <1>2, <1>3 DEF Hands, Preparing, OfferedBy
  <1>5. PICK s \in Cells \ {q.cell} : Told(x2[<<s, q.cell>>], "UeContextRelease", q.rnti)
    BY <1>4 DEF Released
  <1>6. p.cell \in Cells /\ q.cell \in Cells
    BY PlaceTypes
  <1>7. q.cell = d /\ s = p.cell
    BY <1>1, <1>2, <1>5, <1>6 DEF TwoCells
  <1>8. \E j \in 1 .. Len(x2[<<s, q.cell>>]) : Frees(x2[<<s, q.cell>>][j], q.rnti)
    BY <1>5, ReleasedIndex DEF Base
  <1> QED
    BY <1>7, <1>8

(* A context of a session that a request is for is in the cell that is     *)
(* asked, which hears before that the UE has left it.                      *)
LEMMA StaysAskedAlone ==
    ASSUME Base, TwoCells, Effects, CoreStepped, LinkStep, SessionInv
    PROVE  AskedAlone'
  <1> SUFFICES ASSUME NEW s \in Cells, NEW d \in Cells, s # d, NEW t \in Teids, NEW i, Asks(s, d, i, t)',
                      NEW q \in Places, Holds(q, t)', NEW o, o = Asker(s, d, i)', q # o
               PROVE  q.cell = d /\ \E j \in 1 .. (i - 1) : Frees(x2'[<<s, d>>][j], q.rnti)
    BY DEF AskedAlone
  <1>e. PICK e \in {0, 1} : Moves(s, d, e)
    BY LinksMove
  <1>k. PICK k : k = i + e
    OBVIOUS
  <1>i. i \in Nat \ {0} /\ i \in 1 .. Len(x2'[<<s, d>>])
    <2>1. i \in 1 .. Len(x2'[<<s, d>>])
      BY DEF Asks
    <2> QED
      BY <2>1
  <1>l. Len(x2[<<s, d>>]) \in Nat
    BY DEF Base, TypeInv, LinksTyped, Links
  <1>1. \/ Asks(s, d, k, t) /\ o = Asker(s, d, k)
        \/ k = Len(x2[<<s, d>>]) + 1 /\ \E p \in Places : Prepares(p, d) /\ p = o /\ t = ctx[p].teid
    <2>1. \/ Asks(s, d, i + e, t) /\ Asker(s, d, i)' = Asker(s, d, i + e)
          \/ i + e = Len(x2[<<s, d>>]) + 1 /\ \E p \in Places : Prepares(p, d) /\ p = Asker(s, d, i)' /\ t = ctx[p].teid
      BY <1>e, RequestMoves
    <2> QED
      BY <2>1, <1>k
  <1>f. ASSUME q.cell = d, Holds(q, t), NEW j \in 1 .. Len(x2[<<s, d>>]), j < k, Frees(x2[<<s, d>>][j], q.rnti)
        PROVE  q.cell = d /\ \E h \in 1 .. (i - 1) : Frees(x2'[<<s, d>>][h], q.rnti)
    <2>1. ctx[q].state # "NONE" /\ ctx'[q].state # "NONE"
      BY <1>f DEF Holds
    <2>2. j - e \in 1 .. Len(x2'[<<s, d>>]) /\ Frees(x2'[<<s, d>>][j - e], q.rnti)
      BY <1>e, <1>f, <2>1, FreesMoves
    <2>3. j - e \in 1 .. (i - 1)
      BY <1>f, <1>k, <1>i, <2>2
    <2> QED
      BY <1>f, <2>2, <2>3
  <1>2. CASE Asks(s, d, k, t) /\ o = Asker(s, d, k)
    <2>1. CASE Holds(q, t)
      <3>1. q.cell = d /\ \E j \in 1 .. (k - 1) : Frees(x2[<<s, d>>][j], q.rnti)
        BY <1>2, <2>1 DEF SessionInv, AskedAlone
      <3>2. k \in 1 .. Len(x2[<<s, d>>])
        BY <1>2 DEF Asks
      <3>3. PICK j \in 1 .. (k - 1) : Frees(x2[<<s, d>>][j], q.rnti)
        BY <3>1
      <3>4. j \in 1 .. Len(x2[<<s, d>>]) /\ j < k
        BY <3>2, <3>3, <1>l
      <3> QED
        BY <3>1, <3>3, <3>4, <2>1, <1>f
    <2>2. CASE Answers(q) /\ Head(reply).teid = t
      BY <1>2, <2>2, AnswersGranted, UsedFacts DEF Base, SessionInv
    <2>3. CASE Joined(q) /\ ctx'[q].teid = t
      <3>1. PICK a, b \in Cells : Admits(a, b, q) /\ t = Head(x2[<<a, b>>]).teid
        BY <2>3 DEF Joined
      <3>2. a # b /\ Asks(a, b, 1, t) /\ \A f \in {0, 1} : Moves(a, b, f) => f = 1
        BY <3>1, AdmitsTakes
      <3>3. a = s /\ b = d /\ 1 = k
        BY <1>2, <3>2 DEF SessionInv, AskedOnce
      <3>4. e = 1
        BY <1>e, <3>2, <3>3
      <3> QED
        BY <3>3, <3>4, <1>i, <1>k
    <2> QED
      BY <2>1, <2>2, <2>3, HoldsMoves
  <1>3. ASSUME k = Len(x2[<<s, d>>]) + 1, NEW p \in Places, Prepares(p, d), p = o, t = ctx[p].teid
        PROVE  q.cell = d /\ \E j \in 1 .. (i - 1) : Frees(x2'[<<s, d>>][j], q.rnti)
    <2>1. Holds(p, t) /\ ~Answers(q) /\ ~Joined(q)
      BY <1>3, PreparesFacts DEF Holds
    <2>2. Holds(q, t)
      BY <2>1, HoldsMoves
    <2>3. q.cell = d /\ \E j \in 1 .. Len(x2[<<p.cell, d>>]) : Frees(x2[<<p.cell, d>>][j], q.rnti)
      BY <1>3, <2>1, <2>2, PreparesAlone DEF SessionInv
    <2>4. p.cell = s
      BY <1>3 DEF Asker
    <2>5. PICK j \in 1 .. Len(x2[<<s, d>>]) : Frees(x2[<<s, d>>][j], q.rnti)
      BY <2>3, <2>4
    <2>6. j < k
      BY <1>3, <2>5, <1>l
    <2> QED
      BY <2>2, <2>3, <2>5, <2>6, <1>f
  <1> QED
    BY <1>1, <1>2, <1>3

(* A context that is to ask has not asked yet.                             *)
LEMMA PreparesOnce ==
    ASSUME Base, Support, AskedAlone, NEW p \in Places, NEW d \in Cells, Prepares(p, d),
           NEW t \in Teids, Holds(p, t), NEW a \in Cells, NEW b \in Cells, a # b, NEW k, Asks(a, b, k, t)
    PROVE  FALSE
  <1>1. ctx[p].state = "CONNECTED_NORMALLY"
    BY DEF Prepares
  <1>2. p = Asker(a, b, k) \/ (p.cell = b /\ \E j \in 1 .. (k - 1) : Frees(x2[<<a, b>>][j], p.rnti))
    BY DEF AskedAlone
  <1>3. CASE p = Asker(a, b, k)
    <2>1. ctx[Asker(a, b, k)].state # "NONE" => Preparing(Asker(a, b, k), b)
      BY AskerFacts
    <2> QED
      BY <1>1, <1>3, <2>1 DEF Preparing
  <1>4. ASSUME p.cell = b, NEW j \in 1 .. (k - 1), Frees(x2[<<a, b>>][j], p.rnti) PROVE FALSE
    <2>1. j \in 1 .. Len(x2[<<a, b>>])
      <3>1. k \in 1 .. Len(x2[<<a, b>>]) /\ Len(x2[<<a, b>>]) \in Nat
        BY AtIndex DEF Asks, Base
      <3> QED
        BY <3>1
    <2>2. ctx[p].state \in Left
      BY <1>4, <2>1, FreedFacts
    <2> QED
      BY <1>1, <2>2 DEF Left
  <1> QED
    BY <1>2, <1>3, <1>4

(* A link that moved has moved all its messages alike.                     *)
LEMMA SameShift ==
    \A i, j \in Nat, e \in {0, 1} : i + e = j + e => i = j
  OBVIOUS

(* There is one request for a session.                                     *)
LEMMA StaysAskedOnce ==
    ASSUME Base, Support, Effects, CoreStepped, LinkStep, AskedAlone, AskedOnce
    PROVE  AskedOnce'
  <1> SUFFICES ASSUME NEW s \in Cells, NEW d \in Cells, s # d, NEW a \in Cells, NEW b \in Cells, a # b,
                      NEW t \in Teids, NEW i, NEW j, Asks(s, d, i, t)', Asks(a, b, j, t)'
               PROVE  s = a /\ d = b /\ i = j
    BY DEF AskedOnce
  <1>e. PICK e \in {0, 1} : Moves(s, d, e)
    BY LinksMove
  <1>f. PICK f \in {0, 1} : Moves(a, b, f) /\ (s = a /\ d = b => e = f)
    <2>1. CASE s = a /\ d = b
      BY <2>1, <1>e
    <2>2. CASE ~(s = a /\ d = b)
      BY <2>2, LinksMove
    <2> QED
      BY <2>1, <2>2
  <1>i. i \in Nat /\ j \in Nat
    <2>1. i \in 1 .. Len(x2'[<<s, d>>]) /\ j \in 1 .. Len(x2'[<<a, b>>])
      BY DEF Asks
    <2> QED
      BY <2>1
  <1>k. PICK k \in Nat : k = i + e
    BY <1>i
  <1>h. PICK h \in Nat : h = j + f
    BY <1>i
  <1>1. \/ Asks(s, d, k, t)
        \/ k = Len(x2[<<s, d>>]) + 1 /\ \E p \in Places : Prepares(p, d) /\ p = Asker(s, d, i)' /\ t = ctx[p].teid
    <2>1. \/ Asks(s, d, i + e, t) /\ Asker(s, d, i)' = Asker(s, d, i + e)
          \/ i + e = Len(x2[<<s, d>>]) + 1 /\ \E p \in Places : Prepares(p, d) /\ p = Asker(s, d, i)' /\ t = ctx[p].teid
      BY <1>e, RequestMoves
    <2> QED
      BY <2>1, <1>k
  <1>2. \/ Asks(a, b, h, t)
        \/ h = Len(x2[<<a, b>>]) + 1 /\ \E p \in Places : Prepares(p, b) /\ p = Asker(a, b, j)' /\ t = ctx[p].teid
    <2>1. \/ Asks(a, b, j + f, t) /\ Asker(a, b, j)' = Asker(a, b, j + f)
          \/ j + f = Len(x2[<<a, b>>]) + 1 /\ \E p \in Places : Prepares(p, b) /\ p = Asker(a, b, j)' /\ t = ctx[p].teid
      BY <1>f, RequestMoves
    <2> QED
      BY <2>1, <1>h
  <1>p. ASSUME NEW p \in Places, NEW c \in Cells, Prepares(p, c), t = ctx[p].teid
        PROVE  ~Asks(s, d, k, t) /\ ~Asks(a, b, h, t)
    <2>1. Holds(p, t)
      BY <1>p DEF Holds, Prepares
    <2> QED
      BY <1>p, <2>1, PreparesOnce
  <1>3. CASE Asks(s, d, k, t) /\ Asks(a, b, h, t)
    <2>1. s = a /\ d = b /\ k = h
      BY <1>3 DEF AskedOnce
    <2>2. e = f
      BY <2>1, <1>f
    <2>3. i + e = j + e
      BY <2>1, <2>2, <1>k, <1>h
    <2>4. i = j
      BY <2>3, <1>i, SameShift
    <2> QED
      BY <2>1, <2>4
  <1>4. ASSUME k = Len(x2[<<s, d>>]) + 1, h = Len(x2[<<a, b>>]) + 1,
               NEW p \in Places, Prepares(p, d), p = Asker(s, d, i)',
               NEW q \in Places, Prepares(q, b), q = Asker(a, b, j)'
        PROVE  s = a /\ d = b /\ i = j
    <2>1. p = q
      BY <1>4 DEF Prepares, Turned
    <2>2. d = b
      <3>1. ctx'[p].target = [cell |-> d, rnti |-> 0] /\ ctx'[p].target = [cell |-> b, rnti |-> 0]
        BY <1>4, <2>1 DEF Prepares, Turned
      <3> QED
        BY <3>1
    <2>3. p.cell = s /\ q.cell = a
      BY <1>4 DEF Asker
    <2>4. k = h /\ s = a
      BY <1>4, <2>1, <2>2, <2>3
    <2>5. e = f
      BY <2>2, <2>4, <1>f
    <2>6. i + e = j + e
      BY <2>4, <2>5, <1>k, <1>h
    <2>7. i = j
      BY <2>6, <1>i, SameShift
    <2> QED
      BY <2>2, <2>4, <2>7
  <1> QED
    BY <1>1, <1>2, <1>p, <1>3, <1>4

(***************************************************************************)
(* Contexts of a session.                                                  *)
(***************************************************************************)

(* A context that expects the UE, or that it came to, is handed it over by *)
(* its source.                                                             *)
LEMMA JoinersHanded ==
    ASSUME Base', Support', NEW p \in Places, NEW q \in Places, ctx'[p].state # "NONE",
           ctx'[q].state \in {"HANDOVER_JOINING", "HANDOVER_PATH_SWITCH"}, ctx'[q].source = p
    PROVE  Hands(p, q)' /\ p.cell # q.cell
  <1>0. p.cell # q.cell
    BY DEF Base, Allocated, CtxAllocated
  <1>1. CASE ctx'[q].state = "HANDOVER_JOINING"
    <2>1. ctx'[p].state \notin Left => Preparing(p, q.cell)'
      BY <1>1 DEF Base, Protocol, Expected
    <2> QED
      BY <1>0, <1>1, <2>1 DEF Left, Hands, OfferedBy
  <1>2. CASE ctx'[q].state = "HANDOVER_PATH_SWITCH"
    BY <1>0, <1>2 DEF Support, Sources, Left, Hands
  <1> QED
    BY <1>1, <1>2

(* A handover that was admitted for a context is one that it prepares.     *)
LEMMA AdmittedPrepares ==
    ASSUME Base', NEW q \in Places, ctx'[q].state \notin {"NONE", "HANDOVER_PREPARATION"}
    PROVE  ~AdmittedFor(q)'
  BY DEF Base, Protocol, Agreed, Preparing, AdmittedFor

(* The source of a handover that was told so is still to hear of it, or has *)
(* gone.                                                                   *)
LEMMA ReleasedStays ==
    ASSUME Base, Effects, NEW p \in Places, Released(p), ctx[p].state # "NONE", ctx'[p].state # "NONE"
    PROVE  Released(p)'
  <1>1. PICK s \in Cells \ {p.cell} : Told(x2[<<s, p.cell>>], "UeContextRelease", p.rnti)
    BY DEF Released
  <1>2. PICK m \in Mail(x2[<<s, p.cell>>]) : m.msg = "UeContextRelease" /\ m.old = p.rnti
    BY <1>1 DEF Told
  <1>3. p.cell \in Cells /\ MailStays
    BY PlaceTypes, MailsStay DEF Base
  <1>4. m \in Mail(x2'[<<s, p.cell>>]) \/ Delivered(s, p.cell, m)
    BY <1>2, <1>3 DEF MailStays
  <1>5. ~Delivered(s, p.cell, m)
    <2> SUFFICES ASSUME NEW w \in Spots, Ends(s, p.cell, w), w.rnti = m.old PROVE FALSE
      BY <1>2 DEF Delivered
    <2>1. w = p
      BY <1>2 DEF Ends, Spots, Places
    <2> QED
      BY <2>1 DEF Ends, Gone, Turned
  <1> QED
    BY <1>2, <1>4, <1>5 DEF Released, Told

(* A context that serves the UE again was handed it over by one that is    *)
(* still to hear of it; nobody admits another handover of it before that.  *)
LEMMA NotAdmitted ==
    ASSUME Base, Effects, LinkStep, AskerHolds, AskedAlone, NEW t \in Teids,
           NEW p \in Places, NEW q \in Places, p # q, Holds(p, t), Holds(q, t), ~AdmittedFor(q)
    PROVE  ~AdmittedFor(q)'
  <1> SUFFICES ASSUME NEW s \in Cells \ {q.cell}, Accepted(x2'[<<s, q.cell>>], q.rnti) PROVE FALSE
    BY DEF AdmittedFor
  <1>1. PICK e \in {0, 1} : Moves(s, q.cell, e)
    BY LinksMove, PlaceTypes
  <1>2. PICK i \in 1 .. Len(x2'[<<s, q.cell>>]) : IsAck(x2'[<<s, q.cell>>][i], q.rnti)
    BY DEF Accepted, Mail
  <1>n. PICK n : n = x2'[<<s, q.cell>>][i]
    OBVIOUS
  <1>3. CASE i + e \in 1 .. Len(x2[<<s, q.cell>>]) /\ n = x2[<<s, q.cell>>][i + e]
    <2>1. n \in Mail(x2[<<s, q.cell>>])
      BY <1>3, AtIndex, PlaceTypes DEF Base
    <2>2. Accepted(x2[<<s, q.cell>>], q.rnti)
      BY <2>1, <1>2, <1>n DEF Accepted
    <2> QED
      BY <2>2 DEF AdmittedFor
  <1>4. CASE Posted(s, q.cell, n)
    <2>1. PICK w \in Places : Admits(q.cell, s, w) /\ n.old = From(q.cell, s)
      BY <1>2, <1>4, <1>n DEF Posted, IsAck
    <2>2. /\ q.cell # s /\ Asks(q.cell, s, 1, Head(x2[<<q.cell, s>>]).teid)
          /\ Asker(q.cell, s, 1) = [cell |-> q.cell, rnti |-> From(q.cell, s)]
      BY <2>1, AdmitsTakes, PlaceTypes
    <2>3. Asker(q.cell, s, 1) = q
      BY <1>2, <1>n, <2>1, <2>2 DEF IsAck, Places
    <2>4. Asks(q.cell, s, 1, t)
      <3>1. ctx[q].state # "NONE" /\ ctx[q].teid = t
        BY DEF Holds
      <3>2. ctx[q].teid = Head(x2[<<q.cell, s>>]).teid
        BY <2>2, <2>3, <3>1, PlaceTypes DEF AskerHolds
      <3> QED
        BY <2>2, <3>1, <3>2
    <2>5. p = Asker(q.cell, s, 1) \/ \E j \in 1 .. (1 - 1) : Frees(x2[<<q.cell, s>>][j], p.rnti)
      BY <2>2, <2>4, PlaceTypes DEF AskedAlone
    <2>6. 1 .. (1 - 1) = {}
      OBVIOUS
    <2> QED
      BY <2>3, <2>5, <2>6
  <1> QED
    BY <1>1, <1>2, <1>n, <1>3, <1>4 DEF Moves

(* A context that was left for another stays so until it goes.             *)
LEMMA HandsMoves ==
    ASSUME Base, Base', Support', Effects, LinkStep, AskerHolds, AskedAlone, NEW t \in Teids,
           NEW p \in Places, NEW q \in Places, p # q, p.cell # q.cell, Holds(p, t), Holds(q, t),
           ctx'[p].state # "NONE", ctx'[q].state # "NONE", Hands(p, q)
    PROVE  Hands(p, q)'
  <1>f. Follows(p) /\ Follows(q)
    BY AllFollow
  <1>n. ctx[p].state # "NONE" /\ ctx[q].state # "NONE"
    BY DEF Holds
  <1>c. p.cell \in Cells /\ q.cell \in Cells
    BY PlaceTypes
  <1>1. CASE ctx'[q].state \in {"HANDOVER_JOINING", "HANDOVER_PATH_SWITCH"} /\ ctx[q].source = p
    <2>1. ctx'[q].source = p
      BY <1>1, <1>f, <1>n DEF Follows
    <2> QED
      BY <1>1, <2>1, JoinersHanded
  <1>2. CASE /\ ctx[q].state \in {"HANDOVER_JOINING", "HANDOVER_PATH_SWITCH"} /\ ctx[q].source = p
             /\ ctx'[q].state \notin {"HANDOVER_JOINING", "HANDOVER_PATH_SWITCH"}
    <2>1. ctx[q].state = "HANDOVER_PATH_SWITCH" /\ ctx'[q].state \in Settling /\ Switches(q)
      BY <1>2, <1>f DEF Follows
    <2>2. ctx[p].state = "HANDOVER_LEAVING"
      BY <2>1 DEF Hands, OfferedBy, InPlace
    <2>3. ctx'[p].state = "HANDOVER_LEAVING"
      BY <2>2, <1>f DEF Follows
    <2>4. Told(x2'[<<q.cell, p.cell>>], "UeContextRelease", p.rnti)
      BY <1>2, <2>1, SwitchGoes
    <2>5. Released(p)'
      BY <2>4, <1>c DEF Released
    <2>6. ~AdmittedFor(q)' /\ ctx'[q].state \in InPlace
      <3>1. ctx'[q].state \notin {"NONE", "HANDOVER_PREPARATION"} /\ ctx'[q].state \in InPlace
        BY <2>1 DEF Settling, InPlace, Up
      <3> QED
        BY <3>1, AdmittedPrepares
    <2> QED
      BY <2>3, <2>5, <2>6 DEF Hands
  <1>3. CASE ctx[p].state = "HANDOVER_LEAVING" /\ Released(p) /\ ctx[q].state \in InPlace /\ ~AdmittedFor(q)
    <2>1. Released(p)' /\ ctx'[p].state = "HANDOVER_LEAVING"
      BY <1>3, <1>f, ReleasedStays DEF Follows
    <2>2. ~AdmittedFor(q)'
      BY <1>3, NotAdmitted
    <2>3. ctx'[q].state # "HANDOVER_LEAVING"
      <3> SUFFICES ASSUME ctx'[q].state = "HANDOVER_LEAVING" PROVE FALSE
        OBVIOUS
      <3>1. ctx[q].state # "HANDOVER_LEAVING"
        BY <1>3 DEF InPlace, Up
      <3>2. PICK s, d \in Cells, w \in Places : Commands(s, d, q, w)
        BY <3>1, <1>f DEF Follows
      <3>3. Arrived(s, d, "HandoverRequestAck") /\ q.cell = d /\ q.rnti = From(s, d)
        BY <3>2 DEF Commands
      <3>4. /\ s # d /\ Head(x2[<<s, d>>]) \in Mail(x2[<<s, d>>])
            /\ Head(x2[<<s, d>>]).msg = "HandoverRequestAck" /\ Head(x2[<<s, d>>]).old = q.rnti
        BY <3>3, ArrivedFacts DEF Base
      <3>5. Accepted(x2[<<s, q.cell>>], q.rnti)
        BY <3>3, <3>4 DEF Accepted, IsAck
      <3> QED
        BY <3>3, <3>4, <3>5, <1>3 DEF AdmittedFor
    <2>4. ctx'[q].state \in InPlace
      BY <2>3, <1>3, <1>f DEF Follows, Left
    <2> QED
      BY <2>1, <2>2, <2>4 DEF Hands
  <1> QED
    BY <1>1, <1>2, <1>3 DEF Hands, OfferedBy

(* A context that joins a session is handed it by the one that has it.     *)
LEMMA NewHanded ==
    ASSUME Base, Base', Support', SessionInv, NEW t \in Teids,
           NEW p \in Places, NEW q \in Places, p # q, Holds(p, t), ctx'[p].state # "NONE",
           (Answers(q) /\ Head(reply).teid = t) \/ (Joined(q) /\ ctx'[q].teid = t)
    PROVE  p.cell # q.cell /\ Hands(p, q)'
  <1>1. ~Answers(q) \/ Head(reply).teid # t
    BY AnswersGranted, UsedFacts DEF Base, SessionInv
  <1>2. Joined(q) /\ ctx'[q].teid = t
    BY <1>1
  <1>3. PICK a, b \in Cells : Admits(a, b, q) /\ t = Head(x2[<<a, b>>]).teid
    BY <1>2 DEF Joined
  <1>4. a # b /\ Asks(a, b, 1, t) /\ Asker(a, b, 1) = ctx'[q].source
    BY <1>3, AdmitsTakes
  <1>5. p = Asker(a, b, 1) \/ \E j \in 1 .. (1 - 1) : Frees(x2[<<a, b>>][j], p.rnti)
    BY <1>4 DEF SessionInv, AskedAlone
  <1>6. 1 .. (1 - 1) = {}
    OBVIOUS
  <1>7. ctx'[q].source = p /\ ctx'[q].state = "HANDOVER_JOINING"
    BY <1>2, <1>4, <1>5, <1>6 DEF Joined
  <1> QED
    BY <1>7, JoinersHanded

(* Two contexts of a session are one that hands it over, and one that gets *)
(* it.                                                                     *)
LEMMA StaysPaired ==
    ASSUME Base, Base', Support', Effects, CoreStepped, LinkStep, SessionInv
    PROVE  Paired'
  <1> SUFFICES ASSUME NEW p \in Places, NEW q \in Places, NEW t \in Teids, p # q, Holds(p, t)', Holds(q, t)'
               PROVE  p.cell # q.cell /\ (Hands(p, q)' \/ Hands(q, p)')
    BY DEF Paired
  <1>n. ctx'[p].state # "NONE" /\ ctx'[q].state # "NONE"
    BY DEF Holds
  <1>i. Paired /\ AskerHolds /\ AskedAlone
    BY DEF SessionInv
  <1> DEFINE New(w) == (Answers(w) /\ Head(reply).teid = t) \/ (Joined(w) /\ ctx'[w].teid = t)
  <1>h. (Holds(p, t) \/ New(p)) /\ (Holds(q, t) \/ New(q))
    BY HoldsMoves
  <1>1. CASE Holds(p, t) /\ Holds(q, t)
    <2>1. p.cell # q.cell /\ (Hands(p, q) \/ Hands(q, p))
      BY <1>1, <1>i DEF Paired
    <2>2. CASE Hands(p, q)
      BY <2>1, <2>2, <1>1, <1>n, <1>i, HandsMoves
    <2>3. CASE Hands(q, p)
      BY <2>1, <2>3, <1>1, <1>n, <1>i, HandsMoves
    <2> QED
      BY <2>1, <2>2, <2>3
  <1>2. CASE Holds(p, t) /\ New(q)
    BY <1>2, <1>n, NewHanded
  <1>3. CASE Holds(q, t) /\ New(p)
    <2>1. q.cell # p.cell /\ Hands(q, p)'
      BY <1>3, <1>n, NewHanded
    <2> QED
      BY <2>1
  <1>4. CASE New(p) /\ New(q)
    <2>1. \A w \in Places : New(w) => ctx[w].state # ctx'[w].state
      <3>1. \A w \in Places : Answers(w) => ctx[w].state # ctx'[w].state
        BY DEF Answers
      <3>2. \A w \in Places : Joined(w) => ctx[w].state # ctx'[w].state
        BY DEF Joined, Base, Allocated, CtxAllocated
      <3> QED
        BY <3>1, <3>2
    <2>2. PICK o : \A w \in Places \ {o} : ctx'[w] = ctx[w]
      BY OneContext
    <2>3. ctx[p].state # ctx'[p].state /\ ctx[q].state # ctx'[q].state
      BY <2>1, <1>4
    <2> QED
      BY <2>2, <2>3
  <1> QED
    BY <1>h, <1>1, <1>2, <1>3, <1>4

(***************************************************************************)
(* Sessions that are created.                                              *)
(***************************************************************************)

(* A session that a context or a request uses was used before, or the MME  *)
(* has just been told of it.                                               *)
LEMMA UsedMoves ==
    ASSUME Base, Effects, CoreStepped, LinkStep, NEW t \in Teids, Used(t)'
    PROVE  Used(t) \/ \E p \in Places : Answers(p) /\ Head(reply).teid = t
  <1>1. ASSUME NEW p \in Places, Holds(p, t)'
        PROVE  Used(t) \/ (Answers(p) /\ Head(reply).teid = t)
    <2>1. CASE Holds(p, t)
      BY <2>1 DEF Used
    <2>2. CASE Joined(p) /\ ctx'[p].teid = t
      <3>1. PICK a, b \in Cells : Admits(a, b, p) /\ t = Head(x2[<<a, b>>]).teid
        BY <2>2 DEF Joined
      <3>2. a # b /\ Asks(a, b, 1, t)
        BY <3>1, AdmitsTakes
      <3> QED
        BY <3>2 DEF Used
    <2> QED
      BY <1>1, <2>1, <2>2, HoldsMoves
  <1>2. ASSUME NEW s \in Cells, NEW d \in Cells, s # d, NEW i \in Nat, Asks(s, d, i, t)' PROVE Used(t)
    <2>1. PICK e \in {0, 1} : Moves(s, d, e)
      BY <1>2, LinksMove
    <2>2. PICK k \in Nat : k = i + e
      OBVIOUS
    <2>3. Asks(s, d, i + e, t) \/ \E p \in Places : Prepares(p, d) /\ t = ctx[p].teid
      <3>1. \/ Asks(s, d, i + e, t) /\ Asker(s, d, i)' = Asker(s, d, i + e)
            \/ i + e = Len(x2[<<s, d>>]) + 1 /\ \E p \in Places : Prepares(p, d) /\ p = Asker(s, d, i)' /\ t = ctx[p].teid
        BY <1>2, <2>1, RequestMoves
      <3> QED
        BY <3>1
    <2>4. CASE Asks(s, d, k, t)
      BY <1>2, <2>4 DEF Used
    <2>5. ASSUME NEW p \in Places, Prepares(p, d), t = ctx[p].teid PROVE Holds(p, t)
      BY <2>5 DEF Prepares, Holds
    <2> QED
      BY <2>2, <2>3, <2>4, <2>5 DEF Used
  <1> QED
    BY <1>1, <1>2 DEF Used

(* A message is put in a queue.                                            *)
LEMMA GivenGrows ==
    ASSUME NEW q \in Seq(CoreMsgs), NEW m \in CoreMsgs, NEW msg
    PROVE  /\ \A t : Given(Append(q, m), msg, t) => Given(q, msg, t) \/ (m.msg = msg /\ m.teid = t)
           /\ Once(q, msg) /\ (m.msg = msg => ~Given(q, msg, m.teid)) => Once(Append(q, m), msg)
  <1>b. PICK b : b = Append(q, m)
    OBVIOUS
  <1>1. /\ Len(b) = Len(q) + 1 /\ b[Len(q) + 1] = m /\ Len(q) \in Nat
        /\ \A i \in 1 .. Len(q) : b[i] = q[i]
    BY <1>b
  <1>2. \A i \in 1 .. Len(b) : (i \in 1 .. Len(q) /\ b[i] = q[i]) \/ (i = Len(q) + 1 /\ b[i] = m)
    BY <1>1
  <1>3. \A t : Given(b, msg, t) => Given(q, msg, t) \/ (m.msg = msg /\ m.teid = t)
    BY <1>2 DEF Given
  <1>4. ASSUME Once(q, msg), m.msg = msg => ~Given(q, msg, m.teid) PROVE Once(b, msg)
    BY <1>2, <1>4 DEF Given, Once
  <1> QED
    BY <1>b, <1>3, <1>4

(* The first message is taken from it.                                     *)
LEMMA GivenShrinks ==
    ASSUME NEW q \in Seq(CoreMsgs), q # <<>>, NEW msg
    PROVE  /\ \A t : Given(Tail(q), msg, t) => Given(q, msg, t)
           /\ Once(q, msg) => Once(Tail(q), msg)
           /\ Once(q, msg) /\ Head(q).msg = msg => ~Given(Tail(q), msg, Head(q).teid)
           /\ Head(q).msg = msg => Given(q, msg, Head(q).teid)
  <1>b. PICK b : b = Tail(q)
    OBVIOUS
  <1>1. /\ Len(b) = Len(q) - 1 /\ Len(q) \in Nat /\ Len(q) > 0 /\ Head(q) = q[1] /\ Len(b) \in Nat
        /\ \A i \in 1 .. Len(b) : b[i] = q[i + 1]
    BY <1>b
  <1>2. \A i \in 1 .. Len(b) : i + 1 \in 1 .. Len(q) /\ i + 1 # 1 /\ b[i] = q[i + 1]
    BY <1>1
  <1>3. \A t : Given(b, msg, t) => Given(q, msg, t)
    BY <1>2 DEF Given
  <1>4. ASSUME Once(q, msg) PROVE Once(b, msg)
    <2> SUFFICES ASSUME NEW i \in 1 .. Len(b), NEW j \in 1 .. Len(b),
                        b[i].msg = msg, b[j].msg = msg, b[i].teid = b[j].teid
                 PROVE  i = j
      BY DEF Once
    <2>1. PICK g, h : g = i + 1 /\ h = j + 1
      OBVIOUS
    <2>2. g \in 1 .. Len(q) /\ h \in 1 .. Len(q) /\ b[i] = q[g] /\ b[j] = q[h]
      BY <1>2, <2>1
    <2>3. g = h
      BY <1>4, <2>2 DEF Once
    <2> QED
      BY <2>1, <2>3
  <1>5. 1 \in 1 .. Len(q)
    BY <1>1
  <1>6. ASSUME Once(q, msg), Head(q).msg = msg, Given(b, msg, Head(q).teid) PROVE FALSE
    <2>1. PICK i \in 1 .. Len(b) : b[i].msg = msg /\ b[i].teid = Head(q).teid
      BY <1>6 DEF Given
    <2>2. PICK g : g = i + 1
      OBVIOUS
    <2>3. g \in 1 .. Len(q) /\ g # 1 /\ b[i] = q[g]
      BY <1>2, <2>2
    <2> QED
      BY <1>1, <1>5, <1>6, <2>1, <2>3 DEF Once
  <1>7. Head(q).msg = msg => Given(q, msg, Head(q).teid)
    BY <1>1, <1>5 DEF Given
  <1> QED
    BY <1>b, <1>3, <1>4, <1>6, <1>7

(* Nothing is created.                                                     *)
LEMMA AssignedFrame ==
    ASSUME Assigned, UNCHANGED sgw, Once(s5', "CreateSessionRequest"), Once(reply', "CreateSessionResponse"),
           \A t \in Teids : /\ Used(t)' => Used(t)
                            /\ Ordered(t)' => Ordered(t)
                            /\ Granted(t)' => Granted(t)
    PROVE  Assigned'
  BY DEF Assigned, Count

(* Each session is created once, and is used once its eNB has been told.   *)
LEMMA StaysAssigned ==
    ASSUME Base, Effects, CoreStepped, LinkStep, Assigned
    PROVE  Assigned'
  <1>t. s5 \in Seq(CoreMsgs) /\ reply \in Seq(CoreMsgs)
    BY DEF Base, TypeInv, CoreTyped, Requests, Responses
  <1>o. Once(s5, "CreateSessionRequest") /\ Once(reply, "CreateSessionResponse")
    BY DEF Assigned
  <1>k. Count \in Nat
    BY DEF Base, TypeInv, CoreTyped, Count, Teids
  <1>1. ASSUME NEW p \in Places, Answers(p) PROVE Assigned'
    <2>0. PICK u : u = Head(reply).teid
      OBVIOUS
    <2>1. /\ reply # <<>> /\ Head(reply).msg = "CreateSessionResponse" /\ reply' = Tail(reply)
          /\ UNCHANGED <<sgw, s5>>
      BY <1>1 DEF Answers, Takes
    <2>2. /\ Once(reply', "CreateSessionResponse")
          /\ \A t : Granted(t)' => Granted(t)
          /\ ~Granted(u)' /\ Granted(u)
      <3>1. /\ \A t : Given(Tail(reply), "CreateSessionResponse", t) => Given(reply, "CreateSessionResponse", t)
            /\ Once(Tail(reply), "CreateSessionResponse")
            /\ ~Given(Tail(reply), "CreateSessionResponse", Head(reply).teid)
            /\ Given(reply, "CreateSessionResponse", Head(reply).teid)
        BY <2>1, <1>t, <1>o, GivenShrinks
      <3> QED
        BY <3>1, <2>0, <2>1 DEF Granted
    <2>3. \A t \in Teids : (Used(t)' => Used(t) \/ t = u) /\ (Ordered(t)' => Ordered(t))
      <3>1. \A t \in Teids : Ordered(t)' => Ordered(t)
        BY <2>1 DEF Ordered
      <3>2. \A t \in Teids : Used(t)' => Used(t) \/ \E q \in Places : Answers(q) /\ Head(reply).teid = t
        BY UsedMoves
      <3> QED
        BY <3>1, <3>2, <2>0
    <2>4. Count' = Count /\ s5' = s5
      BY <2>1 DEF Count
    <2>5. ASSUME NEW t \in Teids
          PROVE  /\ Used(t)' => t <= Count
                 /\ Ordered(t)' \/ Granted(t)' => t <= Count /\ ~Used(t)'
                 /\ ~(Ordered(t)' /\ Granted(t)')
      <3>1. /\ Used(t) => t <= Count
            /\ Ordered(t) \/ Granted(t) => t <= Count /\ ~Used(t)
            /\ ~(Ordered(t) /\ Granted(t))
        BY DEF Assigned
      <3>2. CASE t = u
        BY <3>1, <3>2, <2>2, <2>3
      <3>3. CASE t # u
        BY <3>1, <3>3, <2>2, <2>3
      <3> QED
        BY <3>2, <3>3
    <2> QED
      BY <1>o, <2>2, <2>4, <2>5 DEF Assigned
  <1>2. ASSUME \A p \in Places : ~Answers(p) PROVE Assigned'
    <2>u. \A t \in Teids : Used(t)' => Used(t)
      BY <1>2, UsedMoves
    <2>1. ASSUME UNCHANGED <<sgw, s5, reply>> PROVE Assigned'
      <3>1. \A t \in Teids : (Ordered(t)' => Ordered(t)) /\ (Granted(t)' => Granted(t))
        BY <2>1 DEF Ordered, Granted
      <3> QED
        BY <3>1, <2>1, <2>u, <1>o, AssignedFrame
    <2>2. ASSUME NEW msg, Takes(msg) PROVE Assigned'
      <3>1. reply # <<>> /\ reply' = Tail(reply) /\ UNCHANGED <<sgw, s5>>
        BY <2>2 DEF Takes
      <3>2. /\ \A t : Given(Tail(reply), "CreateSessionResponse", t) => Given(reply, "CreateSessionResponse", t)
            /\ Once(Tail(reply), "CreateSessionResponse")
        BY <3>1, <1>t, <1>o, GivenShrinks
      <3>3. \A t \in Teids : (Ordered(t)' => Ordered(t)) /\ (Granted(t)' => Granted(t))
        BY <3>1, <3>2 DEF Ordered, Granted
      <3> QED
        BY <3>1, <3>2, <3>3, <2>u, <1>o, AssignedFrame
    <2>3. CASE SgwMoves
      <3>1. PICK m \in CoreMsgs :
               \/ /\ m.msg = "CreateSessionRequest" /\ Count + 1 \in Teids
                  /\ sgw' = [teidCount |-> Count + 1, enb |-> [sgw.enb EXCEPT ![Count + 1] = m.cell]]
                  /\ s5' = Append(s5, [m EXCEPT !.teid = Count + 1])
               \/ /\ m.msg = "ModifyBearerRequest"
                  /\ sgw' = [sgw EXCEPT !.enb[m.teid] = m.cell] /\ s5' = Append(s5, m)
               \/ /\ m.msg \notin {"CreateSessionRequest", "ModifyBearerRequest"}
                  /\ UNCHANGED sgw /\ s5' = Append(s5, m)
        BY <2>3 DEF SgwMoves
      <3>2. UNCHANGED reply
        BY <2>3 DEF SgwMoves
      <3>3. CASE /\ m.msg = "CreateSessionRequest" /\ Count + 1 \in Teids
                 /\ sgw' = [teidCount |-> Count + 1, enb |-> [sgw.enb EXCEPT ![Count + 1] = m.cell]]
                 /\ s5' = Append(s5, [m EXCEPT !.teid = Count + 1])
        <4>0. PICK u : u = Count + 1
          OBVIOUS
        <4>1. PICK n : n = [m EXCEPT !.teid = u]
          OBVIOUS
        <4>2. n \in CoreMsgs /\ n.msg = "CreateSessionRequest" /\ n.teid = u /\ u \in Teids /\ s5' = Append(s5, n)
          BY <3>3, <4>0, <4>1 DEF CoreMsgs
        <4>3. Count' = u
          BY <3>3, <4>0 DEF Count
        <4>4. ~Used(u) /\ ~Ordered(u) /\ ~Granted(u) /\ \A t \in Teids : t <= Count => t <= u /\ t # u
          <5>1. ~(u <= Count) /\ \A t \in Teids : t <= Count => t <= u /\ t # u
            BY <1>k, <4>0 DEF Teids
          <5> QED
            BY <5>1, <4>2 DEF Assigned
        <4>5. /\ \A t : Ordered(t)' => Ordered(t) \/ t = u
              /\ Once(s5', "CreateSessionRequest")
          <5>1. /\ \A t : Given(Append(s5, n), "CreateSessionRequest", t) =>
                      Given(s5, "CreateSessionRequest", t) \/ (n.msg = "CreateSessionRequest" /\ n.teid = t)
                /\ ~Given(s5, "CreateSessionRequest", n.teid) => Once(Append(s5, n), "CreateSessionRequest")
            BY <1>t, <1>o, <4>2, GivenGrows
          <5> QED
            BY <5>1, <4>2, <4>4 DEF Ordered
        <4>6. \A t \in Teids : Granted(t)' => Granted(t)
          BY <3>2 DEF Granted
        <4>7. ASSUME NEW t \in Teids
              PROVE  /\ Used(t)' => t <= u
                     /\ Ordered(t)' \/ Granted(t)' => t <= u /\ ~Used(t)'
                     /\ ~(Ordered(t)' /\ Granted(t)')
          <5>1. /\ Used(t) => t <= Count
                /\ Ordered(t) \/ Granted(t) => t <= Count /\ ~Used(t)
                /\ ~(Ordered(t) /\ Granted(t))
            BY DEF Assigned
          <5>2. CASE t = u
            <6>1. u <= u
              BY <4>2 DEF Teids
            <6> QED
              BY <5>2, <6>1, <4>4, <4>6, <2>u
          <5>3. CASE t # u
            BY <5>1, <5>3, <4>4, <4>5, <4>6, <2>u
          <5> QED
            BY <5>2, <5>3
        <4> QED
          BY <1>o, <3>2, <4>3, <4>5, <4>7 DEF Assigned
      <3>4. CASE m.msg # "CreateSessionRequest" /\ s5' = Append(s5, m) /\ Count' = Count
        <4>1. /\ \A t : Ordered(t)' => Ordered(t)
              /\ Once(s5', "CreateSessionRequest")
          BY <3>4, <1>t, <1>o, GivenGrows DEF Ordered
        <4>2. \A t \in Teids : Granted(t)' => Granted(t)
          BY <3>2 DEF Granted
        <4> QED
          BY <4>1, <4>2, <3>2, <3>4, <2>u, <1>o DEF Assigned
      <3>5. sgw' = [sgw EXCEPT !.enb[m.teid] = m.cell] => Count' = Count
        BY DEF Base, TypeInv, CoreTyped, Count
      <3>6. UNCHANGED sgw => Count' = Count
        BY DEF Count
      <3> QED
        BY <3>1, <3>3, <3>4, <3>5, <3>6
    <2>4. CASE PgwMoves
      <3>1. /\ s5 # <<>> /\ s5' = Tail(s5) /\ UNCHANGED sgw /\ Head(s5) \in CoreMsgs
            /\ \/ /\ Head(s5).msg = "CreateSessionRequest"
                  /\ reply' = Append(reply, Gtpc("CreateSessionResponse", 0, Head(s5).teid))
               \/ /\ Head(s5).msg # "CreateSessionRequest"
                  /\ \/ UNCHANGED reply
                     \/ reply' = Append(reply, Gtpc("ModifyBearerResponse", 0, 0))
                     \/ reply' = Append(reply, Gtpc("DeleteBearerRequest", 0, 0))
        BY <2>4 DEF PgwMoves
      <3>2. /\ \A t : Given(Tail(s5), "CreateSessionRequest", t) => Given(s5, "CreateSessionRequest", t)
            /\ Once(Tail(s5), "CreateSessionRequest")
            /\ Head(s5).msg = "CreateSessionRequest" =>
                  /\ ~Given(Tail(s5), "CreateSessionRequest", Head(s5).teid)
                  /\ Given(s5, "CreateSessionRequest", Head(s5).teid)
        BY <3>1, <1>t, <1>o, GivenShrinks
      <3>3. /\ \A t \in Teids : Ordered(t)' => Ordered(t)
            /\ Once(s5', "CreateSessionRequest")
        BY <3>1, <3>2 DEF Ordered
      <3>4. CASE /\ Head(s5).msg = "CreateSessionRequest"
                 /\ reply' = Append(reply, Gtpc("CreateSessionResponse", 0, Head(s5).teid))
        <4>0. PICK u : u = Head(s5).teid
          OBVIOUS
        <4>1. PICK n : n = Gtpc("CreateSessionResponse", 0, u)
          OBVIOUS
        <4>2. u \in Teids
          BY <4>0, <3>4, <3>1 DEF Base, TypeInv, CoreTyped, Requests
        <4>3. n \in CoreMsgs /\ n.msg = "CreateSessionResponse" /\ n.teid = u /\ reply' = Append(reply, n)
          <5>1. n \in CoreMsgs /\ n.msg = "CreateSessionResponse" /\ n.teid = u
            BY <4>1, <4>2 DEF Gtpc, CoreMsgs, CoreNames
          <5>2. reply' = Append(reply, n)
            BY <4>0, <4>1, <3>4
          <5> QED
            BY <5>1, <5>2
        <4>4. Ordered(u) /\ ~Ordered(u)'
          BY <3>1, <3>2, <3>4, <4>0 DEF Ordered
        <4>5. u <= Count /\ ~Used(u) /\ ~Granted(u)
          BY <4>2, <4>4 DEF Assigned
        <4>6. /\ \A t : Granted(t)' => Granted(t) \/ t = u
              /\ Once(reply', "CreateSessionResponse")
          <5>1. /\ \A t : Given(Append(reply, n), "CreateSessionResponse", t) =>
                      Given(reply, "CreateSessionResponse", t) \/ (n.msg = "CreateSessionResponse" /\ n.teid = t)
                /\ ~Given(reply, "CreateSessionResponse", n.teid) => Once(Append(reply, n), "CreateSessionResponse")
            BY <1>t, <1>o, <4>3, GivenGrows
          <5> QED
            BY <5>1, <4>3, <4>5 DEF Granted
        <4>7. Count' = Count
          BY <3>1 DEF Count
        <4>8. ASSUME NEW t \in Teids
              PROVE  /\ Used(t)' => t <= Count
                     /\ Ordered(t)' \/ Granted(t)' => t <= Count /\ ~Used(t)'
                     /\ ~(Ordered(t)' /\ Granted(t)')
          <5>1. /\ Used(t) => t <= Count
                /\ Ordered(t) \/ Granted(t) => t <= Count /\ ~Used(t)
                /\ ~(Ordered(t) /\ Granted(t))
            BY DEF Assigned
          <5>2. CASE t = u
            BY <5>1, <5>2, <4>4, <4>5, <2>u
          <5>3. CASE t # u
            BY <5>1, <5>3, <3>3, <4>6, <2>u
          <5> QED
            BY <5>2, <5>3
        <4> QED
          BY <3>3, <4>6, <4>7, <4>8 DEF Assigned
      <3>5. CASE UNCHANGED reply
        BY <3>5, <3>1, <3>3, <2>u, <1>o, AssignedFrame DEF Granted
      <3>6. ASSUME NEW name \in {"ModifyBearerResponse", "DeleteBearerRequest"}, reply' = Append(reply, Gtpc(name, 0, 0))
            PROVE  Assigned'
        <4>1. PICK n : n = Gtpc(name, 0, 0)
          OBVIOUS
        <4>2. n \in CoreMsgs /\ n.msg = name /\ reply' = Append(reply, n)
          BY <4>1, <3>6, GtpcTypes DEF CoreNames
        <4>3. /\ \A t \in Teids : Granted(t)' => Granted(t)
              /\ Once(reply', "CreateSessionResponse")
          BY <4>2, <1>t, <1>o, GivenGrows DEF Granted
        <4> QED
          BY <4>3, <3>1, <3>3, <2>u, AssignedFrame
      <3> QED
        BY <3>1, <3>4, <3>5, <3>6
    <2>5. CASE UNCHANGED Core \/ \E p \in Places : Creates(p) \/ Modifies(p) \/ Deletes(p)
      BY <2>5, <2>1 DEF Core, Creates, Modifies, Deletes, Sends
    <2>6. CASE MmeMoves \/ \E p \in Places : Acknowledges(p)
      BY <2>6, <2>2 DEF MmeMoves, Acknowledges
    <2> QED
      BY <1>2, <2>3, <2>4, <2>5, <2>6 DEF CoreStepped, CoreEffect
  <1> QED
    BY <1>1, <1>2

(***************************************************************************)
(* Sessions, as a whole.                                                   *)
(***************************************************************************)

(* Every step keeps the sessions.                                          *)
LEMMA SessionStep ==
    ASSUME TwoCells, Base, Support, SessionInv, Effects, CoreStepped, Base', Support'
    PROVE  SessionInv'
  <1>1. LinkStep
    BY LinksStep
  <1>2. AskerHolds /\ AskedAlone /\ AskedOnce /\ Assigned
    BY DEF SessionInv
  <1>3. Paired'
    BY <1>1, StaysPaired
  <1>4. AskerHolds'
    BY <1>1, <1>2, StaysAskerHolds
  <1>5. AskedAlone'
    BY <1>1, StaysAskedAlone
  <1>6. AskedOnce'
    BY <1>1, <1>2, StaysAskedOnce
  <1>7. Assigned'
    BY <1>1, <1>2, StaysAssigned
  <1> QED
    BY <1>3, <1>4, <1>5, <1>6, <1>7 DEF SessionInv

(* There is no session at first.                                           *)
LEMMA SessionInit == Init => SessionInv
  <1> SUFFICES ASSUME Init PROVE SessionInv
    OBVIOUS
  <1>1. \A p \in Places : \A t : ~Holds(p, t)
    BY DEF Init, Holds, NoContext
  <1>2. \A s, d \in Cells : s # d => \A i, t : ~Asks(s, d, i, t)
    BY DEF Init, Asks, Links
  <1>3. \A q, msg, t : q = <<>> => ~Given(q, msg, t) /\ Once(q, msg)
    BY DEF Given, Once
  <1>4. Paired
    BY <1>1 DEF Paired
  <1>5. AskerHolds /\ AskedAlone /\ AskedOnce
    BY <1>2 DEF AskerHolds, AskedAlone, AskedOnce
  <1>6. \A t : ~Used(t)
    BY <1>1, <1>2 DEF Used
  <1>7. s5 = <<>> /\ reply = <<>>
    BY DEF Init
  <1>8. Assigned
    BY <1>3, <1>6, <1>7 DEF Assigned, Ordered, Granted
  <1> QED
    BY <1>4, <1>5, <1>8 DEF SessionInv

(***************************************************************************)
(* The maps that are searched by TEID.                                     *)
(***************************************************************************)

\* A bearer is set up for downlink data from the SGW, or only for what the
\* source of a handover forwards.
Serves(p, t) == ctx[p].state \notin {"NONE", "HANDOVER_JOINING"} /\ ctx[p].teid = t
Expects(p, t) == ctx[p].state = "HANDOVER_JOINING" /\ ctx[p].teid = t

\* A cell has one context for a session.
Alone == \A p, q \in Places, t \in Teids : Holds(p, t) /\ Holds(q, t) /\ p.cell = q.cell => p = q

\* What the eNB finds for a TEID: of S1-U, of X2-U, and what is to be found
\* and the RNTIs they come from.
S1Leads == \A p \in Places, t \in Teids :
    app[p.cell].teidRnti[t] = p.rnti => Serves(p, t) /\ app[p.cell].rntiTeid[p.rnti] = t
X2Leads == \A p \in Places, t \in Teids : x2uTeidInfo[p.cell][t] = p.rnti => Holds(p, t)
IsFound == \A p \in Places, t \in Teids :
    /\ Serves(p, t) => app[p.cell].teidRnti[t] = p.rnti
    /\ Expects(p, t) => x2uTeidInfo[p.cell][t] = p.rnti
IsMutual == \A p \in Places, t \in Teids :
    app[p.cell].rntiTeid[p.rnti] = t => app[p.cell].teidRnti[t] = p.rnti
MapsInv == S1Leads /\ X2Leads /\ IsFound /\ IsMutual

\* What a step does to the maps: nothing; the context at p goes; its bearer is
\* set up; a handover to it is admitted.
MapsStill ==
    /\ \A c \in Cells : app'[c].teidRnti = app[c].teidRnti /\ app'[c].rntiTeid = app[c].rntiTeid
    /\ UNCHANGED x2uTeidInfo
    /\ \A p \in Places, t \in Teids : (Serves(p, t)' <=> Serves(p, t)) /\ (Expects(p, t)' <=> Expects(p, t))
Clears(p) == ctx[p].state # "NONE" /\ RemoveUe(p)
Bears(p) ==
    /\ \A q \in Places \ {p} : ctx'[q] = ctx[q]
    /\ ctx'[p].state \notin {"NONE", "HANDOVER_JOINING"} /\ ctx'[p].teid \in Teids \cup {0}
    /\ \A t \in Teids : ~Serves(p, t) /\ (Holds(p, t) => Holds(p, t)')
    /\ UNCHANGED x2uTeidInfo
    /\ \A c \in Cells \ {p.cell} : app'[c].teidRnti = app[c].teidRnti /\ app'[c].rntiTeid = app[c].rntiTeid
    /\ app'[p.cell].rntiTeid = [app[p.cell].rntiTeid EXCEPT ![p.rnti] = ctx'[p].teid]
    /\ app'[p.cell].teidRnti = [app[p.cell].teidRnti EXCEPT ![ctx'[p].teid] = p.rnti]
Welcomes(p) ==
    /\ \A q \in Places \ {p} : ctx'[q] = ctx[q]
    /\ ctx[p].state = "NONE" /\ ctx'[p].state = "HANDOVER_JOINING"
    /\ UNCHANGED app
    /\ ctx'[p].teid \in Teids => x2uTeidInfo[p.cell][ctx'[p].teid] = 0
    /\ x2uTeidInfo' = [x2uTeidInfo EXCEPT ![p.cell] =
           [t \in Teids |-> IF t = ctx'[p].teid THEN p.rnti ELSE @[t]]]
MapStep == MapsStill \/ \E p \in Places : Clears(p) \/ Bears(p) \/ Welcomes(p)

(* Two contexts of a session are in two cells.                             *)
LEMMA PairedAlone == Paired => Alone
  BY DEF Paired, Alone

(* The types of the maps.                                                  *)
LEMMA MapTypes ==
    ASSUME TypeInv
    PROVE  /\ ctx \in [Places -> Contexts] /\ app \in [Cells -> Maps]
           /\ x2uTeidInfo \in [Cells -> [Teids -> Rntis \cup {0}]]
           /\ \A c \in Cells : /\ app[c].teidRnti \in [Teids -> Rntis \cup {0}]
                               /\ app[c].rntiTeid \in [Rntis -> Teids \cup {0}]
  <1>1. app \in [Cells -> Maps] /\ x2uTeidInfo \in [Cells -> [Teids -> Rntis \cup {0}]] /\ ctx \in [Places -> Contexts]
    BY DEF TypeInv, CellsTyped
  <1> QED
    BY <1>1 DEF Maps

(* What is held is served or expected.                                     *)
LEMMA HoldsIs ==
    ASSUME NEW p, NEW t
    PROVE  Holds(p, t) <=> Serves(p, t) \/ Expects(p, t)
  BY DEF Holds, Serves, Expects

(* A context that goes leaves no entry behind.                             *)
LEMMA ClearsMaps ==
    ASSUME TypeInv, Alone, MapsInv, NEW p \in Places, Clears(p)
    PROVE  MapsInv'
  <1>t. /\ ctx \in [Places -> Contexts] /\ app \in [Cells -> Maps] /\ p.cell \in Cells /\ p.rnti \in Rntis
        /\ x2uTeidInfo \in [Cells -> [Teids -> Rntis \cup {0}]]
        /\ \A c \in Cells : /\ app[c].teidRnti \in [Teids -> Rntis \cup {0}]
                            /\ app[c].rntiTeid \in [Rntis -> Teids \cup {0}]
    BY MapTypes, PlaceTypes
  <1>p. \A q \in Places : q.cell \in Cells /\ q.rnti \in Rntis /\ (q.cell = p.cell /\ q.rnti = p.rnti => q = p)
    BY PlaceTypes
  <1>n. 0 \notin Rntis /\ 0 \notin Teids
    BY PlaceTypes
  <1>k. PICK k : k = app[p.cell].rntiTeid[p.rnti]
    OBVIOUS
  <1>1. (\A q \in Places \ {p} : ctx'[q] = ctx[q]) /\ ctx'[p].state = "NONE"
    BY <1>t, PlaceTypes DEF Clears, RemoveUe
  <1>2. \A q \in Places, t \in Teids :
           /\ Serves(q, t)' <=> q # p /\ Serves(q, t)
           /\ Expects(q, t)' <=> q # p /\ Expects(q, t)
           /\ Holds(q, t)' <=> q # p /\ Holds(q, t)
    BY <1>1 DEF Serves, Expects, Holds
  <1>3. \A c \in Cells, t \in Teids :
           x2uTeidInfo'[c][t] = IF c = p.cell /\ t = ctx[p].teid THEN 0 ELSE x2uTeidInfo[c][t]
    BY <1>t DEF Clears, RemoveUe
  <1>4. /\ \A c \in Cells \ {p.cell} : app'[c] = app[c]
        /\ app'[p.cell] = UeContextReleased(app[p.cell], p.rnti)
    BY <1>t DEF Clears, RemoveUe
  <1>a. PICK a \in Maps : a = app[p.cell]
    BY <1>t
  <1>5. /\ app'[p.cell].teidRnti = [t \in Teids |-> IF t = k THEN 0 ELSE a.teidRnti[t]]
        /\ app'[p.cell].rntiTeid = [a.rntiTeid EXCEPT ![p.rnti] = 0]
    <2>1. a.rntiTeid[p.rnti] = k
      BY <1>a, <1>k
    <2> QED
      BY <1>4, <1>a, <2>1 DEF UeContextReleased, Maps
  <1>6. \A c \in Cells, t \in Teids :
           app'[c].teidRnti[t] = IF c = p.cell /\ t = k THEN 0 ELSE app[c].teidRnti[t]
    BY <1>4, <1>5, <1>a
  <1>7. \A c \in Cells, r \in Rntis :
           app'[c].rntiTeid[r] = IF c = p.cell /\ r = p.rnti THEN 0 ELSE app[c].rntiTeid[r]
    BY <1>t, <1>4, <1>5, <1>a
  <1>8. S1Leads'
    <2> SUFFICES ASSUME NEW q \in Places, NEW t \in Teids, app'[q.cell].teidRnti[t] = q.rnti
                 PROVE  Serves(q, t)' /\ app'[q.cell].rntiTeid[q.rnti] = t
      BY DEF S1Leads
    <2>1. app[q.cell].teidRnti[t] = q.rnti /\ ~(q.cell = p.cell /\ t = k)
      BY <1>6, <1>p, <1>n
    <2>2. Serves(q, t) /\ app[q.cell].rntiTeid[q.rnti] = t
      BY <2>1 DEF MapsInv, S1Leads
    <2>3. q # p
      BY <2>1, <2>2, <1>k
    <2> QED
      BY <2>2, <2>3, <1>2, <1>7, <1>p
  <1>9. X2Leads'
    <2> SUFFICES ASSUME NEW q \in Places, NEW t \in Teids, x2uTeidInfo'[q.cell][t] = q.rnti
                 PROVE  Holds(q, t)'
      BY DEF X2Leads
    <2>1. x2uTeidInfo[q.cell][t] = q.rnti /\ ~(q.cell = p.cell /\ t = ctx[p].teid)
      BY <1>3, <1>p, <1>n
    <2>2. Holds(q, t)
      BY <2>1 DEF MapsInv, X2Leads
    <2>3. q # p
      BY <2>1, <2>2 DEF Holds
    <2> QED
      BY <2>2, <2>3, <1>2
  <1>10. IsFound'
    <2> SUFFICES ASSUME NEW q \in Places, NEW t \in Teids
                 PROVE  /\ Serves(q, t)' => app'[q.cell].teidRnti[t] = q.rnti
                        /\ Expects(q, t)' => x2uTeidInfo'[q.cell][t] = q.rnti
      BY DEF IsFound
    <2>1. ASSUME Serves(q, t)' PROVE app'[q.cell].teidRnti[t] = q.rnti
      <3>1. q # p /\ Serves(q, t) /\ app[q.cell].teidRnti[t] = q.rnti
        BY <2>1, <1>2 DEF MapsInv, IsFound
      <3>2. CASE q.cell = p.cell /\ t = k
        <4>1. app[p.cell].teidRnti[t] = p.rnti
          BY <3>2, <1>k DEF MapsInv, IsMutual
        <4> QED
          BY <3>1, <3>2, <4>1, <1>p
      <3> QED
        BY <3>1, <3>2, <1>6, <1>p
    <2>2. ASSUME Expects(q, t)' PROVE x2uTeidInfo'[q.cell][t] = q.rnti
      <3>1. q # p /\ Holds(q, t) /\ x2uTeidInfo[q.cell][t] = q.rnti
        BY <2>2, <1>2, HoldsIs DEF MapsInv, IsFound
      <3>2. CASE q.cell = p.cell /\ t = ctx[p].teid
        <4>1. Holds(p, t)
          BY <3>2 DEF Clears, Holds
        <4> QED
          BY <3>1, <3>2, <4>1 DEF Alone
      <3> QED
        BY <3>1, <3>2, <1>3, <1>p
    <2> QED
      BY <2>1, <2>2
  <1>11. IsMutual'
    <2> SUFFICES ASSUME NEW q \in Places, NEW t \in Teids, app'[q.cell].rntiTeid[q.rnti] = t
                 PROVE  app'[q.cell].teidRnti[t] = q.rnti
      BY DEF IsMutual
    <2>1. app[q.cell].rntiTeid[q.rnti] = t /\ q # p
      BY <1>7, <1>p, <1>n
    <2>2. app[q.cell].teidRnti[t] = q.rnti
      BY <2>1 DEF MapsInv, IsMutual
    <2>3. CASE q.cell = p.cell /\ t = k
      <3>1. app[p.cell].teidRnti[t] = p.rnti
        BY <2>3, <1>k DEF MapsInv, IsMutual
      <3> QED
        BY <3>1, <2>1, <2>2, <2>3, <1>p
    <2> QED
      BY <2>2, <2>3, <1>6, <1>p
  <1> QED
    BY <1>8, <1>9, <1>10, <1>11 DEF MapsInv

(* A bearer that is set up is found, and nothing else is lost.             *)
LEMMA BearsMaps ==
    ASSUME TypeInv, Alone', MapsInv, NEW p \in Places, Bears(p)
    PROVE  MapsInv'
  <1>t. /\ p.cell \in Cells /\ p.rnti \in Rntis
        /\ \A c \in Cells : /\ app[c].teidRnti \in [Teids -> Rntis \cup {0}]
                            /\ app[c].rntiTeid \in [Rntis -> Teids \cup {0}]
    BY MapTypes, PlaceTypes
  <1>p. \A q \in Places : q.cell \in Cells /\ q.rnti \in Rntis /\ (q.cell = p.cell /\ q.rnti = p.rnti => q = p)
    BY PlaceTypes
  <1>n. 0 \notin Rntis /\ 0 \notin Teids
    BY PlaceTypes
  <1>k. PICK k \in Teids \cup {0} : k = ctx'[p].teid
    BY DEF Bears
  <1>1. \A q \in Places \ {p}, t \in Teids :
           /\ Serves(q, t)' <=> Serves(q, t)
           /\ Expects(q, t)' <=> Expects(q, t)
           /\ Holds(q, t)' <=> Holds(q, t)
    BY DEF Bears, Serves, Expects, Holds
  <1>2. \A t \in Teids : /\ Serves(p, t)' <=> t = k
                         /\ ~Expects(p, t)' /\ ~Serves(p, t)
                         /\ Holds(p, t)' <=> t = k
                         /\ Holds(p, t) => Holds(p, t)'
    BY <1>k DEF Bears, Serves, Expects, Holds
  <1>3. /\ app'[p.cell].rntiTeid = [app[p.cell].rntiTeid EXCEPT ![p.rnti] = k]
        /\ app'[p.cell].teidRnti = [app[p.cell].teidRnti EXCEPT ![k] = p.rnti]
        /\ \A c \in Cells \ {p.cell} : app'[c].teidRnti = app[c].teidRnti /\ app'[c].rntiTeid = app[c].rntiTeid
        /\ UNCHANGED x2uTeidInfo
    BY <1>k DEF Bears
  <1>4. \A c \in Cells, t \in Teids :
           app'[c].teidRnti[t] = IF c = p.cell /\ t = k THEN p.rnti ELSE app[c].teidRnti[t]
    BY <1>t, <1>3
  <1>5. \A c \in Cells, r \in Rntis :
           app'[c].rntiTeid[r] = IF c = p.cell /\ r = p.rnti THEN k ELSE app[c].rntiTeid[r]
    BY <1>t, <1>3
  <1>6. \A q \in Places, t \in Teids : q # p /\ q.cell = p.cell /\ Holds(q, t) => t # k
    BY <1>1, <1>2 DEF Alone
  <1>8. S1Leads'
    <2> SUFFICES ASSUME NEW q \in Places, NEW t \in Teids, app'[q.cell].teidRnti[t] = q.rnti
                 PROVE  Serves(q, t)' /\ app'[q.cell].rntiTeid[q.rnti] = t
      BY DEF S1Leads
    <2>1. CASE q.cell = p.cell /\ t = k
      <3>1. q = p
        BY <2>1, <1>4, <1>p
      <3> QED
        BY <2>1, <3>1, <1>2, <1>5, <1>t
    <2>2. CASE ~(q.cell = p.cell /\ t = k)
      <3>1. app[q.cell].teidRnti[t] = q.rnti
        BY <2>2, <1>4, <1>p
      <3>2. Serves(q, t) /\ app[q.cell].rntiTeid[q.rnti] = t
        BY <3>1 DEF MapsInv, S1Leads
      <3>3. q # p
        BY <3>2, <1>2
      <3> QED
        BY <3>2, <3>3, <1>1, <1>5, <1>p
    <2> QED
      BY <2>1, <2>2
  <1>9. X2Leads'
    <2> SUFFICES ASSUME NEW q \in Places, NEW t \in Teids, x2uTeidInfo'[q.cell][t] = q.rnti
                 PROVE  Holds(q, t)'
      BY DEF X2Leads
    <2>1. Holds(q, t)
      BY <1>3 DEF MapsInv, X2Leads
    <2> QED
      BY <2>1, <1>1, <1>2
  <1>10. IsFound'
    <2> SUFFICES ASSUME NEW q \in Places, NEW t \in Teids
                 PROVE  /\ Serves(q, t)' => app'[q.cell].teidRnti[t] = q.rnti
                        /\ Expects(q, t)' => x2uTeidInfo'[q.cell][t] = q.rnti
      BY DEF IsFound
    <2>1. ASSUME Serves(q, t)' PROVE app'[q.cell].teidRnti[t] = q.rnti
      <3>1. CASE q = p
        BY <2>1, <3>1, <1>2, <1>4, <1>t
      <3>2. CASE q # p
        <4>1. Serves(q, t) /\ app[q.cell].teidRnti[t] = q.rnti
          BY <2>1, <3>2, <1>1 DEF MapsInv, IsFound
        <4>2. ~(q.cell = p.cell /\ t = k)
          BY <3>2, <4>1, <1>6, HoldsIs
        <4> QED
          BY <4>1, <4>2, <1>4, <1>p
      <3> QED
        BY <3>1, <3>2
    <2>2. ASSUME Expects(q, t)' PROVE x2uTeidInfo'[q.cell][t] = q.rnti
      <3>1. Expects(q, t)
        BY <2>2, <1>1, <1>2
      <3> QED
        BY <3>1, <1>3 DEF MapsInv, IsFound
    <2> QED
      BY <2>1, <2>2
  <1>11. IsMutual'
    <2> SUFFICES ASSUME NEW q \in Places, NEW t \in Teids, app'[q.cell].rntiTeid[q.rnti] = t
                 PROVE  app'[q.cell].teidRnti[t] = q.rnti
      BY DEF IsMutual
    <2>1. CASE q = p
      BY <2>1, <1>4, <1>5, <1>t
    <2>2. CASE q # p
      <3>1. app[q.cell].rntiTeid[q.rnti] = t
        BY <2>2, <1>5, <1>p
      <3>2. app[q.cell].teidRnti[t] = q.rnti
        BY <3>1 DEF MapsInv, IsMutual
      <3>3. Holds(q, t)
        BY <3>2, HoldsIs DEF MapsInv, S1Leads
      <3> QED
        BY <2>2, <3>2, <3>3, <1>4, <1>6, <1>p
    <2> QED
      BY <2>1, <2>2
  <1> QED
    BY <1>8, <1>9, <1>10, <1>11 DEF MapsInv

(* A context that is admitted for a handover takes nobody's entry.         *)
LEMMA WelcomesMaps ==
    ASSUME TypeInv, MapsInv, NEW p \in Places, Welcomes(p)
    PROVE  MapsInv'
  <1>t. /\ p.cell \in Cells /\ p.rnti \in Rntis
        /\ x2uTeidInfo \in [Cells -> [Teids -> Rntis \cup {0}]]
    BY MapTypes, PlaceTypes
  <1>p. \A q \in Places : q.cell \in Cells /\ q.rnti \in Rntis /\ (q.cell = p.cell /\ q.rnti = p.rnti => q = p)
    BY PlaceTypes
  <1>n. 0 \notin Rntis /\ 0 \notin Teids
    BY PlaceTypes
  <1>k. PICK k : k = ctx'[p].teid
    OBVIOUS
  <1>1. \A q \in Places \ {p}, t \in Teids :
           /\ Serves(q, t)' <=> Serves(q, t)
           /\ Expects(q, t)' <=> Expects(q, t)
           /\ Holds(q, t)' <=> Holds(q, t)
    BY DEF Welcomes, Serves, Expects, Holds
  <1>2. \A t \in Teids : /\ ~Serves(p, t)' /\ ~Serves(p, t) /\ ~Holds(p, t)
                         /\ Expects(p, t)' <=> t = k
                         /\ Holds(p, t)' <=> t = k
    BY <1>k DEF Welcomes, Serves, Expects, Holds
  <1>3. /\ UNCHANGED app
        /\ k \in Teids => x2uTeidInfo[p.cell][k] = 0
        /\ x2uTeidInfo' = [x2uTeidInfo EXCEPT ![p.cell] = [t \in Teids |-> IF t = k THEN p.rnti ELSE @[t]]]
    BY <1>k DEF Welcomes
  <1>4. \A c \in Cells, t \in Teids :
           x2uTeidInfo'[c][t] = IF c = p.cell /\ t = k THEN p.rnti ELSE x2uTeidInfo[c][t]
    BY <1>t, <1>3
  <1>8. S1Leads' /\ IsMutual'
    <2>1. \A q \in Places, t \in Teids : app[q.cell].teidRnti[t] = q.rnti =>
             Serves(q, t)' /\ app[q.cell].rntiTeid[q.rnti] = t
      BY <1>1, <1>2 DEF MapsInv, S1Leads
    <2> QED
      BY <2>1, <1>3 DEF MapsInv, S1Leads, IsMutual
  <1>9. X2Leads'
    <2> SUFFICES ASSUME NEW q \in Places, NEW t \in Teids, x2uTeidInfo'[q.cell][t] = q.rnti
                 PROVE  Holds(q, t)'
      BY DEF X2Leads
    <2>1. CASE q.cell = p.cell /\ t = k
      <3>1. q = p
        BY <2>1, <1>4, <1>p
      <3> QED
        BY <2>1, <3>1, <1>2
    <2>2. CASE ~(q.cell = p.cell /\ t = k)
      <3>1. x2uTeidInfo[q.cell][t] = q.rnti
        BY <2>2, <1>4, <1>p
      <3>2. Holds(q, t)
        BY <3>1 DEF MapsInv, X2Leads
      <3> QED
        BY <3>2, <1>1, <1>2
    <2> QED
      BY <2>1, <2>2
  <1>10. IsFound'
    <2> SUFFICES ASSUME NEW q \in Places, NEW t \in Teids
                 PROVE  /\ Serves(q, t)' => app'[q.cell].teidRnti[t] = q.rnti
                        /\ Expects(q, t)' => x2uTeidInfo'[q.cell][t] = q.rnti
      BY DEF IsFound
    <2>1. ASSUME Serves(q, t)' PROVE app'[q.cell].teidRnti[t] = q.rnti
      <3>1. Serves(q, t)
        BY <2>1, <1>1, <1>2
      <3> QED
        BY <3>1, <1>3 DEF MapsInv, IsFound
    <2>2. ASSUME Expects(q, t)' PROVE x2uTeidInfo'[q.cell][t] = q.rnti
      <3>1. CASE q = p
        BY <2>2, <3>1, <1>2, <1>4, <1>t
      <3>2. CASE q # p
        <4>1. x2uTeidInfo[q.cell][t] = q.rnti
          BY <2>2, <3>2, <1>1 DEF MapsInv, IsFound
        <4>2. ~(q.cell = p.cell /\ t = k)
          BY <4>1, <1>3, <1>n, <1>p
        <4> QED
          BY <4>1, <4>2, <1>4, <1>p
      <3> QED
        BY <3>1, <3>2
    <2> QED
      BY <2>1, <2>2
  <1> QED
    BY <1>8, <1>9, <1>10 DEF MapsInv

(* Every step keeps the maps, while a cell has one context for a session.  *)
LEMMA MapsStep ==
    ASSUME TypeInv, Alone, Alone', MapsInv, MapStep
    PROVE  MapsInv'
  <1>1. ASSUME MapsStill PROVE MapsInv'
    <2>1. \A p \in Places, t \in Teids :
             /\ p.cell \in Cells
             /\ Serves(p, t)' <=> Serves(p, t)
             /\ Expects(p, t)' <=> Expects(p, t)
             /\ app'[p.cell].teidRnti = app[p.cell].teidRnti /\ app'[p.cell].rntiTeid = app[p.cell].rntiTeid
      BY <1>1, PlaceTypes DEF MapsStill
    <2>2. UNCHANGED x2uTeidInfo
      BY <1>1 DEF MapsStill
    <2>3. \A p \in Places, t \in Teids : Holds(p, t)' <=> Holds(p, t)
      BY <2>1 DEF Holds, Serves, Expects
    <2>4. S1Leads'
      BY <2>1 DEF MapsInv, S1Leads
    <2>5. X2Leads'
      BY <2>2, <2>3 DEF MapsInv, X2Leads
    <2>6. IsFound'
      BY <2>1, <2>2 DEF MapsInv, IsFound
    <2>7. IsMutual'
      BY <2>1 DEF MapsInv, IsMutual
    <2> QED
      BY <2>4, <2>5, <2>6, <2>7 DEF MapsInv
  <1>2. ASSUME NEW p \in Places, Clears(p) \/ Bears(p) \/ Welcomes(p) PROVE MapsInv'
    BY <1>2, ClearsMaps, BearsMaps, WelcomesMaps
  <1> QED
    BY <1>1, <1>2 DEF MapStep

(* The maps are empty at first.                                            *)
LEMMA MapsInit == Init => MapsInv
  <1> SUFFICES ASSUME Init PROVE MapsInv
    OBVIOUS
  <1>1. \A p \in Places, t \in Teids : ~Serves(p, t) /\ ~Expects(p, t)
    BY DEF Init, Serves, Expects, NoContext
  <1>2. \A p \in Places, t \in Teids :
           /\ app[p.cell].teidRnti[t] = 0 /\ app[p.cell].rntiTeid[p.rnti] = 0 /\ x2uTeidInfo[p.cell][t] = 0
           /\ p.rnti # 0 /\ t # 0
    BY PlaceTypes DEF Init
  <1> QED
    BY <1>1, <1>2 DEF MapsInv, S1Leads, X2Leads, IsFound, IsMutual

(* What the maps lead to, as the run checks it.                            *)
LEMMA MapsSuffice == TypeInv /\ MapsInv => BearerMapsAgree
  <1> SUFFICES ASSUME TypeInv, MapsInv PROVE BearerMapsAgree
    OBVIOUS
  <1>t. /\ x2uTeidInfo \in [Cells -> [Teids -> Rntis \cup {0}]] /\ ctx \in [Places -> Contexts]
        /\ \A c \in Cells : app[c].teidRnti \in [Teids -> Rntis \cup {0}]
    BY MapTypes
  <1>1. ASSUME NEW c \in Cells, NEW t \in Teids, NEW s, s = [cell |-> c, rnti |-> app[c].teidRnti[t]], s.rnti # 0
        PROVE  /\ HasUeManager(s) /\ ctx[s].teid = t /\ ctx[s].state # "HANDOVER_JOINING"
               /\ app[c].rntiTeid[s.rnti] = t
    <2>1. s \in Places /\ s.cell = c /\ app[c].teidRnti[t] = s.rnti
      BY <1>1, <1>t DEF Places
    <2>2. Serves(s, t) /\ app[c].rntiTeid[s.rnti] = t
      BY <2>1 DEF MapsInv, S1Leads
    <2> QED
      BY <2>1, <2>2 DEF Serves, HasUeManager
  <1>2. ASSUME NEW c \in Cells, NEW t \in Teids, NEW s, s = [cell |-> c, rnti |-> x2uTeidInfo[c][t]], s.rnti # 0
        PROVE  HasUeManager(s) /\ ctx[s].teid = t
    <2>1. s \in Places /\ s.cell = c /\ x2uTeidInfo[c][t] = s.rnti
      BY <1>2, <1>t DEF Places
    <2>2. Holds(s, t)
      BY <2>1 DEF MapsInv, X2Leads
    <2> QED
      BY <2>1, <2>2 DEF Holds, HasUeManager
  <1>3. ASSUME NEW p \in Places, HasUeManager(p), ctx[p].teid # 0
        PROVE  p.rnti = IF ctx[p].state = "HANDOVER_JOINING" THEN x2uTeidInfo[p.cell][ctx[p].teid]
                                                             ELSE app[p.cell].teidRnti[ctx[p].teid]
    <2>1. PICK t \in Teids : t = ctx[p].teid
      BY <1>3, <1>t DEF Contexts
    <2>2. Serves(p, t) \/ Expects(p, t)
      BY <1>3, <2>1 DEF HasUeManager, Serves, Expects
    <2>3. /\ Serves(p, t) => app[p.cell].teidRnti[t] = p.rnti
          /\ Expects(p, t) => x2uTeidInfo[p.cell][t] = p.rnti
      BY DEF MapsInv, IsFound
    <2>4. /\ ctx[p].state = "HANDOVER_JOINING" => x2uTeidInfo[p.cell][t] = p.rnti
          /\ ctx[p].state # "HANDOVER_JOINING" => app[p.cell].teidRnti[t] = p.rnti
      BY <2>2, <2>3 DEF Serves, Expects
    <2> QED
      BY <2>1, <2>4
  <1> QED
    BY <1>1, <1>2, <1>3 DEF BearerMapsAgree

(***************************************************************************)
(* What each step does to the maps.                                        *)
(***************************************************************************)

(* A step that leaves the contexts and the maps alone.                     *)
LEMMA MapsAlone ==
    ASSUME UNCHANGED <<ctx, x2uTeidInfo, app>>
    PROVE  MapStep
  BY DEF MapStep, MapsStill, Serves, Expects

(* A program that ends.                                                    *)
LEMMA AbortMaps ==
    ASSUME NEW reason, Abort(reason)
    PROVE  MapStep
  BY MapsAlone DEF Abort

(* A context that goes.                                                    *)
LEMMA RemoveMaps ==
    ASSUME NEW p, HasUeManager(p) \/ (p \in Places /\ ctx[p].state # "NONE"), RemoveUe(p)
    PROVE  MapStep
  BY DEF MapStep, Clears, HasUeManager

(* A context that goes on with its bearer, or that starts without one.     *)
LEMMA SteadyMaps ==
    ASSUME Base, NEW p \in Places, NEW x, ctx' = [ctx EXCEPT ![p] = x], UNCHANGED x2uTeidInfo,
           \A c \in Cells : app'[c].teidRnti = app[c].teidRnti /\ app'[c].rntiTeid = app[c].rntiTeid,
           \/ /\ x.teid = ctx[p].teid
              /\ \/ {x.state, ctx[p].state} \cap {"NONE", "HANDOVER_JOINING"} = {}
                 \/ x.state = ctx[p].state
           \/ ctx[p].state = "NONE" /\ x.teid = 0
    PROVE  MapStep
  <1>t. ctx \in [Places -> Contexts] /\ 0 \notin Teids
    BY PlaceTypes DEF Base, TypeInv, CellsTyped
  <1>1. \A q \in Places : ctx'[q] = IF q = p THEN x ELSE ctx[q]
    BY <1>t
  <1>2. \A t \in Teids : (Serves(p, t)' <=> Serves(p, t)) /\ (Expects(p, t)' <=> Expects(p, t))
    BY <1>1, <1>t DEF Serves, Expects
  <1>3. \A q \in Places, t \in Teids : (Serves(q, t)' <=> Serves(q, t)) /\ (Expects(q, t)' <=> Expects(q, t))
    BY <1>1, <1>2 DEF Serves, Expects
  <1> QED
    BY <1>3 DEF MapStep, MapsStill

(* A bearer is set up towards the SGW for a context.                       *)
LEMMA BearingMaps ==
    ASSUME Base, NEW p \in Places, NEW x, NEW k \in Teids \cup {0}, ctx' = [ctx EXCEPT ![p] = x],
           x.teid = k, x.state \notin {"NONE", "HANDOVER_JOINING"}, UNCHANGED x2uTeidInfo,
           \/ ctx[p].state = "HANDOVER_JOINING" /\ ctx[p].teid = k
           \/ ctx[p].teid = 0,
           NEW f, \A c \in Cells \ {p.cell} : f[c] = app[c],
           f[p.cell].rntiTeid = app[p.cell].rntiTeid, f[p.cell].teidRnti = app[p.cell].teidRnti,
           f \in [Cells -> Maps],
           app' = [f EXCEPT ![p.cell].rntiTeid[p.rnti] = k, ![p.cell].teidRnti[k] = p.rnti]
    PROVE  MapStep
  <1>t. ctx \in [Places -> Contexts] /\ 0 \notin Teids /\ p.cell \in Cells
    BY PlaceTypes DEF Base, TypeInv, CellsTyped
  <1>1. (\A q \in Places \ {p} : ctx'[q] = ctx[q]) /\ ctx'[p] = x
    BY <1>t
  <1>2. \A t \in Teids : ~Serves(p, t) /\ (Holds(p, t) => Holds(p, t)')
    BY <1>1, <1>t DEF Serves, Holds
  <1>a. PICK a \in Maps : a = f[p.cell]
    BY <1>t
  <1>3. (\A c \in Cells \ {p.cell} : app'[c] = f[c])
        /\ app'[p.cell] = [a EXCEPT !.rntiTeid[p.rnti] = k, !.teidRnti[k] = p.rnti]
    BY <1>t, <1>a
  <1>4. /\ app'[p.cell].rntiTeid = [a.rntiTeid EXCEPT ![p.rnti] = k]
        /\ app'[p.cell].teidRnti = [a.teidRnti EXCEPT ![k] = p.rnti]
    <2>b. PICK b : b = [a EXCEPT !.rntiTeid[p.rnti] = k]
      OBVIOUS
    <2>r. a.rntiTeid \in [Rntis -> Teids \cup {0}] /\ p.rnti \in Rntis
      BY PlaceTypes DEF Maps
    <2>1. [a.rntiTeid EXCEPT ![p.rnti] = k] \in [Rntis -> Teids \cup {0}]
      BY <2>r
    <2>2. /\ b \in Maps /\ b.teidRnti = a.teidRnti
          /\ b.rntiTeid = [a.rntiTeid EXCEPT ![p.rnti] = k]
      BY <2>b, <2>1 DEF Maps
    <2>3. app'[p.cell] = [b EXCEPT !.teidRnti[k] = p.rnti]
      BY <1>3, <2>b
    <2>4. app'[p.cell].rntiTeid = b.rntiTeid /\ app'[p.cell].teidRnti = [b.teidRnti EXCEPT ![k] = p.rnti]
      <3>1. b.teidRnti \in [Teids -> Rntis \cup {0}] /\ p.rnti \in Rntis
        BY <2>2, PlaceTypes DEF Maps
      <3>2. [b.teidRnti EXCEPT ![k] = p.rnti] \in [Teids -> Rntis \cup {0}]
        BY <3>1
      <3>e. PICK e \in [Teids -> Rntis \cup {0}] : e = [b.teidRnti EXCEPT ![k] = p.rnti]
        BY <3>2
      <3>3. app'[p.cell] = [b EXCEPT !.teidRnti = e]
        BY <2>3, <3>e
      <3>d. PICK d : d = [b EXCEPT !.teidRnti = e]
        OBVIOUS
      <3>b. b \in Maps
        BY <2>2
      <3>5. d.rntiTeid = b.rntiTeid /\ d.teidRnti = e
        BY <3>b, <3>d DEF Maps
      <3>4. app'[p.cell].rntiTeid = b.rntiTeid /\ app'[p.cell].teidRnti = e
        BY <3>3, <3>d, <3>5
      <3> QED
        BY <3>4, <3>e
    <2> QED
      BY <2>2, <2>4
  <1>5. /\ app'[p.cell].rntiTeid = [app[p.cell].rntiTeid EXCEPT ![p.rnti] = k]
        /\ app'[p.cell].teidRnti = [app[p.cell].teidRnti EXCEPT ![k] = p.rnti]
    BY <1>4, <1>a
  <1>6. ctx'[p].teid = k /\ ctx'[p].state \notin {"NONE", "HANDOVER_JOINING"}
    BY <1>1
  <1>7. Bears(p)
    BY <1>1, <1>2, <1>3, <1>5, <1>6 DEF Bears
  <1> QED
    BY <1>7 DEF MapStep

(* The UE on its own.                                                      *)
LEMMA UeMaps ==
    ASSUME Base, UeStep
    PROVE  MapStep
  <1>t. /\ lastRnti \in [Cells -> Rntis \cup {0}] /\ TypeInv
        /\ ue.state = "IDLE_RANDOM_ACCESS" => ue.at.cell \in Cells
        /\ ue.state = "CONNECTED_HANDOVER" => ue.at \in Places
    BY DEF Base, TypeInv, CellsTyped, UeTyped
  <1>f. ASSUME NEW c \in Cells, ~NoRntiLeft(c), UNCHANGED <<x2uTeidInfo, app>>,
               ctx' = [ctx EXCEPT ![NextPlace(c)] = NewContext("INITIAL_RANDOM_ACCESS", Nowhere)],
               lastRnti' = [lastRnti EXCEPT ![NextPlace(c).cell] = NextPlace(c).rnti]
        PROVE  MapStep
    <2>0. PICK p : p = NextPlace(c)
      OBVIOUS
    <2>x. PICK x : x = NewContext("INITIAL_RANDOM_ACCESS", Nowhere)
      OBVIOUS
    <2>1. p \in Places /\ p.cell = c /\ p.rnti = lastRnti[c] + 1
      BY <1>f, <1>t, <2>0, NextPlaceTypes
    <2>2. x.teid = 0
      BY <2>x DEF NewContext, NoContext
    <2>3. ctx' = [ctx EXCEPT ![p] = x] /\ Fresh(p)
      BY <1>f, <2>0, <2>x, <2>1 DEF Fresh
    <2>4. ~Known(p)
      BY <1>t, <2>3, FreshFacts
    <2>5. ctx[p].state = "NONE"
      BY <2>1, <2>4 DEF Base, Allocated, CtxAllocated
    <2> QED
      BY <1>f, <2>1, <2>2, <2>3, <2>5, SteadyMaps
  <1>1. ASSUME NEW c \in Cells, SelectCell(c) PROVE MapStep
    BY <1>1, MapsAlone DEF SelectCell
  <1>2. ASSUME RandomAccess PROVE MapStep
    BY <1>2, <1>t, <1>f DEF RandomAccess
  <1>3. ASSUME HandoverRandomAccess PROVE MapStep
    <2>1. CASE HasUeManager(ue.at)
      BY <1>3, <2>1, MapsAlone DEF HandoverRandomAccess
    <2>2. CASE ~HasUeManager(ue.at)
      <3>1. ue.at.cell \in Cells
        BY <1>3, <1>t, PlaceTypes DEF HandoverRandomAccess
      <3> QED
        BY <1>3, <2>2, <3>1, <1>f DEF HandoverRandomAccess
    <2> QED
      BY <2>1, <2>2
  <1>4. ASSUME HandoverRandomAccessFailed \/ RadioLinkFailure \/ ConnectionTimeout PROVE MapStep
    BY <1>4, MapsAlone DEF HandoverRandomAccessFailed, RadioLinkFailure, ConnectionTimeout
  <1> QED
    BY <1>1, <1>2, <1>3, <1>4 DEF UeStep

(* RRC messages to the UE, and those that are lost.                        *)
LEMMA DownMaps ==
    ASSUME NEW ch \in Channels,
           \/ RecvRrcConnectionSetup(ch) \/ RecvRrcConnectionReject(ch)
           \/ RecvHandoverCommand(ch) \/ RecvReconfiguration(ch)
           \/ RecvRrcConnectionRelease \/ LoseInTheAir(ch)
    PROVE  MapStep
  <1>1. CASE RecvRrcConnectionSetup(ch)
    BY <1>1, MapsAlone, AbortMaps DEF RecvRrcConnectionSetup
  <1>2. CASE RecvHandoverCommand(ch)
    BY <1>2, MapsAlone, AbortMaps DEF RecvHandoverCommand
  <1>3. CASE RecvReconfiguration(ch)
    BY <1>3, MapsAlone, AbortMaps DEF RecvReconfiguration
  <1>4. CASE RecvRrcConnectionReject(ch) \/ RecvRrcConnectionRelease \/ LoseInTheAir(ch)
    BY <1>4, MapsAlone DEF RecvRrcConnectionReject, RecvRrcConnectionRelease, LoseInTheAir
  <1> QED
    BY <1>1, <1>2, <1>3, <1>4

(* RRC messages to the eNB.                                                *)
LEMMA UpMaps ==
    ASSUME Base, NEW ch \in Channels,
           \/ \E admit \in BOOLEAN : RecvRrcConnectionRequest(ch, admit)
           \/ RecvRrcConnectionSetupCompleted(ch)
           \/ RecvReconfigurationCompleted(ch)
    PROVE  MapStep
  <1>t. ctx \in [Places -> Contexts] /\ TypeInv /\ app \in [Cells -> Maps]
    BY DEF Base, TypeInv, CellsTyped
  <1>p. PICK p : p = Head(rrc[ch]).at
    OBVIOUS
  <1>a. ASSUME NEW msg, NextRrc(ch, msg) PROVE p \in Places /\ p.cell \in Cells /\ ctx[p] \in Contexts
    BY <1>a, <1>t, <1>p, NextRrcTypes, PlaceTypes
  <1>k. ASSUME UnknownRnti(ch) PROVE MapStep
    BY <1>k, AbortMaps, MapsAlone DEF UnknownRnti
  <1>1. ASSUME NEW admit \in BOOLEAN, RecvRrcConnectionRequest(ch, admit) PROVE MapStep
    <2>1. p \in Places /\ ctx[p] \in Contexts
      BY <1>1, <1>a DEF RecvRrcConnectionRequest
    <2>2. CASE ~(HasUeManager(p) /\ ctx[p].state = "INITIAL_RANDOM_ACCESS")
      BY <1>1, <1>p, <2>2, <1>k, AbortMaps DEF RecvRrcConnectionRequest
    <2>3. CASE HasUeManager(p) /\ ctx[p].state = "INITIAL_RANDOM_ACCESS"
      <3>s. PICK st : st = IF admit THEN "CONNECTION_SETUP" ELSE "CONNECTION_REJECTED"
        OBVIOUS
      <3>i. PICK ti : ti = IF admit THEN {"setup"} ELSE {"rejected"}
        OBVIOUS
      <3>1. ctx' = [ctx EXCEPT ![p].state = st, ![p].timers = ti] /\ UNCHANGED <<x2uTeidInfo, app>>
        BY <1>1, <1>p, <2>3, <3>s, <3>i DEF RecvRrcConnectionRequest
      <3>x. PICK x : x = [ctx[p] EXCEPT !.state = st, !.timers = ti]
        OBVIOUS
      <3>2. ctx' = [ctx EXCEPT ![p] = x]
        BY <3>1, <2>1, <3>x, <1>t
      <3>3. x.teid = ctx[p].teid /\ x.state \in {"CONNECTION_SETUP", "CONNECTION_REJECTED"}
        BY <2>1, <3>x, <3>s DEF Contexts
      <3> QED
        BY <3>1, <3>2, <3>3, <2>1, <2>3, SteadyMaps
    <2> QED
      BY <2>2, <2>3
  <1>2. ASSUME RecvRrcConnectionSetupCompleted(ch) PROVE MapStep
    <2>1. p \in Places /\ ctx[p] \in Contexts /\ p.cell \in Cells
      BY <1>2, <1>a DEF RecvRrcConnectionSetupCompleted
    <2>2. CASE ~(HasUeManager(p) /\ ctx[p].state = "CONNECTION_SETUP")
      BY <1>2, <1>p, <2>2, <1>k, AbortMaps DEF RecvRrcConnectionSetupCompleted
    <2>3. CASE HasUeManager(p) /\ ctx[p].state = "CONNECTION_SETUP"
      <3>1. /\ ctx' = [ctx EXCEPT ![p].state = "ATTACH_REQUEST", ![p].timers = {}]
            /\ app' = [app EXCEPT ![p.cell].imsiRnti = p.rnti] /\ UNCHANGED x2uTeidInfo
        BY <1>2, <1>p, <2>3 DEF RecvRrcConnectionSetupCompleted
      <3>x. PICK x : x = [ctx[p] EXCEPT !.state = "ATTACH_REQUEST", !.timers = {}]
        OBVIOUS
      <3>2. ctx' = [ctx EXCEPT ![p] = x]
        BY <3>1, <2>1, <3>x, <1>t
      <3>3. x.teid = ctx[p].teid /\ x.state = "ATTACH_REQUEST"
        BY <2>1, <3>x DEF Contexts
      <3>4. \A c \in Cells : app'[c].teidRnti = app[c].teidRnti /\ app'[c].rntiTeid = app[c].rntiTeid
        BY <3>1, <1>t DEF Maps
      <3> QED
        BY <3>1, <3>2, <3>3, <3>4, <2>1, <2>3, SteadyMaps
    <2> QED
      BY <2>2, <2>3
  <1>3. ASSUME RecvReconfigurationCompleted(ch) PROVE MapStep
    <2>1. p \in Places /\ ctx[p] \in Contexts /\ p.cell \in Cells
      BY <1>3, <1>a DEF RecvReconfigurationCompleted
    <2>2. CASE ~HasUeManager(p)
      BY <1>3, <1>p, <2>2, <1>k DEF RecvReconfigurationCompleted
    <2>3. CASE HasUeManager(p) /\ ctx[p].state = "HANDOVER_JOINING"
      <3>k. PICK k \in Teids \cup {0} : k = ctx[p].teid
        BY <2>1 DEF Contexts
      <3>1. PathSwitchRequest(p, ch)
        BY <1>3, <1>p, <2>3 DEF RecvReconfigurationCompleted
      <3>f. PICK f : f = [app EXCEPT ![p.cell].imsiRnti = p.rnti]
        OBVIOUS
      <3>2. /\ ctx' = [ctx EXCEPT ![p].state = "HANDOVER_PATH_SWITCH", ![p].timers = {}, ![p].buffer = 0]
            /\ app' = [f EXCEPT ![p.cell].rntiTeid[p.rnti] = k, ![p.cell].teidRnti[k] = p.rnti]
            /\ UNCHANGED x2uTeidInfo
        BY <3>1, <3>f, <3>k DEF PathSwitchRequest
      <3>x. PICK x : x = [ctx[p] EXCEPT !.state = "HANDOVER_PATH_SWITCH", !.timers = {}, !.buffer = 0]
        OBVIOUS
      <3>3. ctx' = [ctx EXCEPT ![p] = x]
        BY <3>2, <2>1, <3>x, <1>t
      <3>4. x.teid = k /\ x.state = "HANDOVER_PATH_SWITCH"
        BY <2>1, <3>x, <3>k DEF Contexts
      <3>5. p.rnti \in Rntis \cup {0}
        BY <2>1, PlaceTypes
      <3>6. /\ f \in [Cells -> Maps] /\ \A c \in Cells \ {p.cell} : f[c] = app[c]
            /\ f[p.cell].rntiTeid = app[p.cell].rntiTeid /\ f[p.cell].teidRnti = app[p.cell].teidRnti
        BY <3>f, <3>5, <2>1, <1>t DEF Maps
      <3>7. x.state \notin {"NONE", "HANDOVER_JOINING"} /\ UNCHANGED x2uTeidInfo
        BY <3>2, <3>4
      <3> QED
        BY <3>k, <3>2, <3>3, <3>4, <3>6, <3>7, <2>1, <2>3, BearingMaps
    <2>4. CASE HasUeManager(p) /\ ctx[p].state = "CONNECTION_RECONFIGURATION"
      <3>1. ctx' = [ctx EXCEPT ![p] = ConnectedNormally(@)] /\ UNCHANGED <<x2uTeidInfo, app>>
        BY <1>3, <1>p, <2>4 DEF RecvReconfigurationCompleted
      <3>x. PICK x : x = ConnectedNormally(ctx[p])
        OBVIOUS
      <3>2. ctx' = [ctx EXCEPT ![p] = x]
        BY <3>1, <3>x
      <3>3. x.state \in {"CONNECTED_NORMALLY", "CONNECTION_RECONFIGURATION"}
        BY <3>x, <2>1, ConnectedTypes
      <3>4. x.teid = ctx[p].teid
        BY <3>x, <2>1 DEF ConnectedNormally, Contexts
      <3> QED
        BY <3>1, <3>2, <3>3, <3>4, <2>1, <2>4, SteadyMaps
    <2>5. CASE HasUeManager(p) /\ ctx[p].state \in {"CONNECTED_NORMALLY", "HANDOVER_LEAVING"}
      BY <1>3, <1>p, <2>5, MapsAlone DEF RecvReconfigurationCompleted
    <2>6. CASE HasUeManager(p) /\ ctx[p].state \notin {"HANDOVER_JOINING", "CONNECTION_RECONFIGURATION",
                                                       "CONNECTED_NORMALLY", "HANDOVER_LEAVING"}
      BY <1>3, <1>p, <2>6, AbortMaps DEF RecvReconfigurationCompleted
    <2> QED
      BY <2>2, <2>3, <2>4, <2>5, <2>6
  <1> QED
    BY <1>1, <1>2, <1>3

(* The context of a UE that left is removed.                               *)
LEMMA RemovalMaps ==
    ASSUME RecvContextRemove
    PROVE  MapStep
  <1>1. CASE HasUeManager(Head(rrc["now"]).at)
    BY <1>1, RemoveMaps DEF RecvContextRemove, ContextRemoved
  <1>2. CASE ~HasUeManager(Head(rrc["now"]).at)
    BY <1>2, MapsAlone DEF RecvContextRemove
  <1> QED
    BY <1>1, <1>2

(* A handover is requested.                                                *)
LEMMA PrepareMaps ==
    ASSUME Base, NEW p \in Places, NEW c \in Cells, PrepareHandover(p, c)
    PROVE  MapStep
  <1>t. ctx \in [Places -> Contexts] /\ ctx[p] \in Contexts
    BY DEF Base, TypeInv, CellsTyped
  <1>1. /\ ctx' = [ctx EXCEPT ![p].state = "HANDOVER_PREPARATION", ![p].target = [cell |-> c, rnti |-> 0]]
        /\ ctx[p].state = "CONNECTED_NORMALLY" /\ UNCHANGED <<x2uTeidInfo, app>>
    BY DEF PrepareHandover
  <1>x. PICK x : x = [ctx[p] EXCEPT !.state = "HANDOVER_PREPARATION", !.target = [cell |-> c, rnti |-> 0]]
    OBVIOUS
  <1>2. ctx' = [ctx EXCEPT ![p] = x]
    BY <1>1, <1>t, <1>x
  <1>3. x.teid = ctx[p].teid /\ x.state = "HANDOVER_PREPARATION"
    BY <1>t, <1>x DEF Contexts
  <1> QED
    BY <1>1, <1>2, <1>3, SteadyMaps

(* The timers.                                                             *)
LEMMA TimerMaps ==
    ASSUME NEW p \in Places, TimerStep(p)
    PROVE  MapStep
  <1>1. ASSUME NEW timer \in {"request", "setup", "rejected"}, ConnectionTimersExpire(p, timer)
        PROVE  MapStep
    <2>1. CASE ctx[p].state # TimerState[timer]
      BY <1>1, <2>1, AbortMaps DEF ConnectionTimersExpire
    <2>2. CASE ctx[p].state = TimerState[timer]
      <3>1. RemoveUe(p) /\ ctx[p].state # "NONE"
        BY <1>1, <2>2 DEF ConnectionTimersExpire, TimerState
      <3> QED
        BY <3>1, RemoveMaps
    <2> QED
      BY <2>1, <2>2
  <1>2. ASSUME HandoverJoiningTimeout(p) PROVE MapStep
    <2>1. CASE ctx[p].state # TimerState["joining"]
      BY <1>2, <2>1, AbortMaps DEF HandoverJoiningTimeout
    <2>2. CASE ctx[p].state = TimerState["joining"]
      <3>1. RemoveUe(p) /\ ctx[p].state # "NONE"
        BY <1>2, <2>2 DEF HandoverJoiningTimeout, TimerState
      <3> QED
        BY <3>1, RemoveMaps
    <2> QED
      BY <2>1, <2>2
  <1>3. ASSUME HandoverLeavingTimeout(p) PROVE MapStep
    <2>1. CASE ctx[p].state # TimerState["leaving"]
      BY <1>3, <2>1, AbortMaps DEF HandoverLeavingTimeout
    <2>2. CASE ctx[p].state = TimerState["leaving"]
      <3>1. RemoveUe(p) /\ ctx[p].state # "NONE"
        BY <1>3, <2>2 DEF HandoverLeavingTimeout, TimerState, RrcConnectionReleased
      <3> QED
        BY <3>1, RemoveMaps
    <2> QED
      BY <2>1, <2>2
  <1> QED
    BY <1>1, <1>2, <1>3 DEF TimerStep

(* Preparation, at the target and at the source.                           *)
LEMMA PreparationMaps ==
    ASSUME Base, NEW s \in Cells, NEW d \in Cells, <<s, d>> \in Links,
           AdmitHandoverRequest(s, d) \/ RefuseHandoverRequest(s, d) \/ RecvHandoverRequestAck(s, d)
    PROVE  MapStep
  <1>0. PICK m : m = Head(x2[<<s, d>>])
    OBVIOUS
  <1>t. lastRnti \in [Cells -> Rntis \cup {0}] /\ ctx \in [Places -> Contexts] /\ TypeInv
    BY DEF Base, TypeInv, CellsTyped
  <1>1. ASSUME AdmitHandoverRequest(s, d) PROVE MapStep
    <2>p. PICK p : p = NextPlace(d)
      OBVIOUS
    <2>1. NextX2(s, d, "HandoverRequest") /\ ~NoRntiLeft(d)
      BY <1>1 DEF AdmitHandoverRequest
    <2>2. CASE m.teid # 0 /\ x2uTeidInfo[d][m.teid] # 0
      BY <1>0, <1>1, <2>2, AbortMaps DEF AdmitHandoverRequest
    <2>3. CASE ~(m.teid # 0 /\ x2uTeidInfo[d][m.teid] # 0)
      <3>k. PICK k : k = m.teid
        OBVIOUS
      <3>x. PICK x : x = [NewContext("HANDOVER_JOINING", [cell |-> s, rnti |-> m.old])
                              EXCEPT !.teid = k, !.pending = (k # 0)]
        OBVIOUS
      <3>1. /\ ctx' = [ctx EXCEPT ![p] = x] /\ lastRnti' = [lastRnti EXCEPT ![d] = p.rnti] /\ UNCHANGED app
            /\ x2uTeidInfo' = [x2uTeidInfo EXCEPT ![d] = [t \in Teids |-> IF t = k THEN p.rnti ELSE @[t]]]
        BY <1>0, <1>1, <2>p, <2>3, <3>k, <3>x DEF AdmitHandoverRequest
      <3>2. p \in Places /\ p.cell = d /\ p.rnti = lastRnti[d] + 1
        BY <2>1, <2>p, <1>t, NextPlaceTypes
      <3>3. x.state = "HANDOVER_JOINING" /\ x.teid = k
        BY <3>x DEF NewContext, NoContext
      <3>4. (\A q \in Places \ {p} : ctx'[q] = ctx[q]) /\ ctx'[p] = x
        BY <3>1, <3>2, <1>t
      <3>5. Fresh(p)
        BY <3>1, <3>2 DEF Fresh
      <3>6. ~Known(p)
        BY <1>t, <3>5, FreshFacts
      <3>7. ctx[p].state = "NONE"
        BY <3>2, <3>6 DEF Base, Allocated, CtxAllocated
      <3>8. ctx'[p].teid = k /\ ctx'[p].state = "HANDOVER_JOINING"
        BY <3>3, <3>4
      <3>9. k \in Teids => x2uTeidInfo[p.cell][k] = 0
        BY <2>3, <3>k, <3>2, PlaceTypes
      <3>10. Welcomes(p)
        BY <3>1, <3>2, <3>4, <3>7, <3>8, <3>9 DEF Welcomes
      <3> QED
        BY <3>2, <3>10 DEF MapStep
    <2> QED
      BY <2>2, <2>3
  <1>2. ASSUME RefuseHandoverRequest(s, d) PROVE MapStep
    BY <1>2, MapsAlone DEF RefuseHandoverRequest
  <1>3. ASSUME RecvHandoverRequestAck(s, d) PROVE MapStep
    <2>p. PICK p : p = [cell |-> d, rnti |-> m.old]
      OBVIOUS
    <2>q. PICK q : q = [cell |-> s, rnti |-> m.new]
      OBVIOUS
    <2>1. NextX2(s, d, "HandoverRequestAck")
      BY <1>3 DEF RecvHandoverRequestAck
    <2>2. CASE ~HasUeManager(p)
      BY <1>0, <1>3, <2>p, <2>2, AbortMaps DEF RecvHandoverRequestAck
    <2>3. CASE HasUeManager(p)
      <3>1. /\ ctx' = [ctx EXCEPT ![p].state = "HANDOVER_LEAVING", ![p].target = q,
                                  ![p].timers = @ \cup {"leaving"}]
            /\ UNCHANGED <<x2uTeidInfo, app>>
        BY <1>0, <1>3, <2>p, <2>q, <2>3 DEF RecvHandoverRequestAck
      <3>2. p \in Places /\ ctx[p] \in Contexts /\ ctx[p].state # "NONE" /\ p.cell = d /\ p.rnti = m.old
        BY <2>3, <2>p, <1>t DEF HasUeManager
      <3>3. m \in Mail(x2[<<s, d>>]) /\ m.msg = "HandoverRequestAck" /\ s # d
        BY <1>0, <2>1, NextArrives
      <3>4. Preparing(p, s)
        BY <3>2, <3>3 DEF Base, Protocol, Agreed, Accepted, IsAck
      <3>x. PICK x : x = [ctx[p] EXCEPT !.state = "HANDOVER_LEAVING", !.target = q, !.timers = @ \cup {"leaving"}]
        OBVIOUS
      <3>5. ctx' = [ctx EXCEPT ![p] = x]
        BY <3>1, <3>2, <3>x, <1>t
      <3>6. x.teid = ctx[p].teid /\ x.state = "HANDOVER_LEAVING"
        BY <3>2, <3>x DEF Contexts
      <3>7. ctx[p].state = "HANDOVER_PREPARATION"
        BY <3>4 DEF Preparing
      <3> QED
        BY <3>1, <3>2, <3>5, <3>6, <3>7, SteadyMaps
    <2> QED
      BY <2>2, <2>3
  <1> QED
    BY <1>1, <1>2, <1>3

(* The end of a handover.                                                  *)
LEMMA EndingMaps ==
    ASSUME Base, NEW s \in Cells, NEW d \in Cells, <<s, d>> \in Links,
           RecvHandoverPreparationFailure(s, d) \/ RecvUeContextRelease(s, d) \/ RecvHandoverCancel(s, d)
    PROVE  MapStep
  <1>0. PICK m : m = Head(x2[<<s, d>>])
    OBVIOUS
  <1>t. ctx \in [Places -> Contexts]
    BY DEF Base, TypeInv, CellsTyped
  <1>1. ASSUME RecvHandoverPreparationFailure(s, d) PROVE MapStep
    <2>p. PICK p : p = [cell |-> d, rnti |-> m.old]
      OBVIOUS
    <2>s. PICK state : state = IF HasUeManager(p) THEN ctx[p].state ELSE "NONE"
      OBVIOUS
    <2>2. CASE state = "NONE"
      BY <1>0, <1>1, <2>p, <2>s, <2>2, MapsAlone DEF RecvHandoverPreparationFailure
    <2>3. CASE state = "HANDOVER_PREPARATION" /\ ctx[p].target.cell = s
      <3>1. ctx' = [ctx EXCEPT ![p] = ConnectedNormally(@)] /\ UNCHANGED <<x2uTeidInfo, app>>
        BY <1>0, <1>1, <2>p, <2>s, <2>3 DEF RecvHandoverPreparationFailure
      <3>2. p \in Places /\ ctx[p] \in Contexts /\ ctx[p].state = "HANDOVER_PREPARATION"
        BY <2>s, <2>3, <1>t DEF HasUeManager
      <3>x. PICK x : x = ConnectedNormally(ctx[p])
        OBVIOUS
      <3>3. ctx' = [ctx EXCEPT ![p] = x]
        BY <3>1, <3>x
      <3>4. x.state \in {"CONNECTED_NORMALLY", "CONNECTION_RECONFIGURATION"}
        BY <3>x, <3>2, ConnectedTypes
      <3>5. x.teid = ctx[p].teid
        BY <3>x, <3>2 DEF ConnectedNormally, Contexts
      <3> QED
        BY <3>1, <3>2, <3>3, <3>4, <3>5, SteadyMaps
    <2>4. CASE state = "HANDOVER_LEAVING" /\ ctx[p].target.cell = s
      <3>1. RrcConnectionReleased(p) /\ HasUeManager(p)
        BY <1>0, <1>1, <2>p, <2>s, <2>4 DEF RecvHandoverPreparationFailure
      <3> QED
        BY <3>1, RemoveMaps DEF RrcConnectionReleased
    <2>5. CASE /\ state # "NONE" /\ ~(state = "HANDOVER_PREPARATION" /\ ctx[p].target.cell = s)
               /\ ~(state = "HANDOVER_LEAVING" /\ ctx[p].target.cell = s)
      BY <1>0, <1>1, <2>p, <2>s, <2>5, AbortMaps DEF RecvHandoverPreparationFailure
    <2> QED
      BY <2>2, <2>3, <2>4, <2>5
  <1>2. ASSUME RecvUeContextRelease(s, d) PROVE MapStep
    <2>p. PICK p : p = [cell |-> d, rnti |-> m.old]
      OBVIOUS
    <2>2. CASE HasUeManager(p) /\ ctx[p].state # "HANDOVER_LEAVING"
      BY <1>0, <1>2, <2>p, <2>2, AbortMaps DEF RecvUeContextRelease
    <2>3. CASE ~HasUeManager(p)
      BY <1>0, <1>2, <2>p, <2>3, MapsAlone DEF RecvUeContextRelease
    <2>4. CASE HasUeManager(p) /\ ctx[p].state = "HANDOVER_LEAVING"
      BY <1>0, <1>2, <2>p, <2>4, RemoveMaps DEF RecvUeContextRelease
    <2> QED
      BY <2>2, <2>3, <2>4
  <1>3. ASSUME RecvHandoverCancel(s, d) PROVE MapStep
    <2>p. PICK p : p = [cell |-> d, rnti |-> m.new]
      OBVIOUS
    <2>2. CASE HasUeManager(p) /\ ctx[p].state # "HANDOVER_JOINING"
      BY <1>0, <1>3, <2>p, <2>2, AbortMaps DEF RecvHandoverCancel
    <2>3. CASE ~HasUeManager(p)
      BY <1>0, <1>3, <2>p, <2>3, MapsAlone DEF RecvHandoverCancel
    <2>4. CASE HasUeManager(p) /\ ctx[p].state = "HANDOVER_JOINING"
      <3>1. ctx' = [ctx EXCEPT ![p].timers = @ \ {"joining"}] /\ UNCHANGED <<x2uTeidInfo, app>>
        BY <1>0, <1>3, <2>p, <2>4 DEF RecvHandoverCancel
      <3>2. p \in Places /\ ctx[p] \in Contexts
        BY <2>4, <1>t DEF HasUeManager
      <3>x. PICK x : x = [ctx[p] EXCEPT !.timers = @ \ {"joining"}]
        OBVIOUS
      <3>3. ctx' = [ctx EXCEPT ![p] = x]
        BY <3>1, <3>2, <3>x, <1>t
      <3>4. x.teid = ctx[p].teid /\ x.state = ctx[p].state
        BY <3>2, <3>x DEF Contexts
      <3> QED
        BY <3>1, <3>2, <3>3, <3>4, SteadyMaps
    <2> QED
      BY <2>2, <2>3, <2>4
  <1> QED
    BY <1>1, <1>2, <1>3

(* The core network.                                                       *)
LEMMA CoreMaps ==
    ASSUME Base, CoreStep
    PROVE  MapStep
  <1>t. /\ ctx \in [Places -> Contexts] /\ app \in [Cells -> Maps]
        /\ reply \in Seq(Responses)
    BY DEF Base, TypeInv, CellsTyped, CoreTyped
  <1>p. PICK p : p = [cell |-> mmeCell, rnti |-> app[mmeCell].imsiRnti]
    OBVIOUS
  <1>1. ASSUME MmeRecvCreateSessionResponse PROVE MapStep
    <2>0. Head(reply) \in CoreMsgs
      BY <1>1, <1>t DEF MmeRecvCreateSessionResponse, Responses
    <2>k. PICK k \in Teids \cup {0} : k = Head(reply).teid
      BY <2>0 DEF CoreMsgs
    <2>1. CASE ~(HasUeManager(p) /\ ctx[p].teid = 0 /\ ctx[p].state = "ATTACH_REQUEST")
      BY <1>1, <1>p, <2>1, AbortMaps DEF MmeRecvCreateSessionResponse
    <2>2. CASE HasUeManager(p) /\ ctx[p].teid = 0 /\ ctx[p].state = "ATTACH_REQUEST"
      <3>1. /\ ctx' = [ctx EXCEPT ![p].state = "CONNECTION_RECONFIGURATION", ![p].teid = k]
            /\ app' = [app EXCEPT ![p.cell].rntiTeid[p.rnti] = k, ![p.cell].teidRnti[k] = p.rnti]
            /\ UNCHANGED x2uTeidInfo
        BY <1>1, <1>p, <2>k, <2>2 DEF MmeRecvCreateSessionResponse
      <3>2. p \in Places /\ ctx[p] \in Contexts
        BY <2>2, <1>t DEF HasUeManager
      <3>x. PICK x : x = [ctx[p] EXCEPT !.state = "CONNECTION_RECONFIGURATION", !.teid = k]
        OBVIOUS
      <3>3. ctx' = [ctx EXCEPT ![p] = x]
        BY <3>1, <3>2, <3>x, <1>t
      <3>4. x.teid = k /\ x.state = "CONNECTION_RECONFIGURATION"
        BY <3>2, <3>x DEF Contexts
      <3>f. PICK f : f = app
        OBVIOUS
      <3>5. app' = [f EXCEPT ![p.cell].rntiTeid[p.rnti] = k, ![p.cell].teidRnti[k] = p.rnti]
        BY <3>1, <3>f
      <3>6. /\ f \in [Cells -> Maps] /\ \A c \in Cells \ {p.cell} : f[c] = app[c]
            /\ f[p.cell].rntiTeid = app[p.cell].rntiTeid /\ f[p.cell].teidRnti = app[p.cell].teidRnti
        BY <3>f, <1>t
      <3>7. x.state \notin {"NONE", "HANDOVER_JOINING"} /\ UNCHANGED x2uTeidInfo
        BY <3>1, <3>4
      <3> QED
        BY <2>2, <3>2, <3>3, <3>4, <3>5, <3>6, <3>7, BearingMaps
    <2> QED
      BY <2>1, <2>2
  <1>2. ASSUME MmeRecvModifyBearerResponse PROVE MapStep
    <2>1. CASE ~(HasUeManager(p) /\ ctx[p].state = "HANDOVER_PATH_SWITCH")
      BY <1>2, <1>p, <2>1, AbortMaps DEF MmeRecvModifyBearerResponse
    <2>2. CASE HasUeManager(p) /\ ctx[p].state = "HANDOVER_PATH_SWITCH"
      <3>1. ctx' = [ctx EXCEPT ![p] = ConnectedNormally(@)] /\ UNCHANGED <<x2uTeidInfo, app>>
        BY <1>2, <1>p, <2>2 DEF MmeRecvModifyBearerResponse
      <3>2. p \in Places /\ ctx[p] \in Contexts
        BY <2>2, <1>t DEF HasUeManager
      <3>x. PICK x : x = ConnectedNormally(ctx[p])
        OBVIOUS
      <3>3. ctx' = [ctx EXCEPT ![p] = x]
        BY <3>1, <3>x
      <3>4. x.state \in {"CONNECTED_NORMALLY", "CONNECTION_RECONFIGURATION"}
        BY <3>x, <3>2, ConnectedTypes
      <3>5. x.teid = ctx[p].teid
        BY <3>x, <3>2 DEF ConnectedNormally, Contexts
      <3> QED
        BY <3>1, <3>2, <3>3, <3>4, <3>5, <2>2, SteadyMaps
    <2> QED
      BY <2>1, <2>2
  <1>3. ASSUME SgwRecvFromMme \/ PgwRecvFromSgw \/ MmeRecvDeleteBearerRequest PROVE MapStep
    BY <1>3, MapsAlone DEF SgwRecvFromMme, PgwRecvFromSgw, MmeRecvDeleteBearerRequest
  <1> QED
    BY <1>1, <1>2, <1>3 DEF CoreStep

(* Downlink data.                                                          *)
LEMMA DataMaps ==
    ASSUME Base, SendDownlink \/ RecvFromS1u \/ \E s, d \in Cells : RecvUeData(s, d)
    PROVE  MapStep
  <1>t. ctx \in [Places -> Contexts]
    BY DEF Base, TypeInv, CellsTyped
  <1>d. ASSUME NEW p, NEW y, NEW k, SendData(p, y, k) PROVE MapStep
    <2>1. CASE ~HasUeManager(p) \/ ctx[p].state \in {"ATTACH_REQUEST", "CONNECTION_REJECTED"}
      BY <1>d, <2>1, AbortMaps DEF SendData
    <2>2. CASE HasUeManager(p) /\ ctx[p].state \notin {"ATTACH_REQUEST", "CONNECTION_REJECTED", "HANDOVER_JOINING"}
      BY <1>d, <2>2, MapsAlone DEF SendData
    <2>3. CASE HasUeManager(p) /\ ctx[p].state = "HANDOVER_JOINING"
      <3>1. ctx' = [ctx EXCEPT ![p].buffer = @ + 1] /\ UNCHANGED <<x2uTeidInfo, app>>
        BY <1>d, <2>3 DEF SendData
      <3>2. p \in Places /\ ctx[p] \in Contexts
        BY <2>3, <1>t DEF HasUeManager
      <3>x. PICK x : x = [ctx[p] EXCEPT !.buffer = @ + 1]
        OBVIOUS
      <3>3. ctx' = [ctx EXCEPT ![p] = x]
        BY <3>1, <3>2, <3>x, <1>t
      <3>4. x.teid = ctx[p].teid /\ x.state = ctx[p].state
        BY <3>2, <3>x DEF Contexts
      <3> QED
        BY <3>1, <3>2, <3>3, <3>4, SteadyMaps
    <2> QED
      BY <2>1, <2>2, <2>3
  <1>1. ASSUME SendDownlink PROVE MapStep
    BY <1>1, MapsAlone DEF SendDownlink
  <1>2. ASSUME RecvFromS1u PROVE MapStep
    BY <1>2, <1>d, MapsAlone DEF RecvFromS1u
  <1>3. ASSUME NEW s \in Cells, NEW d \in Cells, RecvUeData(s, d) PROVE MapStep
    BY <1>3, <1>d, AbortMaps DEF RecvUeData
  <1> QED
    BY <1>1, <1>2, <1>3

(* Every step does one of these.                                           *)
LEMMA MapSteps ==
    ASSUME Base, [Next]_vars
    PROVE  MapStep
  <1>1. CASE UNCHANGED vars \/ Ended
    BY <1>1, MapsAlone DEF vars, Ended
  <1>2. CASE UeStep
    BY <1>2, UeMaps
  <1>3. CASE RrcStep
    BY <1>3, DownMaps, UpMaps, RemovalMaps DEF RrcStep, Channels
  <1>4. CASE \E p \in Places, c \in Cells : PrepareHandover(p, c)
    BY <1>4, PrepareMaps
  <1>5. CASE \E l \in Links : X2Step(l[1], l[2])
    <2>1. PICK l \in Links : X2Step(l[1], l[2])
      BY <1>5
    <2>s. PICK s : s = l[1]
      OBVIOUS
    <2>d. PICK d : d = l[2]
      OBVIOUS
    <2>2. s \in Cells /\ d \in Cells /\ <<s, d>> \in Links /\ X2Step(s, d)
      BY <2>1, <2>s, <2>d DEF Links
    <2>3. CASE AdmitHandoverRequest(s, d) \/ RefuseHandoverRequest(s, d) \/ RecvHandoverRequestAck(s, d)
      BY <2>2, <2>3, PreparationMaps
    <2>4. CASE RecvHandoverPreparationFailure(s, d) \/ RecvUeContextRelease(s, d) \/ RecvHandoverCancel(s, d)
      BY <2>2, <2>4, EndingMaps
    <2>5. CASE RecvUeData(s, d)
      BY <2>2, <2>5, DataMaps
    <2> QED
      BY <2>2, <2>3, <2>4, <2>5 DEF X2Step
  <1>6. CASE \E p \in Places : TimerStep(p)
    BY <1>6, TimerMaps
  <1>7. CASE CoreStep
    BY <1>7, CoreMaps
  <1>8. CASE SendDownlink \/ RecvFromS1u
    BY <1>8, DataMaps
  <1> QED
    BY <1>1, <1>2, <1>3, <1>4, <1>5, <1>6, <1>7, <1>8 DEF Next

(***************************************************************************)
(* BearerMapsAgree, between two cells: whatever happens to the UE, its     *)
(* bearer and its handovers, the maps of an eNB that are searched by TEID  *)
(* lead to the context that has the bearer, and lead to each such context. *)
(***************************************************************************)
THEOREM MapsAgree == TwoCells => (Spec => []BearerMapsAgree)
  <1> SUFFICES ASSUME TwoCells PROVE Spec => []BearerMapsAgree
    OBVIOUS
  <1> DEFINE Inv == Base /\ Support /\ SessionInv /\ MapsInv
  <1>1. Init => Inv
    BY InitTypes, AllocatedInit, ProtocolInit, ServingInit, SupportInit, SessionInit, MapsInit DEF Base
  <1>2. ASSUME Inv, [Next]_vars PROVE Inv'
    <2>1. Effects /\ mishaps \subseteq mishaps'
      BY <1>2, StepEffects DEF Base
    <2>2. CoreStepped /\ MapStep
      BY <1>2, CoreSteps, MapSteps
    <2>3. Base'
      BY <1>2, BaseStep
    <2>4. Support'
      BY <1>2, <2>1, SupportStep
    <2>5. SessionInv'
      BY <1>2, <2>1, <2>2, <2>3, <2>4, SessionStep
    <2>6. Alone /\ Alone'
      BY <1>2, <2>5, PairedAlone DEF SessionInv, Paired, Alone
    <2>7. MapsInv'
      BY <1>2, <2>2, <2>6, MapsStep DEF Base
    <2> QED
      BY <2>3, <2>4, <2>5, <2>7
  <1>3. Inv => BearerMapsAgree
    BY MapsSuffice DEF Base
  <1> QED
    BY <1>1, <1>2, <1>3, PTL DEF Spec

(***************************************************************************)
(* The handover as a service: for any number of cells, whatever the speed  *)
(* of the links.                                                           *)
(***************************************************************************)

\* The context at p has been offered the one at q for its UE, or sent it there.
Claims(p, q) ==
    Offering(p, q) \/ (ctx[p].state = "HANDOVER_LEAVING" /\ ctx[p].target = q)
\* What is so claimed was created for it, and when its UE has come there and
\* the path was switched, p is told.
Claimed == \A p, q \in Places : Claims(p, q) =>
    /\ Known(q) /\ p.cell # q.cell
    /\ ctx[q].state \notin Early
    /\ ctx[q].state \in {"HANDOVER_JOINING", "HANDOVER_PATH_SWITCH"} => ctx[q].source = p
    /\ ctx[q].state \in InPlace \cup {"HANDOVER_LEAVING"} => Released(p)
    /\ ~(ue.state = "IDLE_CONNECTING" /\ ue.at = q)
ClaimedOnce == \A o, p, q \in Places : Claims(o, q) /\ Claims(p, q) => o = p
ServiceInv == Claimed /\ ClaimedOnce /\ Connects /\ Joins /\ OffersStand /\ CommandsStand

(* An offer is of a context that is known, or that is created for it.      *)
LEMMA OffersBegin ==
    ASSUME Base, Effects, NEW p \in Places, NEW q \in Places, Offering(p, q)'
    PROVE  \/ Offering(p, q)
           \/ ~Known(q) /\ p.cell # q.cell /\ ctx'[q].state = "HANDOVER_JOINING" /\ ctx'[q].source = p
  <1>t. p.cell \in Cells /\ q.cell \in Cells
    BY PlaceTypes
  <1>1. /\ ctx'[p].state = "HANDOVER_PREPARATION" /\ p.cell # q.cell
        /\ \E m \in Mail(x2'[<<q.cell, p.cell>>]) : m.msg = "HandoverRequestAck" /\ m.old = p.rnti /\ m.new = q.rnti
    BY DEF Offering, Offers, Mail
  <1>2. PICK m \in Mail(x2'[<<q.cell, p.cell>>]) : m.msg = "HandoverRequestAck" /\ m.old = p.rnti /\ m.new = q.rnti
    BY <1>1
  <1>3. m \in Mail(x2[<<q.cell, p.cell>>]) \/ NewAsk(q.cell, p.cell, m)
    <2>1. AskMoves
      BY AsksMove DEF Base
    <2> QED
      BY <2>1, <1>t, <1>1, <1>2 DEF AskMoves
  <1>4. Offering(p, q) \/ ~Known(q)
    BY OffersMove
  <1>5. CASE NewAsk(q.cell, p.cell, m)
    <2>1. PICK o \in Places :
             /\ o.cell = q.cell /\ o.rnti = m.new /\ ctx'[o].state = "HANDOVER_JOINING"
             /\ ctx'[o].source = [cell |-> p.cell, rnti |-> m.old]
      BY <1>2, <1>5 DEF NewAsk
    <2>2. o = q /\ p = [cell |-> p.cell, rnti |-> p.rnti]
      BY <1>2, <2>1 DEF Places
    <2> QED
      BY <1>1, <1>2, <1>4, <2>1, <2>2
  <1>6. CASE m \in Mail(x2[<<q.cell, p.cell>>])
    <2>1. Known(q)
      <3>1. MailAllocated(q.cell, p.cell, m)
        BY <1>6, <1>t, <1>1 DEF Base, Allocated, X2Allocated
      <3> QED
        BY <3>1, <1>2 DEF MailAllocated, Known
    <2> QED
      BY <2>1, <1>4
  <1> QED
    BY <1>3, <1>5, <1>6

(* A context that accepts an offer lets the UE go there.                   *)
LEMMA CommandsOffer ==
    ASSUME Base, NEW s \in Cells, NEW d \in Cells, NEW p \in Places, NEW q \in Places, Commands(s, d, p, q)
    PROVE  /\ Offering(p, q) /\ Calm
           /\ ctx'[p].state = "HANDOVER_LEAVING" /\ ctx'[p].target = q
  <1>t. TypeInv /\ Allocated
    BY DEF Base
  <1>1. /\ Arrived(s, d, "HandoverRequestAck") /\ p.cell = d /\ p.rnti = From(s, d)
        /\ q.cell = s /\ q.rnti = Head(x2[<<s, d>>]).new
        /\ Turned(ctx, ctx', p, "HANDOVER_LEAVING", ctx[p].source, q, ctx[p].timers \cup {"leaving"})
    BY DEF Commands
  <1>2. ctx'[p].state = "HANDOVER_LEAVING" /\ ctx'[p].target = q
    BY <1>1 DEF Turned
  <1>3. /\ s # d /\ Head(x2[<<s, d>>]) \in Mail(x2[<<s, d>>]) /\ Head(x2[<<s, d>>]).msg = "HandoverRequestAck"
        /\ Head(x2[<<s, d>>]).old = From(s, d)
    BY <1>1, <1>t, ArrivedFacts
  <1>4. ctx[p].state = "HANDOVER_PREPARATION"
    BY CommandsKeeps DEF Base, Preparing
  <1>5. Offering(p, q)
    BY <1>1, <1>3, <1>4 DEF Offering, Offers
  <1> QED
    BY <1>1, <1>2, <1>5 DEF Arrived

(* Nothing else is claimed.                                                *)
LEMMA ClaimsMove ==
    ASSUME Base, Effects, NEW p \in Places, NEW q \in Places, Claims(p, q)'
    PROVE  \/ Claims(p, q)
           \/ ~Known(q) /\ p.cell # q.cell /\ ctx'[q].state = "HANDOVER_JOINING" /\ ctx'[q].source = p
  <1>1. CASE Offering(p, q)'
    BY <1>1, OffersBegin DEF Claims
  <1>2. CASE ctx'[p].state = "HANDOVER_LEAVING" /\ ctx'[p].target = q
    <2>1. Follows(p)
      BY AllFollow
    <2>2. CASE ctx[p].state = "HANDOVER_LEAVING"
      BY <1>2, <2>1, <2>2 DEF Follows, Claims
    <2>3. CASE \E s, d \in Cells, o \in Places : Commands(s, d, p, o)
      <3>1. PICK s, d \in Cells, o \in Places : Commands(s, d, p, o)
        BY <2>3
      <3>2. Offering(p, o) /\ ctx'[p].target = o
        BY <3>1, CommandsOffer
      <3> QED
        BY <1>2, <3>2 DEF Claims
    <2> QED
      BY <1>2, <2>1, <2>2, <2>3 DEF Follows
  <1> QED
    BY <1>1, <1>2 DEF Claims, Offering, Offers, Mail

(* A context is claimed by one other.                                      *)
LEMMA StaysClaimedOnce ==
    ASSUME Base, Effects, Claimed, ClaimedOnce
    PROVE  ClaimedOnce'
  <1> SUFFICES ASSUME NEW o \in Places, NEW p \in Places, NEW q \in Places, Claims(o, q)', Claims(p, q)'
               PROVE  o = p
    BY DEF ClaimedOnce, Claims, Offering, Offers, Mail
  <1>1. Claims(o, q) \/ (~Known(q) /\ ctx'[q].source = o)
    BY ClaimsMove
  <1>2. Claims(p, q) \/ (~Known(q) /\ ctx'[q].source = p)
    BY ClaimsMove
  <1>3. Claims(o, q) \/ Claims(p, q) => Known(q)
    BY DEF Claimed
  <1> QED
    BY <1>1, <1>2, <1>3 DEF ClaimedOnce

(* It is known, was created for the claim, and its UE did not ask for it.  *)
LEMMA StaysClaimed ==
    ASSUME Base, Base', Effects, Claimed, Joins
    PROVE  Claimed'
  <1> SUFFICES ASSUME NEW p \in Places, NEW q \in Places, Claims(p, q)'
               PROVE  /\ Known(q)' /\ p.cell # q.cell
                      /\ ctx'[q].state \notin Early
                      /\ ctx'[q].state \in {"HANDOVER_JOINING", "HANDOVER_PATH_SWITCH"} => ctx'[q].source = p
                      /\ ctx'[q].state \in InPlace \cup {"HANDOVER_LEAVING"} => Released(p)'
                      /\ ~(ue'.state = "IDLE_CONNECTING" /\ ue'.at = q)
    BY DEF Claimed
  <1>t. TypeInv /\ Allocated /\ Allocated'
    BY DEF Base
  <1>u. ASSUME ue'.state = "IDLE_CONNECTING", ue'.at = q
        PROVE  \/ UNCHANGED ue
               \/ ~Known(q) /\ ctx'[q].state = "INITIAL_RANDOM_ACCESS"
    <2>1. \A r : Accessing(r) /\ ue'.at = q => ~Known(q) /\ ctx'[q].state = "INITIAL_RANDOM_ACCESS"
      BY <1>t, FreshFacts DEF Accessing, Turned
    <2> QED
      BY <1>u, <2>1, UesMove DEF UeMoves, Arriving, Connecting, Commanded, Idle
  <1>1. CASE Claims(p, q)
    <2>1. /\ Known(q) /\ p.cell # q.cell
          /\ ctx[q].state \notin Early
          /\ ctx[q].state \in {"HANDOVER_JOINING", "HANDOVER_PATH_SWITCH"} => ctx[q].source = p
          /\ ctx[q].state \in InPlace \cup {"HANDOVER_LEAVING"} => Released(p)
          /\ ~(ue.state = "IDLE_CONNECTING" /\ ue.at = q)
      BY <1>1 DEF Claimed
    <2>2. Known(q)'
      BY <1>t, <2>1, AllocationGrows
    <2>3. Follows(q) /\ Follows(p)
      BY AllFollow
    <2>4. ctx[q].state \in ContextStates
      BY <1>t, PlaceTypes DEF TypeInv, CellsTyped, Contexts
    <2>5. /\ ctx'[q].state \notin Early
          /\ ctx'[q].state \in {"HANDOVER_JOINING", "HANDOVER_PATH_SWITCH"} => ctx'[q].source = p
          /\ ctx'[q].state \in InPlace \cup {"HANDOVER_LEAVING"} =>
                ctx[q].state \in InPlace \cup {"HANDOVER_LEAVING"} \/ (Switches(q) /\ ctx[q].source = p)
      BY <2>1, <2>3, <2>4 DEF Follows, ContextStates, Early, InPlace, Up, Left, Settling
    <2>6. ASSUME ctx[q].state \in InPlace \cup {"HANDOVER_LEAVING"} PROVE Released(p)'
      <3>1. ctx[p].state = "HANDOVER_LEAVING"
        <4>1. Offering(p, q) => Dest(q)
          BY DEF Dest
        <4>2. Dest(q) => ctx[q].state \notin InPlace \cup {"HANDOVER_LEAVING"}
          BY DEF Joins, InPlace, Up
        <4> QED
          BY <1>1, <2>6, <4>1, <4>2 DEF Claims
      <3>2. ctx'[p].state = "HANDOVER_LEAVING"
        BY <2>3, <3>1 DEF Follows, Claims, Offering, Offers, Mail
      <3> QED
        BY <2>1, <2>6, <3>1, <3>2, ReleasedStays DEF Base
    <2>7. ASSUME Switches(q), ctx[q].source = p PROVE Released(p)'
      <3>1. p.cell # q.cell /\ Told(x2'[<<q.cell, p.cell>>], "UeContextRelease", p.rnti)
        BY <2>7, SwitchGoes
      <3>2. q.cell \in Cells
        BY PlaceTypes
      <3> QED
        BY <3>1, <3>2 DEF Released, Told, Mail
    <2>8. ~(ue'.state = "IDLE_CONNECTING" /\ ue'.at = q)
      BY <1>u, <2>1
    <2> QED
      BY <2>1, <2>2, <2>5, <2>6, <2>7, <2>8
  <1>2. CASE ~Known(q) /\ p.cell # q.cell /\ ctx'[q].state = "HANDOVER_JOINING" /\ ctx'[q].source = p
    <2>1. Known(q)'
      BY <1>2, <1>t DEF Allocated, CtxAllocated
    <2>2. UNCHANGED ue => ue'.at # q
      BY <1>2, <1>t DEF Allocated, UeAllocated
    <2>3. ~(ue'.state = "IDLE_CONNECTING" /\ ue'.at = q)
      BY <1>u, <1>2, <2>2
    <2> QED
      BY <1>2, <2>1, <2>3 DEF Early, InPlace, Up
  <1> QED
    BY <1>1, <1>2, ClaimsMove

(* Every step keeps what the service needs.                                *)
LEMMA ServiceInvStep ==
    ASSUME Base, Base', Effects, ServiceInv
    PROVE  ServiceInv'
  <1>1. Claimed' /\ ClaimedOnce'
    BY StaysClaimed, StaysClaimedOnce DEF ServiceInv
  <1>2. Connects' /\ Joins'
    BY StaysConnects, StaysJoins DEF ServiceInv, Base
  <1>3. OffersStand' /\ CommandsStand'
    BY StaysOffersStand, StaysCommandsStand DEF ServiceInv
  <1> QED
    BY <1>1, <1>2, <1>3 DEF ServiceInv

(* Nothing is claimed at first.                                            *)
LEMMA ServiceInvInit == Init => ServiceInv
  <1> SUFFICES ASSUME Init PROVE ServiceInv
    OBVIOUS
  <1>1. PathInv
    BY PathInit
  <1>2. \A p, q \in Places : ~Claims(p, q)
    BY DEF Init, Claims, Offering, NoContext
  <1> QED
    BY <1>1, <1>2 DEF PathInv, ServiceInv, Claimed, ClaimedOnce

\* A phase of the service; the UE is not connected.
Phase(f, c, t) == [phase |-> f, cell |-> c, target |-> t]
Off == Phase("disconnected", 0, 0)
\* The context at p sent the UE to where it is, and has not heard that it came.
Source(p) == ctx[p].state = "HANDOVER_LEAVING" /\ ctx[p].target = ue.at /\ ~Released(p)
\* States of a context that serves the UE, and of one that does not.
Serve == {"CONNECTION_SETUP", "ATTACH_REQUEST", "HANDOVER_PATH_SWITCH"} \cup Settling
Away == {"NONE", "INITIAL_RANDOM_ACCESS", "CONNECTION_REJECTED", "HANDOVER_JOINING"}
\* The phase, by the state of the context that the UE is at.
Described ==
    /\ ~Running \/ ue.state \notin Connected => ServicePhase = Off
    /\ Running /\ ue.state \in Connected =>
          /\ ctx[ue.at].state \in Serve => ServicePhase = Phase("connected", ue.at.cell, 0)
          /\ ctx[ue.at].state = "HANDOVER_PREPARATION" =>
                ServicePhase = Phase("preparing", ue.at.cell, ctx[ue.at].target.cell)
          /\ ctx[ue.at].state = "HANDOVER_LEAVING" =>
                ServicePhase = Phase("executing", ue.at.cell, ctx[ue.at].target.cell)
          /\ ctx[ue.at].state \in Away =>
                /\ (\A p \in Places : ~Source(p)) => ServicePhase = Off
                /\ \A p \in Places : Source(p) => ServicePhase = Phase("executing", p.cell, ue.at.cell)
          /\ \A p \in Places : Source(p) =>
                ctx[ue.at].state \in {"NONE", "HANDOVER_JOINING", "HANDOVER_PATH_SWITCH"}

(* A source that is told is one that was told of the release of its UE.    *)
LEMMA ToldSame ==
    ASSUME TypeInv, NEW p \in Places
    PROVE  ArrivalTold(p) <=> Released(p)
  <1>t. p.cell \in Cells
    BY PlaceTypes
  <1>1. ASSUME NEW s \in Cells \ {p.cell}
        PROVE  /\ x2[<<s, p.cell>>] \in Seq(X2Msgs)
               /\ (\E i \in 1 .. Len(x2[<<s, p.cell>>]) :
                      /\ x2[<<s, p.cell>>][i].msg = "UeContextRelease"
                      /\ x2[<<s, p.cell>>][i].old = p.rnti)
                  <=> Told(x2[<<s, p.cell>>], "UeContextRelease", p.rnti)
    <2>1. <<s, p.cell>> \in Links
      BY <1>t, <1>1 DEF Links
    <2>2. PICK q : q = x2[<<s, p.cell>>]
      OBVIOUS
    <2>3. q \in Seq(X2Msgs)
      BY <2>1, <2>2 DEF TypeInv, LinksTyped
    <2>4. \A i \in 1 .. Len(q) : q[i] \in X2Msgs
      BY <2>3
    <2>5. (\E i \in 1 .. Len(q) : q[i].msg = "UeContextRelease" /\ q[i].old = p.rnti)
          <=> Told(q, "UeContextRelease", p.rnti)
      BY <2>4 DEF Told, Mail
    <2> QED
      BY <2>2, <2>3, <2>5
  <1> QED
    BY <1>1 DEF ArrivalTold, Released

(* The phase is what it is said to be.                                     *)
LEMMA Describes == TypeInv /\ Claimed /\ ClaimedOnce => Described
  <1> SUFFICES ASSUME TypeInv, Claimed, ClaimedOnce PROVE Described
    OBVIOUS
  <1>1. ~Running \/ ue.state \notin Connected => ServicePhase = Off
    BY DEF ServicePhase, Off, Phase, Connected
  <1>2. ASSUME Running, ue.state \in Connected
        PROVE  /\ ctx[ue.at].state \in Serve => ServicePhase = Phase("connected", ue.at.cell, 0)
               /\ ctx[ue.at].state = "HANDOVER_PREPARATION" =>
                     ServicePhase = Phase("preparing", ue.at.cell, ctx[ue.at].target.cell)
               /\ ctx[ue.at].state = "HANDOVER_LEAVING" =>
                     ServicePhase = Phase("executing", ue.at.cell, ctx[ue.at].target.cell)
               /\ ctx[ue.at].state \in Away =>
                     /\ (\A p \in Places : ~Source(p)) => ServicePhase = Off
                     /\ \A p \in Places : Source(p) => ServicePhase = Phase("executing", p.cell, ue.at.cell)
    <2> DEFINE sources == {p \in Places : /\ ctx[p].state = "HANDOVER_LEAVING" /\ ctx[p].target = ue.at
                                          /\ ~ArrivalTold(p)}
               state == IF HasUeManager(ue.at) THEN ctx[ue.at].state ELSE "NONE"
    <2>1. ue.at \in Places
      BY <1>2 DEF TypeInv, UeTyped, Connected
    <2>2. state = ctx[ue.at].state
      BY <2>1 DEF HasUeManager
    <2>3. \A p \in Places : p \in sources <=> Source(p)
      BY ToldSame DEF Source
    <2>4. ServicePhase =
             CASE state \in {"CONNECTION_SETUP", "ATTACH_REQUEST", "CONNECTED_NORMALLY",
                             "CONNECTION_RECONFIGURATION", "HANDOVER_PATH_SWITCH"} ->
                    [phase |-> "connected", cell |-> ue.at.cell, target |-> 0]
               [] state = "HANDOVER_PREPARATION" ->
                    [phase |-> "preparing", cell |-> ue.at.cell, target |-> ctx[ue.at].target.cell]
               [] state = "HANDOVER_LEAVING" ->
                    [phase |-> "executing", cell |-> ue.at.cell, target |-> ctx[ue.at].target.cell]
               [] OTHER ->
                    IF sources = {} THEN [phase |-> "disconnected", cell |-> 0, target |-> 0]
                    ELSE [phase |-> "executing", cell |-> (CHOOSE p \in sources : TRUE).cell,
                          target |-> ue.at.cell]
      BY <1>2 DEF ServicePhase, Connected
    <2>5. \A p, q \in Places : Source(p) /\ Source(q) => p = q
      <3>1. \A p \in Places : Source(p) => Claims(p, ue.at)
        BY DEF Source, Claims
      <3> QED
        BY <2>1, <3>1 DEF ClaimedOnce
    <2>6. ASSUME NEW p \in Places, Source(p) PROVE (CHOOSE o \in sources : TRUE) = p
      <3>1. p \in sources
        BY <2>3, <2>6
      <3>2. (CHOOSE o \in sources : TRUE) \in sources
        BY <3>1
      <3>3. PICK o : o = CHOOSE r \in sources : TRUE
        OBVIOUS
      <3>4. o \in sources /\ o \in Places
        BY <3>2, <3>3
      <3>5. Source(o)
        BY <2>3, <3>4
      <3> QED
        BY <2>5, <2>6, <3>3, <3>4, <3>5
    <2>7. (\A p \in Places : ~Source(p)) => sources = {}
      BY <2>3
    <2>8. \A p \in Places : Source(p) => sources # {}
      BY <2>3
    <2> HIDE DEF sources, state
    <2>9. CASE ctx[ue.at].state \in Serve
      BY <2>2, <2>4, <2>9 DEF Serve, Settling, Phase, Away
    <2>10. CASE ctx[ue.at].state \in {"HANDOVER_PREPARATION", "HANDOVER_LEAVING"}
      BY <2>2, <2>4, <2>10 DEF Serve, Settling, Phase, Away
    <2>11. CASE ctx[ue.at].state \in Away
      <3>1. ServicePhase = IF sources = {} THEN [phase |-> "disconnected", cell |-> 0, target |-> 0]
                           ELSE [phase |-> "executing", cell |-> (CHOOSE p \in sources : TRUE).cell,
                                 target |-> ue.at.cell]
        BY <2>2, <2>4, <2>11 DEF Away
      <3>2. ctx[ue.at].state \notin Serve \cup {"HANDOVER_PREPARATION", "HANDOVER_LEAVING"}
        BY <2>11 DEF Away, Serve, Settling
      <3>3. (\A p \in Places : ~Source(p)) => ServicePhase = Off
        BY <2>7, <3>1 DEF Off, Phase
      <3>4. \A p \in Places : Source(p) => ServicePhase = Phase("executing", p.cell, ue.at.cell)
        BY <2>6, <2>8, <3>1 DEF Phase
      <3> QED
        BY <3>2, <3>3, <3>4
    <2> QED
      BY <2>9, <2>10, <2>11
  <1>3. ASSUME ue.state \in Connected, NEW p \in Places, Source(p)
        PROVE  ctx[ue.at].state \in {"NONE", "HANDOVER_JOINING", "HANDOVER_PATH_SWITCH"}
    <2>1. ue.at \in Places
      BY <1>3 DEF TypeInv, UeTyped, Connected
    <2>2. ctx[ue.at].state \in ContextStates
      BY <2>1, PlaceTypes DEF TypeInv, CellsTyped, Contexts
    <2>3. Claims(p, ue.at) /\ ~Released(p)
      BY <1>3 DEF Source, Claims
    <2>4. ctx[ue.at].state \notin Early \cup InPlace \cup {"HANDOVER_LEAVING"}
      BY <2>1, <2>3 DEF Claimed
    <2> QED
      BY <2>2, <2>4 DEF ContextStates, Early, InPlace, Up
  <1> QED
    BY <1>1, <1>2, <1>3 DEF Described

\* A step of the service, or none.
Simulates(p, q) ==
    \/ q = p
    \/ p.phase = "disconnected" /\ \E c \in Cells : q = Phase("connected", c, 0)
    \/ p.phase = "connected" /\ \E c \in Cells \ {p.cell} : q = Phase("preparing", p.cell, c)
    \/ p.phase = "preparing" /\ q = Phase("connected", p.cell, 0)
    \/ p.phase = "preparing" /\ q = Phase("executing", p.cell, p.target)
    \/ p.phase = "executing" /\ q = Phase("connected", p.target, 0)
    \/ p.phase # "disconnected" /\ q = Off

(* Such a step is one of module LteHandoverService.                        *)
LEMMA SimulatesService ==
    ASSUME Simulates(ServicePhase, ServicePhase')
    PROVE  [Service!Next]_(Service!vars)
  <1> DEFINE p == ServicePhase
             q == ServicePhase'
  <1>1. CASE q = p
    <2>1. Service!vars' = Service!vars
      BY <1>1 DEF Service!vars
    <2> QED
      BY <2>1
  <1>2. CASE q # p
    BY <1>2 DEF Simulates, Phase, Off, Service!Next, Service!Connect, Service!Request, Service!Refuse,
       Service!Admit, Service!Complete, Service!Lose
  <1> QED
    BY <1>1, <1>2

(* A program that ended stays so.                                          *)
LEMMA EndedStays == [Next]_vars /\ ~Running => ~Running'
  <1> SUFFICES ASSUME [Next]_vars, ~Running PROVE ~Running'
    OBVIOUS
  <1>n. ASSUME NEW ch, NEW msg, NextRrc(ch, msg) PROVE FALSE
    BY <1>n DEF NextRrc
  <1>x. ASSUME NEW s, NEW d, NEW msg, NextX2(s, d, msg) PROVE FALSE
    BY <1>x DEF NextX2, Settled
  <1>s. ~Settled
    BY DEF Settled
  <1>1. CASE UNCHANGED vars \/ Ended
    BY <1>1 DEF vars, Ended, Running
  <1>2. CASE UeStep
    BY <1>2, <1>s DEF UeStep, SelectCell, RandomAccess, HandoverRandomAccess, HandoverRandomAccessFailed,
       RadioLinkFailure, ConnectionTimeout
  <1>3. CASE RrcStep
    <2>1. ASSUME NEW ch, \/ RecvRrcConnectionSetup(ch) \/ RecvRrcConnectionReject(ch)
                         \/ RecvHandoverCommand(ch) \/ RecvReconfiguration(ch) \/ LoseInTheAir(ch)
          PROVE  FALSE
      BY <2>1, <1>n, <1>s DEF RecvRrcConnectionSetup, RecvRrcConnectionReject, RecvHandoverCommand,
         RecvReconfiguration, LoseInTheAir
    <2>2. ASSUME NEW ch, \/ \E admit \in BOOLEAN : RecvRrcConnectionRequest(ch, admit)
                         \/ RecvRrcConnectionSetupCompleted(ch) \/ RecvReconfigurationCompleted(ch)
          PROVE  FALSE
      BY <2>2, <1>n DEF RecvRrcConnectionRequest, RecvRrcConnectionSetupCompleted, RecvReconfigurationCompleted
    <2>3. ~RecvRrcConnectionRelease /\ ~RecvContextRemove
      BY <1>n DEF RecvRrcConnectionRelease, RecvContextRemove
    <2> QED
      BY <1>3, <2>1, <2>2, <2>3 DEF RrcStep
  <1>4. ASSUME NEW s, NEW d, X2Step(s, d) PROVE FALSE
    BY <1>4, <1>x DEF X2Step, AdmitHandoverRequest, RefuseHandoverRequest, RecvHandoverRequestAck,
       RecvHandoverPreparationFailure, RecvUeContextRelease, RecvHandoverCancel, RecvUeData
  <1>5. ASSUME NEW p, NEW c, PrepareHandover(p, c) PROVE FALSE
    BY <1>5, <1>s DEF PrepareHandover
  <1>6. ASSUME NEW p, TimerStep(p) PROVE FALSE
    BY <1>6, <1>s DEF TimerStep, ConnectionTimersExpire, HandoverJoiningTimeout, HandoverLeavingTimeout
  <1>7. ~CoreStep /\ ~SendDownlink /\ ~RecvFromS1u
    BY <1>s DEF CoreStep, SgwRecvFromMme, PgwRecvFromSgw, MmeRecvCreateSessionResponse,
       MmeRecvModifyBearerResponse, MmeRecvDeleteBearerRequest, SendDownlink, RecvFromS1u
  <1> QED
    BY <1>1, <1>2, <1>3, <1>4, <1>5, <1>6, <1>7 DEF Next

(* The handover that a context prepares is to one cell.                    *)
LEMMA PreparingStays ==
    ASSUME Base, Effects, NEW p \in Places, ctx[p].state = "HANDOVER_PREPARATION",
           ctx'[p].state = "HANDOVER_PREPARATION"
    PROVE  ctx'[p].target = ctx[p].target
  <1> DEFINE Goal == ctx'[p].target = ctx[p].target
  <1>u. ctx'[p] = ctx[p] => Goal
    OBVIOUS
  <1>t. ASSUME NEW o, NEW state, NEW source, NEW target, NEW timers, Turned(ctx, ctx', o, state, source, target, timers),
               o # p \/ target = ctx[p].target \/ state # "HANDOVER_PREPARATION"
        PROVE  Goal
    BY <1>t DEF Turned
  <1>e. ASSUME NEW o, NEW states, NEW state, NEW timers, Enters(o, states, state, timers) PROVE Goal
    <2>1. PICK source, target : source = ctx[o].source /\ target = ctx[o].target
      OBVIOUS
    <2>2. Turned(ctx, ctx', o, state, source, target, timers)
      BY <1>e, <2>1 DEF Enters
    <2> QED
      BY <2>1, <2>2, <1>t
  <1>g. ASSUME NEW o, Gone(o) PROVE Goal
    BY <1>g, <1>t DEF Gone
  <1>c. ASSUME NEW o, NEW states, Continues(o, states) PROVE Goal
    BY <1>c, <1>e DEF Continues
  <1>1. CASE UeEffect
    BY <1>1, <1>u, <1>t DEF UeEffect, Still, Selecting, Accessing, Arriving, Leaves
  <1>2. CASE RrcEffect
    BY <1>2, <1>u, <1>e, <1>g, <1>c DEF RrcEffect, Connecting, Rejected, Commanded, Replying, Dropping,
       Admitting, Completing, Reconfigures, Removed
  <1>3. CASE X2Effect
    <2>1. ASSUME NEW s, NEW d, NEW o, Admits(s, d, o) PROVE Goal
      BY <2>1, <1>t DEF Admits
    <2>2. ASSUME NEW s, NEW d, NEW o, NEW q, Commands(s, d, o, q) PROVE Goal
      <3>1. PICK source, timers : Turned(ctx, ctx', o, "HANDOVER_LEAVING", source, q, timers)
        BY <2>2 DEF Commands
      <3> QED
        BY <3>1, <1>t
    <2>3. ASSUME NEW s, NEW d, NEW o, Fails(s, d, o) \/ Ends(s, d, o) PROVE Goal
      BY <2>3, <1>u, <1>g, <1>c DEF Fails, Ends
    <2>4. ASSUME NEW s, NEW d, Cancels(s, d) \/ Refuses(s, d) PROVE Goal
      BY <2>4, <1>u, <1>e DEF Cancels, Refuses
    <2> QED
      BY <1>3, <2>1, <2>2, <2>3, <2>4 DEF X2Effect
  <1>4. CASE PlaceEffect
    <2>1. ASSUME NEW o \in Places, NEW c \in Cells, Prepares(o, c) PROVE Goal
      <3>1. ctx[o].state = "CONNECTED_NORMALLY"
        BY <2>1 DEF Prepares
      <3>2. o # p
        BY <3>1
      <3>3. PICK source, target, timers : Turned(ctx, ctx', o, "HANDOVER_PREPARATION", source, target, timers)
        BY <2>1 DEF Prepares
      <3> QED
        BY <3>2, <3>3, <1>t
    <2> QED
      BY <1>4, <2>1, <1>g, <1>c DEF PlaceEffect, Times, TimesJoining, TimesLeaving, SetsUp, Switches
  <1>5. CASE Forwards
    BY <1>5, <1>u, <1>e DEF Forwards
  <1> QED
    BY <1>1, <1>2, <1>3, <1>4, <1>5 DEF Effects

(* A UE that is lost.                                                      *)
LEMMA SimulatesLoss ==
    ASSUME TypeInv, Described, ServicePhase' = Off
    PROVE  Simulates(ServicePhase, ServicePhase')
  <1>1. ServicePhase = Off \/ ServicePhase.phase \in {"connected", "preparing", "executing"}
    <2>1. CASE ~Running \/ ue.state \notin Connected
      BY <2>1 DEF Described
    <2>2. CASE Running /\ ue.state \in Connected
      <3>1. ue.at \in Places
        BY <2>2 DEF TypeInv, UeTyped, Connected
      <3>2. ctx[ue.at].state \in ContextStates
        BY <3>1, PlaceTypes DEF TypeInv, CellsTyped, Contexts
      <3>3. ctx[ue.at].state \in Serve \cup {"HANDOVER_PREPARATION", "HANDOVER_LEAVING"} \cup Away
        BY <3>2 DEF ContextStates, Serve, Settling, Away
      <3>4. \E f, c, t : ServicePhase \in {Off, Phase(f, c, t)} /\ f \in {"connected", "preparing", "executing"}
        BY <2>2, <3>3 DEF Described
      <3>5. PICK f, c, t : ServicePhase \in {Off, Phase(f, c, t)} /\ f \in {"connected", "preparing", "executing"}
        BY <3>4
      <3> QED
        BY <3>5 DEF Phase
    <2> QED
      BY <2>1, <2>2
  <1> QED
    BY <1>1 DEF Simulates

(* The source of a handover, but for the one that commands it.             *)
LEMMA SourcesMove ==
    ASSUME Base, Effects, UNCHANGED ue, ctx[ue.at].state \notin ServingStates, NEW p \in Places, Source(p)'
    PROVE  Source(p)
  <1>1. ctx'[p].state = "HANDOVER_LEAVING" /\ ctx'[p].target = ue.at /\ ~Released(p)'
    BY DEF Source
  <1>2. Follows(p)
    BY AllFollow
  <1>3. CASE ctx[p].state = "HANDOVER_LEAVING"
    <2>1. ctx[p].target = ue.at
      BY <1>1, <1>2, <1>3 DEF Follows
    <2>2. ~Released(p)
      BY <1>1, <1>3, ReleasedStays
    <2> QED
      BY <1>3, <2>1, <2>2 DEF Source
  <1>4. ASSUME NEW s \in Cells, NEW d \in Cells, NEW q \in Places, Commands(s, d, p, q) PROVE FALSE
    <2>1. Calm /\ ctx[p].state = "HANDOVER_PREPARATION"
      <3>1. Offering(p, q) /\ Calm
        BY <1>4, CommandsOffer
      <3> QED
        BY <3>1 DEF Offering
    <2>2. Here(p)
      BY <2>1, ServedHere DEF Base, ServingStates
    <2> QED
      BY <2>1, <2>2 DEF Here, ServingStates
  <1> QED
    BY <1>1, <1>2, <1>3, <1>4 DEF Follows

(* The UE stays where it is: the context there changes, or its source does.*)
LEMMA SimulatesContext ==
    ASSUME Base, Base', Effects, Described, Described', Running, Running',
           UNCHANGED ue, ue.state \in Connected
    PROVE  Simulates(ServicePhase, ServicePhase')
  <1> DEFINE u == ue.at
             state == ctx[u].state
  <1>1. u \in Places /\ u.cell \in Cells
    BY PlaceTypes DEF Base, TypeInv, UeTyped, Connected
  <1>2. state \in ContextStates /\ ctx'[u].state \in ContextStates
    <2>1. TypeInv /\ TypeInv'
      BY DEF Base
    <2> QED
      BY <1>1, <2>1, PlaceTypes DEF TypeInv, CellsTyped, Contexts
  <1>3. Follows(u) /\ Fate(u)
    BY <1>1, AllFollow, Fates
  <1>4. /\ state \in Serve => ServicePhase = Phase("connected", u.cell, 0)
        /\ state = "HANDOVER_PREPARATION" => ServicePhase = Phase("preparing", u.cell, ctx[u].target.cell)
        /\ state = "HANDOVER_LEAVING" => ServicePhase = Phase("executing", u.cell, ctx[u].target.cell)
        /\ state \in Away =>
              /\ (\A p \in Places : ~Source(p)) => ServicePhase = Off
              /\ \A p \in Places : Source(p) => ServicePhase = Phase("executing", p.cell, u.cell)
        /\ \A p \in Places : Source(p) => state \in {"NONE", "HANDOVER_JOINING", "HANDOVER_PATH_SWITCH"}
    BY DEF Described
  <1>5. /\ ctx'[u].state \in Serve => ServicePhase' = Phase("connected", u.cell, 0)
        /\ ctx'[u].state = "HANDOVER_PREPARATION" =>
              ServicePhase' = Phase("preparing", u.cell, ctx'[u].target.cell)
        /\ ctx'[u].state = "HANDOVER_LEAVING" =>
              ServicePhase' = Phase("executing", u.cell, ctx'[u].target.cell)
        /\ ctx'[u].state \in Away =>
              /\ (\A p \in Places : ~Source(p)') => ServicePhase' = Off
              /\ \A p \in Places : Source(p)' => ServicePhase' = Phase("executing", p.cell, u.cell)
    <2>1. ue' = ue
      OBVIOUS
    <2> QED
      BY <2>1 DEF Described, Source, Released, Told, Mail
  <1>6. CASE ctx'[u].state \in Serve
    <2>1. state \in Serve \cup {"HANDOVER_PREPARATION"} \cup Away
      BY <1>2, <1>3, <1>6 DEF Follows, ContextStates, Serve, Settling, Away
    <2>2. CASE state \in Serve
      BY <1>4, <1>5, <1>6, <2>2 DEF Simulates
    <2>3. CASE state = "HANDOVER_PREPARATION"
      <3>1. ServicePhase.phase = "preparing" /\ ServicePhase.cell = u.cell
        BY <1>4, <2>3 DEF Phase
      <3> QED
        BY <1>5, <1>6, <3>1 DEF Simulates
    <2>4. CASE state \in Away
      <3>1. CASE \A p \in Places : ~Source(p)
        <4>1. ServicePhase.phase = "disconnected"
          BY <1>4, <2>4, <3>1 DEF Off, Phase
        <4> QED
          BY <1>1, <1>5, <1>6, <4>1 DEF Simulates
      <3>2. ASSUME NEW p \in Places, Source(p) PROVE Simulates(ServicePhase, ServicePhase')
        <4>1. ServicePhase.phase = "executing" /\ ServicePhase.target = u.cell
          BY <1>4, <2>4, <3>2 DEF Phase
        <4> QED
          BY <1>5, <1>6, <4>1 DEF Simulates
      <3> QED
        BY <3>1, <3>2
    <2> QED
      BY <2>1, <2>2, <2>3, <2>4
  <1>7. CASE ctx'[u].state = "HANDOVER_PREPARATION"
    <2>1. ctx[u].state = "HANDOVER_PREPARATION" \/ \E c \in Cells : Prepares(u, c)
      BY <1>1, <1>7, ContextsMove DEF ContextMoves
    <2>2. CASE state = "HANDOVER_PREPARATION"
      <3>1. ctx'[u].target = ctx[u].target
        BY <1>1, <1>7, <2>2, PreparingStays
      <3> QED
        BY <1>4, <1>5, <1>7, <2>2, <3>1 DEF Simulates
    <2>3. ASSUME NEW c \in Cells, Prepares(u, c) PROVE Simulates(ServicePhase, ServicePhase')
      <3>1. state \in Serve
        BY <2>3 DEF Prepares, Serve, Settling
      <3>2. ctx'[u].target.cell \in Cells \ {u.cell}
        BY <1>1, <1>7 DEF Base, Allocated, CtxAllocated
      <3>3. ServicePhase.phase = "connected" /\ ServicePhase.cell = u.cell
        BY <1>4, <3>1 DEF Phase
      <3> QED
        BY <1>5, <1>7, <3>2, <3>3 DEF Simulates
    <2> QED
      BY <2>1, <2>2, <2>3
  <1>8. CASE ctx'[u].state = "HANDOVER_LEAVING"
    <2>1. CASE state = "HANDOVER_LEAVING"
      <3>1. ctx'[u].target = ctx[u].target
        BY <1>3, <1>8, <2>1 DEF Follows
      <3> QED
        BY <1>4, <1>5, <1>8, <2>1, <3>1 DEF Simulates
    <2>2. ASSUME NEW s \in Cells, NEW d \in Cells, NEW q \in Places, Commands(s, d, u, q)
          PROVE  Simulates(ServicePhase, ServicePhase')
      <3>1. state = "HANDOVER_PREPARATION" /\ ctx[u].target.cell = s
        BY <1>1, <2>2, CommandsKeeps DEF Base, Preparing
      <3>2. ctx'[u].target = q /\ q.cell = s
        <4>1. ctx'[u].target = q
          BY <1>1, <2>2, CommandsOffer
        <4>2. q.cell = s
          BY <2>2 DEF Commands
        <4> QED
          BY <4>1, <4>2
      <3>3. /\ ServicePhase.phase = "preparing" /\ ServicePhase.cell = u.cell
            /\ ServicePhase.target = s
        BY <1>4, <3>1 DEF Phase
      <3>4. ServicePhase' = Phase("executing", u.cell, s)
        BY <1>5, <1>8, <3>2
      <3> QED
        BY <3>3, <3>4 DEF Simulates
    <2> QED
      BY <1>3, <1>8, <2>1, <2>2 DEF Follows
  <1>9. CASE ctx'[u].state \in Away
    <2>1. state \notin ServingStates
      <3>1. ~Removing(u)
        BY NoRemoval
      <3> QED
        BY <1>3, <1>9, <3>1 DEF Fate, ServingStates, Away
    <2>2. CASE \A p \in Places : ~Source(p)'
      <3>1. ServicePhase' = Off
        BY <1>5, <1>9, <2>2
      <3> QED
        BY <3>1, SimulatesLoss DEF Base
    <2>3. ASSUME NEW p \in Places, Source(p)' PROVE Simulates(ServicePhase, ServicePhase')
      <3>1. Source(p)
        BY <2>1, <2>3, SourcesMove
      <3>2. state \in Away
        BY <1>4, <2>1, <3>1 DEF ServingStates, Away
      <3>3. ServicePhase = Phase("executing", p.cell, u.cell) /\ ServicePhase' = Phase("executing", p.cell, u.cell)
        BY <1>4, <1>5, <1>9, <2>3, <3>1, <3>2
      <3> QED
        BY <3>3 DEF Simulates
    <2> QED
      BY <2>2, <2>3
  <1> QED
    BY <1>2, <1>6, <1>7, <1>8, <1>9 DEF ContextStates, Serve, Settling, Away

(* The UE is told to go to where it is expected.                           *)
LEMMA SimulatesCommand ==
    ASSUME Base, Support, ServiceInv, Described, Described', Running, Running',
           NEW m \in Msgs(rrc), Commanded(m), m.at = ue.at
    PROVE  Simulates(ServicePhase, ServicePhase')
  <1>1. /\ m.msg = "HandoverCommand" /\ ue.state = "CONNECTED_NORMALLY"
        /\ ue'.state = "CONNECTED_HANDOVER" /\ ue'.at = m.target /\ UNCHANGED <<ctx, x2>>
    BY DEF Commanded
  <1>2. m.at \in Places /\ m.target \in Places
    BY <1>1 DEF Base, Allocated, RrcAllocated, Known
  <1>3. ~Releasing
    <2> SUFFICES ASSUME NEW n \in RrcMsgs, rrc["now"] = <<n>>, n.msg = "Release" PROVE FALSE
      BY DEF Releasing, Due
    <2>1. rrc["now"] = <<m>>
      BY DEF Commanded, Heard, Calm
    <2>2. n = m
      BY <2>1
    <2> QED
      BY <1>1, <2>2
  <1>4. Supports(m.at, m.target.cell)
    BY <1>1, <1>3 DEF Support, CommandSupported
  <1>5. ctx[m.at].state = "HANDOVER_LEAVING" /\ ~Released(m.at)
    BY <1>4 DEF Supports
  <1>6. ctx[m.at].target = m.target
    BY <1>1, <1>5 DEF ServiceInv, CommandsStand
  <1>7. ctx[m.target].state \in {"HANDOVER_JOINING", "NONE"}
    <2>1. Dest(m.target)
      BY <1>1 DEF Dest
    <2> QED
      BY <1>2, <2>1 DEF ServiceInv, Joins
  <1>8. ServicePhase = Phase("executing", m.at.cell, m.target.cell)
    BY <1>1, <1>5, <1>6 DEF Described, Connected
  <1>9. Source(m.at)'
    BY <1>1, <1>5, <1>6 DEF Source, Released, Told, Mail
  <1>10. ctx'[ue'.at].state \in Away /\ ue'.state \in Connected
    BY <1>1, <1>7 DEF Away, Connected
  <1>11. ServicePhase' = Phase("executing", m.at.cell, m.target.cell)
    BY <1>1, <1>2, <1>9, <1>10 DEF Described
  <1> QED
    BY <1>8, <1>11 DEF Simulates

(* The UE connects, where a context is set up.                             *)
LEMMA SimulatesConnecting ==
    ASSUME Base, ServiceInv, Described, Described', Running, Running', NEW m, Connecting(m)
    PROVE  Simulates(ServicePhase, ServicePhase')
  <1>1. /\ ue.state = "IDLE_CONNECTING" /\ ue'.state = "CONNECTED_NORMALLY" /\ ue'.at = ue.at
        /\ UNCHANGED <<ctx, x2>>
    BY DEF Connecting
  <1>2. ue.at \in Places /\ ue.at.cell \in Cells
    BY <1>1, PlaceTypes DEF Base, TypeInv, UeTyped
  <1>3. ServicePhase = Off
    BY <1>1 DEF Described, Connected
  <1>4. ctx[ue.at].state \in {"INITIAL_RANDOM_ACCESS", "CONNECTION_SETUP", "CONNECTION_REJECTED", "NONE"}
    BY <1>1 DEF ServiceInv, Connects
  <1>5. ASSUME NEW p \in Places, Source(p)' PROVE FALSE
    <2>1. Claims(p, ue.at)
      BY <1>1, <1>5 DEF Source, Claims
    <2> QED
      BY <1>1, <1>2, <2>1 DEF ServiceInv, Claimed
  <1>6. Running' /\ ue'.state \in Connected
    BY <1>1 DEF Connected
  <1>7. CASE ctx[ue.at].state = "CONNECTION_SETUP"
    <2>1. ServicePhase' = Phase("connected", ue.at.cell, 0)
      BY <1>1, <1>6, <1>7 DEF Described, Serve
    <2>2. ServicePhase.phase = "disconnected"
      BY <1>3 DEF Off, Phase
    <2> QED
      BY <1>2, <2>1, <2>2 DEF Simulates
  <1>8. CASE ctx[ue.at].state # "CONNECTION_SETUP"
    <2>1. ctx'[ue'.at].state \in Away
      BY <1>1, <1>4, <1>8 DEF Away
    <2>2. ServicePhase' = Off
      BY <1>5, <1>6, <2>1 DEF Described
    <2> QED
      BY <1>3, <2>2 DEF Simulates
  <1> QED
    BY <1>7, <1>8

(* The UE arrives where it was told to go, or finds no context there and   *)
(* is taken for a new one.                                                 *)
LEMMA SimulatesArrival ==
    ASSUME Base, Described, Described', Running, Running', ue'.state \in Connected,
           Arriving \/ \E p \in Places : Accessing(p)
    PROVE  Simulates(ServicePhase, ServicePhase')
  <1>1. CASE Arriving
    <2>1. ue.state \in Connected /\ ue'.at = ue.at /\ UNCHANGED <<ctx, x2>>
      BY <1>1 DEF Arriving, Connected
    <2>2. \A p \in Places : Source(p)' <=> Source(p)
      BY <2>1 DEF Source, Released, Told, Mail
    <2>3. ue.at \in Places
      BY <2>1 DEF Base, TypeInv, UeTyped, Connected
    <2>4. ctx[ue.at].state \in Serve \cup {"HANDOVER_PREPARATION", "HANDOVER_LEAVING"} \cup Away
      <3>1. ctx[ue.at].state \in ContextStates
        BY <2>3, PlaceTypes DEF Base, TypeInv, CellsTyped, Contexts
      <3> QED
        BY <3>1 DEF ContextStates, Serve, Settling, Away
    <2>5. ServicePhase' = ServicePhase
      <3>1. CASE ctx[ue.at].state \in Serve
        BY <2>1, <3>1 DEF Described
      <3>2. CASE ctx[ue.at].state \in {"HANDOVER_PREPARATION", "HANDOVER_LEAVING"}
        BY <2>1, <3>2 DEF Described
      <3>3. CASE ctx[ue.at].state \in Away /\ \A p \in Places : ~Source(p)
        BY <2>1, <2>2, <3>3 DEF Described
      <3>4. ASSUME ctx[ue.at].state \in Away, NEW p \in Places, Source(p) PROVE ServicePhase' = ServicePhase
        <4>1. ServicePhase = Phase("executing", p.cell, ue.at.cell)
          BY <2>1, <3>4 DEF Described
        <4>2. ServicePhase' = Phase("executing", p.cell, ue.at.cell)
          BY <2>1, <2>2, <3>4 DEF Described
        <4> QED
          BY <4>1, <4>2
      <3> QED
        BY <2>4, <3>1, <3>2, <3>3, <3>4
    <2> QED
      BY <2>5 DEF Simulates
  <1>2. ASSUME NEW q \in Places, Accessing(q) PROVE Simulates(ServicePhase, ServicePhase')
    <2>1. ue'.at = q /\ ctx'[q].state = "INITIAL_RANDOM_ACCESS"
      BY <1>2 DEF Accessing, Turned
    <2>2. \A p \in Places : ~Source(p)'
      BY <2>1 DEF Described
    <2>3. ServicePhase' = Off
      BY <2>1, <2>2 DEF Described, Away
    <2> QED
      BY <2>3, SimulatesLoss DEF Base
  <1> QED
    BY <1>1, <1>2

(* Every step of the handover is a step of the service, or none.           *)
LEMMA ServiceSimulated ==
    ASSUME Base, Base', Effects, Support, ServiceInv, Described, Described', ~Running => ~Running'
    PROVE  Simulates(ServicePhase, ServicePhase')
  <1>1. CASE ~Running \/ ~Running' \/ ue'.state \notin Connected
    <2>1. ServicePhase' = Off
      BY <1>1 DEF Described
    <2> QED
      BY <2>1, SimulatesLoss DEF Base
  <1>2. CASE Running /\ Running' /\ ue'.state \in Connected
    <2>1. UeMoves
      BY UesMove
    <2>2. CASE UNCHANGED ue
      <3>1. ue.state \in Connected
        BY <1>2, <2>2
      <3> QED
        BY <1>2, <2>2, <3>1, SimulatesContext
    <2>3. CASE Arriving \/ \E p \in Places : Accessing(p)
      BY <1>2, <2>3, SimulatesArrival
    <2>4. ASSUME NEW m \in Msgs(rrc), Connecting(m) PROVE Simulates(ServicePhase, ServicePhase')
      BY <1>2, <2>4, SimulatesConnecting
    <2>5. ASSUME NEW m \in Msgs(rrc), Commanded(m), m.at = ue.at PROVE Simulates(ServicePhase, ServicePhase')
      BY <1>2, <2>5, SimulatesCommand
    <2>6. ue' # Idle
      BY <1>2 DEF Idle, Connected
    <2> QED
      BY <1>2, <2>1, <2>2, <2>3, <2>4, <2>5, <2>6 DEF UeMoves
  <1> QED
    BY <1>1, <1>2

(***************************************************************************)
(* The messages, timers and failures of the X2 handover implement the      *)
(* service, for any number of cells and whatever the speed of the links:   *)
(* nothing but a handover that was asked for and admitted moves the UE     *)
(* from a cell that serves it to another, and it moves there.              *)
(***************************************************************************)
THEOREM HandoverImplementsService == Spec => ImplementsService
  <1> DEFINE Inv == Base /\ Support /\ ServiceInv
  <1>1. Init => Inv
    BY InitTypes, AllocatedInit, ProtocolInit, ServingInit, SupportInit, ServiceInvInit DEF Base
  <1>2. Inv /\ [Next]_vars => Inv'
    <2> SUFFICES ASSUME Inv, [Next]_vars PROVE Inv'
      OBVIOUS
    <2>1. Effects /\ mishaps \subseteq mishaps'
      BY StepEffects DEF Base
    <2>2. Base'
      BY BaseStep
    <2>3. Support'
      BY <2>1, SupportStep
    <2>4. ServiceInv'
      BY <2>1, <2>2, ServiceInvStep
    <2> QED
      BY <2>2, <2>3, <2>4
  <1>3. Inv => Described
    BY Describes DEF Base, ServiceInv
  <1>4. Inv /\ Inv' /\ Described /\ Described' /\ [Next]_vars => [Service!Next]_(Service!vars)
    <2> SUFFICES ASSUME Inv, Inv', Described, Described', [Next]_vars PROVE [Service!Next]_(Service!vars)
      OBVIOUS
    <2>1. Effects
      BY StepEffects DEF Base
    <2>2. Base'
      OBVIOUS
    <2>3. ~Running => ~Running'
      BY EndedStays
    <2>4. Simulates(ServicePhase, ServicePhase')
      BY <2>1, <2>2, <2>3, ServiceSimulated
    <2> QED
      BY <2>4, SimulatesService
  <1>5. Init => Service!Init
    <2> SUFFICES ASSUME Init PROVE Service!Init
      OBVIOUS
    <2>1. ue.state \notin Connected
      BY DEF Init, Idle, Connected
    <2>2. ServicePhase = Off
      BY <1>1, <1>3, <2>1 DEF Described
    <2> QED
      BY <2>2 DEF Service!Init, Off, Phase
  <1> HIDE DEF Inv
  <1> QED
    BY <1>1, <1>2, <1>3, <1>4, <1>5, PTL DEF Spec, ImplementsService, Service!Safety

=============================================================================
