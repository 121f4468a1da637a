------------------------ MODULE DoubleBuffer_proofs ------------------------
(***************************************************************************)
(* Proofs about DoubleBuffer, for every bound MaxSent on the packets.      *)
(*                                                                         *)
(* The inductive invariant IInv adds to the checked invariants where the   *)
(* lock is held (Exclusion), that the reader swaps only when its own queue *)
(* is empty (SwapsWhenEmpty), and the count the loss bound rests on: while *)
(* the reader empties WriteQueue, the packet in it and the push under way  *)
(* are together at most one (WindowOfOne).  The order of delivery is       *)
(* carried by InOrder, which speaks of the three queues point by point.    *)
(***************************************************************************)
EXTENDS DoubleBuffer, SequenceTheorems, TLAPS

Ordered(s)  == \A i, j \in 1..Len(s) : i < j => s[i] < s[j]
Below(s, t) == \A i \in 1..Len(s), j \in 1..Len(t) : s[i] < t[j]

InOrder ==
    /\ Ordered(delivered) /\ Ordered(ReadQueue) /\ Ordered(WriteQueue)
    /\ Below(delivered, ReadQueue) /\ Below(delivered, WriteQueue)
    /\ Below(ReadQueue, WriteQueue)
    /\ \A i \in 1..Len(delivered) : delivered[i] <= sent
    /\ \A i \in 1..Len(ReadQueue) : ReadQueue[i] <= sent
    /\ \A i \in 1..Len(WriteQueue) : WriteQueue[i] <= sent

InPush == IF wpc \in {"push", "pushing"} THEN 1 ELSE 0

Exclusion == spinLock <=> rpc \in {"swap", "swapping", "drain", "unlock"}

SwapsWhenEmpty == rpc \in {"lock", "swap", "swapping"} => ReadQueue = << >>

WindowOfOne ==
    IF rpc = "drain"
    THEN /\ Len(WriteQueue) + InPush <= 1
         /\ Len(dropped) + Len(WriteQueue) + InPush <= swapCount + 1
    ELSE Len(dropped) <= swapCount

Bounded == wpc # "idle" => sent < MaxSent

IInv == /\ TypeOK /\ NothingUnaccounted /\ InOrder
        /\ Exclusion /\ SwapsWhenEmpty /\ WindowOfOne /\ Bounded

----------------------------------------------------------------------------
(* What the queue operations do to the length and the elements.            *)
LEMMA AppendNat ==
    ASSUME NEW s \in Seq(Nat), NEW e \in Nat
    PROVE  /\ Append(s, e) \in Seq(Nat)
           /\ Len(Append(s, e)) = Len(s) + 1
           /\ \A i \in 1..Len(s) : Append(s, e)[i] = s[i]
           /\ Append(s, e)[Len(s) + 1] = e
BY AppendProperties

LEMMA TailNat ==
    ASSUME NEW s \in Seq(Nat), s # << >>
    PROVE  /\ Head(s) \in Nat /\ Head(s) = s[1]
           /\ Len(s) \in Nat \ {0}
           /\ Tail(s) \in Seq(Nat)
           /\ Len(Tail(s)) = Len(s) - 1
           /\ \A i \in 1..Len(Tail(s)) : Tail(s)[i] = s[i + 1]
BY HeadTailProperties, EmptySeq

LEMMA EmptyNat == Len(<< >>) = 0 /\ << >> \in Seq(Nat)
BY EmptySeq

----------------------------------------------------------------------------
(* The relations InOrder is made of survive an Append of a larger packet    *)
(* and a Tail.                                                             *)
LEMMA AppendKeepsOrder ==
    ASSUME NEW s \in Seq(Nat), NEW e \in Nat, Ordered(s), \A i \in 1..Len(s) : s[i] < e
    PROVE  Ordered(Append(s, e))
<1> DEFINE a == Append(s, e)
<1>1. /\ Len(a) = Len(s) + 1 /\ Len(s) \in Nat
      /\ \A i \in 1..Len(s) : a[i] = s[i]
      /\ a[Len(s) + 1] = e
  BY AppendNat
<1>2. ASSUME NEW i \in 1..Len(a), NEW j \in 1..Len(a), i < j PROVE a[i] < a[j]
  <2>1. CASE j = Len(s) + 1
    BY <1>1, <1>2, <2>1
  <2>2. CASE j # Len(s) + 1
    <3>1. i \in 1..Len(s) /\ j \in 1..Len(s)
      BY <1>1, <1>2, <2>2
    <3> QED BY <1>1, <1>2, <3>1 DEF Ordered
  <2> QED BY <2>1, <2>2
<1> QED BY <1>2 DEF Ordered

LEMMA TailKeepsOrder ==
    ASSUME NEW s \in Seq(Nat), s # << >>, Ordered(s)
    PROVE  Ordered(Tail(s)) /\ \A i \in 1..Len(Tail(s)) : Head(s) < Tail(s)[i]
<1> DEFINE u == Tail(s)
<1>1. /\ Head(s) = s[1] /\ Len(s) \in Nat \ {0} /\ Len(u) = Len(s) - 1
      /\ \A i \in 1..Len(u) : u[i] = s[i + 1]
  BY TailNat
<1>2. \A i \in 1..Len(u) : i + 1 \in 1..Len(s) /\ 1 \in 1..Len(s) /\ 1 < i + 1
  BY <1>1
<1>3. Ordered(u)
  BY <1>1, <1>2 DEF Ordered
<1>4. \A i \in 1..Len(u) : Head(s) < u[i]
  BY <1>1, <1>2 DEF Ordered
<1> QED BY <1>3, <1>4

LEMMA AppendKeepsBelow ==
    ASSUME NEW s \in Seq(Nat), NEW t \in Seq(Nat), NEW e \in Nat, Below(s, t)
    PROVE  /\ (\A j \in 1..Len(t) : e < t[j]) => Below(Append(s, e), t)
           /\ (\A i \in 1..Len(s) : s[i] < e) => Below(s, Append(t, e))
<1>1. /\ Len(Append(s, e)) = Len(s) + 1 /\ Len(s) \in Nat
      /\ \A i \in 1..Len(s) : Append(s, e)[i] = s[i]
      /\ Append(s, e)[Len(s) + 1] = e
  BY AppendNat
<1>2. /\ Len(Append(t, e)) = Len(t) + 1 /\ Len(t) \in Nat
      /\ \A i \in 1..Len(t) : Append(t, e)[i] = t[i]
      /\ Append(t, e)[Len(t) + 1] = e
  BY AppendNat
<1>3. \A i \in 1..Len(s) + 1 : i \in 1..Len(s) \/ i = Len(s) + 1
  BY <1>1
<1>4. \A i \in 1..Len(t) + 1 : i \in 1..Len(t) \/ i = Len(t) + 1
  BY <1>2
<1>5. (\A j \in 1..Len(t) : e < t[j]) => Below(Append(s, e), t)
  BY <1>1, <1>3 DEF Below
<1>6. (\A i \in 1..Len(s) : s[i] < e) => Below(s, Append(t, e))
  BY <1>2, <1>4 DEF Below
<1> QED BY <1>5, <1>6

LEMMA TailKeepsBelow ==
    ASSUME NEW s \in Seq(Nat), NEW t \in Seq(Nat), Below(s, t)
    PROVE  /\ s # << >> => Below(Tail(s), t) /\ \A j \in 1..Len(t) : Head(s) < t[j]
           /\ t # << >> => Below(s, Tail(t)) /\ \A i \in 1..Len(s) : s[i] < Head(t)
<1>1. CASE s # << >>
  <2>1. /\ Head(s) = s[1] /\ Len(s) \in Nat \ {0} /\ Len(Tail(s)) = Len(s) - 1
        /\ \A i \in 1..Len(Tail(s)) : Tail(s)[i] = s[i + 1]
    BY <1>1, TailNat
  <2>2. 1 \in 1..Len(s) /\ \A i \in 1..Len(Tail(s)) : i + 1 \in 1..Len(s)
    BY <2>1
  <2> QED BY <2>1, <2>2 DEF Below
<1>2. CASE t # << >>
  <2>1. /\ Head(t) = t[1] /\ Len(t) \in Nat \ {0} /\ Len(Tail(t)) = Len(t) - 1
        /\ \A i \in 1..Len(Tail(t)) : Tail(t)[i] = t[i + 1]
    BY <1>2, TailNat
  <2>2. 1 \in 1..Len(t) /\ \A i \in 1..Len(Tail(t)) : i + 1 \in 1..Len(t)
    BY <2>1
  <2> QED BY <2>1, <2>2 DEF Below
<1> QED BY <1>1, <1>2

----------------------------------------------------------------------------
(* Typing.                                                                 *)
LEMMA InitTypeOK == Init => TypeOK
<1>1. 0 \in Nat
  OBVIOUS
<1> QED BY <1>1, EmptyNat, Zenon DEF Init, TypeOK, WriterPC, ReaderPC

LEMMA TypePreserved == ASSUME TypeOK, [Next]_vars PROVE TypeOK'
<1> USE DEF TypeOK, queues, history, WriterPC, ReaderPC
<1>1. CASE UNCHANGED vars
  BY <1>1 DEF vars
<1>2. CASE EnqueueWritePacket \/ SeeUnlocked \/ PushBegin
  BY <1>2 DEF EnqueueWritePacket, SeeUnlocked, PushBegin
<1>3. CASE PushEnd
  <2>1. Append(WriteQueue, sent + 1) \in Seq(Nat)
    BY AppendNat
  <2> QED BY <1>3, <2>1 DEF PushEnd
<1>4. CASE DequeueReadPacket
  <2>1. CASE ReadQueue = << >>
    BY <1>4, <2>1 DEF DequeueReadPacket
  <2>2. CASE ReadQueue # << >>
    <3>1. Head(ReadQueue) \in Nat /\ Tail(ReadQueue) \in Seq(Nat)
      BY <2>2, TailNat
    <3>2. Append(delivered, Head(ReadQueue)) \in Seq(Nat)
      BY <3>1, AppendNat
    <3> QED BY <1>4, <2>2, <3>1, <3>2 DEF DequeueReadPacket
  <2> QED BY <2>1, <2>2
<1>5. CASE SwapReturn \/ SwapProceed \/ Lock \/ SwapBegin \/ SwapEnd \/ UnLock
  BY <1>5 DEF SwapReturn, SwapProceed, Lock, SwapBegin, SwapEnd, UnLock
<1>6. CASE DrainPop
  <2>1. CASE wpc = "pushing"
    BY <1>6, <2>1 DEF DrainPop
  <2>2. CASE wpc # "pushing"
    <3>1. Head(WriteQueue) \in Nat /\ Tail(WriteQueue) \in Seq(Nat)
      BY <1>6, <2>2, TailNat DEF DrainPop
    <3>2. Append(dropped, Head(WriteQueue)) \in Seq(Nat)
      BY <3>1, AppendNat
    <3> QED BY <1>6, <2>2, <3>1, <3>2 DEF DrainPop
  <2> QED BY <2>1, <2>2
<1>7. CASE DrainDone
  BY <1>7 DEF DrainDone
<1> QED BY <1>1, <1>2, <1>3, <1>4, <1>5, <1>6, <1>7 DEF Next, Writer, Reader

(* TypeOK is an invariant of the two threads, whatever the number of pushes. *)
THEOREM TypeCorrect == Spec => []TypeOK
<1>1. Init => TypeOK
  BY InitTypeOK
<1>2. TypeOK /\ [Next]_vars => TypeOK'
  BY TypePreserved
<1> QED BY <1>1, <1>2, PTL DEF Spec

----------------------------------------------------------------------------
(* The inductive step, one lemma per part of IInv.                         *)
LEMMA CountPreserved ==
    ASSUME TypeOK, NothingUnaccounted, SwapsWhenEmpty, [Next]_vars
    PROVE  NothingUnaccounted'
<1> USE DEF NothingUnaccounted, queues, history
<1>0. /\ Len(ReadQueue) \in Nat /\ Len(WriteQueue) \in Nat
      /\ Len(delivered) \in Nat /\ Len(dropped) \in Nat /\ sent \in Nat
  BY DEF TypeOK
<1>1. CASE UNCHANGED vars
  BY <1>1 DEF vars
<1>2. CASE EnqueueWritePacket \/ SeeUnlocked \/ PushBegin \/ DrainDone
  BY <1>2 DEF EnqueueWritePacket, SeeUnlocked, PushBegin, DrainDone
<1>3. CASE PushEnd
  <2>1. Len(WriteQueue') = Len(WriteQueue) + 1
    BY <1>3, AppendNat, sent + 1 \in Nat DEF PushEnd, TypeOK
  <2> QED BY <1>0, <1>3, <2>1 DEF PushEnd
<1>4. CASE DequeueReadPacket
  <2>1. CASE ReadQueue = << >>
    BY <1>4, <2>1 DEF DequeueReadPacket
  <2>2. CASE ReadQueue # << >>
    <3>1. Head(ReadQueue) \in Nat /\ Len(Tail(ReadQueue)) = Len(ReadQueue) - 1
      BY <2>2, TailNat DEF TypeOK
    <3>2. Len(Append(delivered, Head(ReadQueue))) = Len(delivered) + 1
      BY <3>1, AppendNat DEF TypeOK
    <3>3. /\ delivered' = Append(delivered, Head(ReadQueue)) /\ ReadQueue' = Tail(ReadQueue)
          /\ UNCHANGED <<WriteQueue, dropped, sent>>
      BY <1>4, <2>2 DEF DequeueReadPacket
    <3>4. /\ Len(delivered') = Len(delivered) + 1 /\ Len(ReadQueue') = Len(ReadQueue) - 1
          /\ Len(WriteQueue') = Len(WriteQueue) /\ Len(dropped') = Len(dropped)
          /\ sent' = sent
      BY <3>1, <3>2, <3>3, Zenon
    <3> QED BY <1>0, <3>4
  <2> QED BY <2>1, <2>2
<1>5. CASE SwapReturn \/ SwapProceed \/ Lock \/ SwapBegin \/ UnLock
  BY <1>5 DEF SwapReturn, SwapProceed, Lock, SwapBegin, UnLock
<1>6. CASE SwapEnd
  BY <1>0, <1>6 DEF SwapEnd
<1>7. CASE DrainPop
  <2>1. CASE wpc = "pushing"
    BY <1>7, <2>1 DEF DrainPop
  <2>2. CASE wpc # "pushing"
    <3>1. Head(WriteQueue) \in Nat /\ Len(Tail(WriteQueue)) = Len(WriteQueue) - 1
      BY <1>7, <2>2, TailNat DEF DrainPop, TypeOK
    <3>2. Len(Append(dropped, Head(WriteQueue))) = Len(dropped) + 1
      BY <3>1, AppendNat DEF TypeOK
    <3>3. /\ dropped' = Append(dropped, Head(WriteQueue)) /\ WriteQueue' = Tail(WriteQueue)
          /\ UNCHANGED <<ReadQueue, delivered, sent>>
      BY <1>7, <2>2 DEF DrainPop
    <3>4. /\ Len(dropped') = Len(dropped) + 1 /\ Len(WriteQueue') = Len(WriteQueue) - 1
          /\ Len(ReadQueue') = Len(ReadQueue) /\ Len(delivered') = Len(delivered)
          /\ sent' = sent
      BY <3>1, <3>2, <3>3, Zenon
    <3> QED BY <1>0, <3>4
  <2> QED BY <2>1, <2>2
<1> QED BY <1>1, <1>2, <1>3, <1>4, <1>5, <1>6, <1>7 DEF Next, Writer, Reader

LEMMA LockPreserved ==
    ASSUME TypeOK, Exclusion, SwapsWhenEmpty, [Next]_vars
    PROVE  Exclusion' /\ SwapsWhenEmpty'
<1> USE DEF TypeOK, ReaderPC, Exclusion, SwapsWhenEmpty, queues, history
<1>1. CASE UNCHANGED vars
  BY <1>1 DEF vars
<1>2. CASE Writer
  BY <1>2 DEF Writer, EnqueueWritePacket, SeeUnlocked, PushBegin, PushEnd
<1>3. CASE DequeueReadPacket \/ SwapReturn \/ SwapProceed \/ Lock \/ UnLock
  BY <1>3 DEF DequeueReadPacket, SwapReturn, SwapProceed, Lock, UnLock
<1>4. CASE SwapBegin \/ SwapEnd \/ DrainPop \/ DrainDone
  BY <1>4 DEF SwapBegin, SwapEnd, DrainPop, DrainDone
<1> QED BY <1>1, <1>2, <1>3, <1>4 DEF Next, Reader

LEMMA BoundPreserved ==
    ASSUME TypeOK, Bounded, [Next]_vars
    PROVE  Bounded'
<1> USE DEF Bounded, queues, history
<1>1. CASE UNCHANGED vars
  BY <1>1 DEF vars
<1>2. CASE Writer
  BY <1>2 DEF Writer, EnqueueWritePacket, SeeUnlocked, PushBegin, PushEnd
<1>3. CASE Reader
  BY <1>3 DEF Reader, DequeueReadPacket, SwapReturn, SwapProceed, Lock, SwapBegin, SwapEnd,
              DrainPop, DrainDone, UnLock
<1> QED BY <1>1, <1>2, <1>3 DEF Next

LEMMA WindowPreserved ==
    ASSUME TypeOK, Exclusion, SwapsWhenEmpty, WindowOfOne, [Next]_vars
    PROVE  WindowOfOne'
<1> USE DEF WindowOfOne, InPush, queues, history
<1>0. /\ Len(ReadQueue) \in Nat /\ Len(WriteQueue) \in Nat /\ Len(dropped) \in Nat
      /\ swapCount \in Nat /\ wpc \in WriterPC /\ rpc \in ReaderPC
      /\ spinLock \in BOOLEAN
  BY DEF TypeOK
<1>1. CASE UNCHANGED vars
  BY <1>1 DEF vars
<1>2. CASE EnqueueWritePacket
  BY <1>0, <1>2 DEF EnqueueWritePacket
<1>3. CASE SeeUnlocked
  BY <1>0, <1>3 DEF SeeUnlocked, Exclusion
<1>4. CASE PushBegin
  BY <1>0, <1>4 DEF PushBegin
<1>5. CASE PushEnd
  <2>1. Len(WriteQueue') = Len(WriteQueue) + 1
    BY <1>5, AppendNat, sent + 1 \in Nat DEF PushEnd, TypeOK
  <2> QED BY <1>0, <1>5, <2>1 DEF PushEnd
<1>6. CASE DequeueReadPacket \/ SwapReturn \/ SwapProceed \/ Lock \/ SwapBegin \/ UnLock
  BY <1>0, <1>6 DEF DequeueReadPacket, SwapReturn, SwapProceed, Lock, SwapBegin, UnLock
<1>7. CASE SwapEnd
  <2>1. Len(WriteQueue') = 0
    BY <1>7, EmptyNat DEF SwapEnd, SwapsWhenEmpty
  <2> QED BY <1>0, <1>7, <2>1 DEF SwapEnd
<1>8. CASE DrainPop
  <2>1. CASE wpc = "pushing"
    BY <1>8, <2>1 DEF DrainPop
  <2>2. CASE wpc # "pushing"
    <3>1. Head(WriteQueue) \in Nat /\ Len(Tail(WriteQueue)) = Len(WriteQueue) - 1
      BY <1>8, <2>2, TailNat DEF DrainPop, TypeOK
    <3>2. Len(Append(dropped, Head(WriteQueue))) = Len(dropped) + 1
      BY <3>1, AppendNat DEF TypeOK
    <3> QED BY <1>0, <1>8, <2>2, <3>1, <3>2 DEF DrainPop
  <2> QED BY <2>1, <2>2
<1>9. CASE DrainDone
  BY <1>0, <1>9, EmptyNat DEF DrainDone
<1> QED BY <1>1, <1>2, <1>3, <1>4, <1>5, <1>6, <1>7, <1>8, <1>9 DEF Next, Writer, Reader

LEMMA OrderPreserved ==
    ASSUME TypeOK, InOrder, SwapsWhenEmpty, [Next]_vars
    PROVE  InOrder'
<1> USE DEF queues, history
<1>1. CASE UNCHANGED vars \/ EnqueueWritePacket \/ SeeUnlocked \/ PushBegin \/ SwapReturn
           \/ SwapProceed \/ Lock \/ SwapBegin \/ DrainDone \/ UnLock
  <2>1. UNCHANGED <<ReadQueue, WriteQueue, delivered, sent>>
    BY <1>1 DEF vars, EnqueueWritePacket, SeeUnlocked, PushBegin, SwapReturn, SwapProceed,
                Lock, SwapBegin, DrainDone, UnLock
  <2> QED BY <2>1 DEF InOrder, Ordered, Below
<1>2. CASE PushEnd
  <2> DEFINE e == sent + 1
  <2>1. /\ WriteQueue' = Append(WriteQueue, e) /\ sent' = e
        /\ UNCHANGED <<ReadQueue, delivered>>
    BY <1>2 DEF PushEnd
  <2>2. /\ e \in Nat /\ \A n \in Nat : n <= sent => n < e /\ n <= e
        /\ \A s \in Seq(Nat) : \A i \in 1..Len(s) : s[i] \in Nat
    BY ElementOfSeq DEF TypeOK
  <2>3. \A i \in 1..Len(WriteQueue) : WriteQueue[i] < e
    BY <2>2 DEF InOrder, TypeOK
  <2>4. \A i \in 1..Len(ReadQueue) : ReadQueue[i] < e /\ ReadQueue[i] <= e
    BY <2>2 DEF InOrder, TypeOK
  <2>5. \A i \in 1..Len(delivered) : delivered[i] < e /\ delivered[i] <= e
    BY <2>2 DEF InOrder, TypeOK
  <2>6. Ordered(WriteQueue')
    BY <2>1, <2>2, <2>3, AppendKeepsOrder DEF InOrder, TypeOK
  <2>7. Below(delivered', WriteQueue') /\ Below(ReadQueue', WriteQueue')
    BY <2>1, <2>2, <2>4, <2>5, AppendKeepsBelow DEF InOrder, TypeOK
  <2>8. \A i \in 1..Len(WriteQueue') : WriteQueue'[i] <= sent'
    <3>1. /\ Len(WriteQueue') = Len(WriteQueue) + 1 /\ Len(WriteQueue) \in Nat
          /\ \A i \in 1..Len(WriteQueue) : WriteQueue'[i] = WriteQueue[i]
          /\ WriteQueue'[Len(WriteQueue) + 1] = e
      BY <2>1, <2>2, AppendNat DEF TypeOK
    <3>2. \A i \in 1..Len(WriteQueue) + 1 : i \in 1..Len(WriteQueue) \/ i = Len(WriteQueue) + 1
      BY <3>1
    <3>3. \A i \in 1..Len(WriteQueue) : WriteQueue[i] <= e
      BY <2>2 DEF InOrder, TypeOK
    <3> QED BY <2>1, <2>2, <3>1, <3>2, <3>3
  <2>9. Ordered(delivered') /\ Ordered(ReadQueue') /\ Below(delivered', ReadQueue')
    BY <2>1 DEF InOrder
  <2>10. /\ \A i \in 1..Len(delivered') : delivered'[i] <= sent'
         /\ \A i \in 1..Len(ReadQueue') : ReadQueue'[i] <= sent'
    BY <2>1, <2>4, <2>5
  <2> QED BY <2>6, <2>7, <2>8, <2>9, <2>10 DEF InOrder
<1>3. CASE DequeueReadPacket
  <2>1. CASE ReadQueue = << >>
    <3>1. UNCHANGED <<ReadQueue, WriteQueue, delivered, sent>>
      BY <1>3, <2>1 DEF DequeueReadPacket
    <3> QED BY <3>1 DEF InOrder, Ordered, Below
  <2>2. CASE ReadQueue # << >>
    <3> DEFINE h == Head(ReadQueue)
    <3>1. /\ delivered' = Append(delivered, h) /\ ReadQueue' = Tail(ReadQueue)
          /\ UNCHANGED <<WriteQueue, sent>>
      BY <1>3, <2>2 DEF DequeueReadPacket
    <3>2. /\ h \in Nat /\ h = ReadQueue[1] /\ Len(ReadQueue) \in Nat \ {0}
          /\ Tail(ReadQueue) \in Seq(Nat) /\ Len(Tail(ReadQueue)) = Len(ReadQueue) - 1
          /\ \A i \in 1..Len(Tail(ReadQueue)) : Tail(ReadQueue)[i] = ReadQueue[i + 1]
      BY <2>2, TailNat DEF TypeOK
    <3>3. Ordered(Tail(ReadQueue)) /\ \A i \in 1..Len(Tail(ReadQueue)) : h < Tail(ReadQueue)[i]
      BY <2>2, TailKeepsOrder DEF InOrder, TypeOK
    <3>4. /\ Below(delivered, Tail(ReadQueue))
          /\ \A i \in 1..Len(delivered) : delivered[i] < h
          /\ Below(Tail(ReadQueue), WriteQueue)
          /\ \A j \in 1..Len(WriteQueue) : h < WriteQueue[j]
      BY <2>2, TailKeepsBelow DEF InOrder, TypeOK
    <3>5. Ordered(Append(delivered, h))
      BY <3>2, <3>4, AppendKeepsOrder DEF InOrder, TypeOK
    <3>6. Below(Append(delivered, h), Tail(ReadQueue)) /\ Below(Append(delivered, h), WriteQueue)
      BY <3>2, <3>3, <3>4, AppendKeepsBelow DEF InOrder, TypeOK
    <3>7. \A i \in 1..Len(delivered') : delivered'[i] <= sent'
      <4>1. /\ Len(delivered') = Len(delivered) + 1 /\ Len(delivered) \in Nat
            /\ \A i \in 1..Len(delivered) : delivered'[i] = delivered[i]
            /\ delivered'[Len(delivered) + 1] = h
        BY <3>1, <3>2, AppendNat DEF TypeOK
      <4>2. \A i \in 1..Len(delivered) + 1 : i \in 1..Len(delivered) \/ i = Len(delivered) + 1
        BY <4>1
      <4>3. h <= sent
        BY <3>2 DEF InOrder
      <4> QED BY <3>1, <4>1, <4>2, <4>3 DEF InOrder
    <3>8. \A i \in 1..Len(ReadQueue') : ReadQueue'[i] <= sent'
      <4>1. \A i \in 1..Len(Tail(ReadQueue)) : i + 1 \in 1..Len(ReadQueue)
        BY <3>2
      <4> QED BY <3>1, <3>2, <4>1 DEF InOrder
    <3>9. Ordered(WriteQueue') /\ \A i \in 1..Len(WriteQueue') : WriteQueue'[i] <= sent'
      BY <3>1 DEF InOrder
    <3> QED BY <3>1, <3>3, <3>4, <3>5, <3>6, <3>7, <3>8, <3>9 DEF InOrder
  <2> QED BY <2>1, <2>2
<1>4. CASE SwapEnd
  <2>1. ReadQueue' = WriteQueue /\ WriteQueue' = << >> /\ UNCHANGED <<delivered, sent>>
    BY <1>4 DEF SwapEnd, SwapsWhenEmpty
  <2>2. 1..Len(WriteQueue') = {}
    BY <2>1, EmptyNat
  <2> QED BY <2>1, <2>2 DEF InOrder, Ordered, Below
<1>5. CASE DrainPop
  <2>1. CASE wpc = "pushing"
    <3>1. UNCHANGED <<ReadQueue, WriteQueue, delivered, sent>>
      BY <1>5, <2>1 DEF DrainPop
    <3> QED BY <3>1 DEF InOrder, Ordered, Below
  <2>2. CASE wpc # "pushing"
    <3>1. /\ WriteQueue # << >> /\ WriteQueue' = Tail(WriteQueue)
          /\ UNCHANGED <<ReadQueue, delivered, sent>>
      BY <1>5, <2>2 DEF DrainPop
    <3>2. /\ Len(WriteQueue) \in Nat \ {0} /\ Len(Tail(WriteQueue)) = Len(WriteQueue) - 1
          /\ \A i \in 1..Len(Tail(WriteQueue)) : Tail(WriteQueue)[i] = WriteQueue[i + 1]
      BY <3>1, TailNat DEF TypeOK
    <3>3. Ordered(WriteQueue')
      BY <3>1, TailKeepsOrder DEF InOrder, TypeOK
    <3>4. Below(delivered', WriteQueue') /\ Below(ReadQueue', WriteQueue')
      BY <3>1, TailKeepsBelow DEF InOrder, TypeOK
    <3>5. \A i \in 1..Len(WriteQueue') : WriteQueue'[i] <= sent'
      <4>1. \A i \in 1..Len(Tail(WriteQueue)) : i + 1 \in 1..Len(WriteQueue)
        BY <3>2
      <4> QED BY <3>1, <3>2, <4>1 DEF InOrder
    <3>6. /\ Ordered(delivered') /\ Ordered(ReadQueue') /\ Below(delivered', ReadQueue')
          /\ \A i \in 1..Len(delivered') : delivered'[i] <= sent'
          /\ \A i \in 1..Len(ReadQueue') : ReadQueue'[i] <= sent'
      BY <3>1 DEF InOrder
    <3> QED BY <3>3, <3>4, <3>5, <3>6 DEF InOrder
  <2> QED BY <2>1, <2>2
<1> QED BY <1>1, <1>2, <1>3, <1>4, <1>5 DEF Next, Writer, Reader

LEMMA InvInit == Init => IInv
<1> SUFFICES ASSUME Init PROVE IInv
  OBVIOUS
<1>1. TypeOK
  BY InitTypeOK
<1>2. NothingUnaccounted
  BY EmptyNat DEF Init, NothingUnaccounted
<1>3. InOrder
  <2>1. 1..Len(<< >>) = {}
    BY EmptyNat
  <2> QED BY <2>1 DEF Init, InOrder, Ordered, Below
<1>4. Exclusion /\ SwapsWhenEmpty /\ WindowOfOne /\ Bounded
  BY EmptyNat DEF Init, Exclusion, SwapsWhenEmpty, WindowOfOne, Bounded
<1> QED BY <1>1, <1>2, <1>3, <1>4 DEF IInv

LEMMA InvPreserved == IInv /\ [Next]_vars => IInv'
BY TypePreserved, CountPreserved, LockPreserved, WindowPreserved, OrderPreserved,
   BoundPreserved DEF IInv

THEOREM InvCorrect == Spec => []IInv
BY InvInit, InvPreserved, PTL DEF Spec

(* No packet is duplicated and none goes missing unseen, for any number of *)
(* pushes and any interleaving of the writer with DequeueReadPacket and    *)
(* SwapQueue.                                                              *)
THEOREM Accounting == Spec => []NothingUnaccounted
<1>1. IInv => NothingUnaccounted
  BY DEF IInv
<1> QED BY <1>1, InvCorrect, PTL

(* Packets come out of DequeueReadPacket in the order EnqueueWritePacket   *)
(* was called, across any number of swaps and losses.                      *)
THEOREM DeliveryOrder == Spec => []DeliveredInOrder
<1>1. IInv => DeliveredInOrder
  BY DEF IInv, InOrder, Ordered, DeliveredInOrder
<1> QED BY <1>1, InvCorrect, PTL

(* A pass through SwapQueue pops at most one packet nobody has seen.       *)
THEOREM LossBound == Spec => []AtMostOneLossPerSwap
<1>1. IInv => AtMostOneLossPerSwap
  <2> SUFFICES ASSUME IInv PROVE AtMostOneLossPerSwap
    OBVIOUS
  <2>1. /\ Len(WriteQueue) \in Nat /\ Len(dropped) \in Nat /\ swapCount \in Nat
        /\ InPush \in {0, 1} /\ WindowOfOne
    BY DEF IInv, TypeOK, InPush
  <2> QED BY <2>1 DEF WindowOfOne, AtMostOneLossPerSwap
<1> QED BY <1>1, InvCorrect, PTL

----------------------------------------------------------------------------
(* Refinement of PacketChannel.                                            *)

LEMMA ConcatNat ==
    ASSUME NEW r \in Seq(Nat), NEW w \in Seq(Nat)
    PROVE  /\ r \o w \in Seq(Nat) /\ Len(r \o w) = Len(r) + Len(w)
           /\ \A i \in 1..Len(r) + Len(w) :
                  (r \o w)[i] = IF i <= Len(r) THEN r[i] ELSE w[i - Len(r)]
BY ConcatProperties

LEMMA PushAppends ==
    ASSUME NEW r \in Seq(Nat), NEW w \in Seq(Nat), NEW e \in Nat
    PROVE  r \o Append(w, e) = Append(r \o w, e)
<1>1. <<e>> \in Seq(Nat)
  OBVIOUS
<1>2. Append(w, e) = w \o <<e>> /\ Append(r \o w, e) = (r \o w) \o <<e>>
  BY ConcatNat, AppendIsConcat
<1> QED BY <1>1, <1>2, ConcatAssociative

LEMMA TakeHead ==
    ASSUME NEW r \in Seq(Nat), NEW w \in Seq(Nat), r # << >>
    PROVE  /\ r \o w # << >> /\ Head(r \o w) = Head(r)
           /\ Tail(r \o w) = Tail(r) \o w
<1> DEFINE c == r \o w
<1>1. /\ c \in Seq(Nat) /\ Len(c) = Len(r) + Len(w) /\ Len(r) \in Nat \ {0} /\ Len(w) \in Nat
      /\ \A i \in 1..Len(r) + Len(w) : c[i] = IF i <= Len(r) THEN r[i] ELSE w[i - Len(r)]
  BY ConcatNat, TailNat
<1>2. c # << >>
  BY <1>1, EmptyNat
<1>3. /\ Head(c) = c[1] /\ Tail(c) \in Seq(Nat) /\ Len(Tail(c)) = Len(c) - 1
      /\ \A i \in 1..Len(Tail(c)) : Tail(c)[i] = c[i + 1]
  BY <1>1, <1>2, TailNat
<1>4. /\ Head(r) = r[1] /\ Tail(r) \in Seq(Nat) /\ Len(Tail(r)) = Len(r) - 1
      /\ \A i \in 1..Len(Tail(r)) : Tail(r)[i] = r[i + 1]
  BY TailNat
<1> DEFINE d == Tail(r) \o w
<1>5. /\ d \in Seq(Nat) /\ Len(d) = Len(Tail(r)) + Len(w)
      /\ \A i \in 1..Len(Tail(r)) + Len(w) :
             d[i] = IF i <= Len(Tail(r)) THEN Tail(r)[i] ELSE w[i - Len(Tail(r))]
  BY <1>4, ConcatNat
<1>6. ASSUME NEW i \in 1..Len(Tail(c)) PROVE Tail(c)[i] = d[i]
  <2>1. i + 1 \in 1..Len(r) + Len(w) /\ i \in 1..Len(Tail(r)) + Len(w)
    BY <1>1, <1>3, <1>4
  <2>2. Tail(c)[i] = IF i + 1 <= Len(r) THEN r[i + 1] ELSE w[i + 1 - Len(r)]
    BY <1>1, <1>3, <2>1
  <2>3. d[i] = IF i <= Len(r) - 1 THEN Tail(r)[i] ELSE w[i - (Len(r) - 1)]
    BY <1>4, <1>5, <2>1
  <2>4. i <= Len(r) - 1 => Tail(r)[i] = r[i + 1]
    BY <1>1, <1>4, <2>1
  <2>5. i - (Len(r) - 1) = i + 1 - Len(r) /\ (i <= Len(r) - 1 <=> i + 1 <= Len(r))
    BY <1>1, <2>1
  <2> QED BY <2>2, <2>3, <2>4, <2>5
<1>7. Tail(c) = d
  <2>1. Len(Tail(c)) = Len(d)
    BY <1>1, <1>3, <1>4, <1>5
  <2> QED BY <1>3, <1>5, <1>6, <2>1, SeqEqual
<1>8. Head(c) = Head(r)
  BY <1>1, <1>3, <1>4
<1> QED BY <1>2, <1>7, <1>8

LEMMA LoseLast ==
    ASSUME NEW r \in Seq(Nat), NEW w \in Seq(Nat), Len(w) = 1
    PROVE  /\ r \o w # << >>
           /\ r \o Tail(w) = SubSeq(r \o w, 1, Len(r \o w) - 1)
<1>1. /\ r \o w \in Seq(Nat) /\ Len(r \o w) = Len(r) + 1 /\ Len(r) \in Nat
      /\ \A i \in 1..Len(r) + 1 : (r \o w)[i] = IF i <= Len(r) THEN r[i] ELSE w[i - Len(r)]
  <2>1. Len(r) \in Nat
    OBVIOUS
  <2> QED BY <2>1, ConcatNat
<1>2. r \o w # << >>
  BY <1>1, EmptyNat
<1>3. Tail(w) = << >>
  <2>1. w # << >>
    BY EmptyNat
  <2>2. Tail(w) \in Seq(Nat) /\ Len(Tail(w)) = 0
    BY <2>1, TailNat
  <2> QED BY <2>2, EmptySeq
<1>4. r \o Tail(w) = r
  BY <1>3, ConcatEmptySeq
<1> DEFINE s == SubSeq(r \o w, 1, Len(r))
<1>5. \A i \in 1..Len(r) : (r \o w)[i] \in Nat /\ (r \o w)[i] = r[i]
  BY <1>1, ElementOfSeq
<1>6. s \in Seq(Nat) /\ Len(s) = Len(r) /\ \A i \in 1..Len(r) : s[i] = (r \o w)[i]
  BY <1>1, <1>5, SubSeqProperties
<1>7. s = r
  BY <1>5, <1>6, SeqEqual
<1> QED BY <1>1, <1>2, <1>4, <1>7

LEMMA ChannelInit == Init => Channel!Init
<1>1. << >> \o << >> = << >>
  BY ConcatEmptySeq, EmptyNat
<1> QED BY <1>1 DEF Init, Channel!Init, Pending

LEMMA ChannelStep == IInv /\ IInv' /\ [Next]_vars => [Channel!Next]_(Channel!vars)
<1> SUFFICES ASSUME IInv, IInv', [Next]_vars PROVE [Channel!Next]_(Channel!vars)
  OBVIOUS
<1> USE DEF queues, history
<1>0. ReadQueue \in Seq(Nat) /\ WriteQueue \in Seq(Nat) /\ sent \in Nat
  BY DEF IInv, TypeOK
<1>1. CASE UNCHANGED vars \/ EnqueueWritePacket \/ SeeUnlocked \/ PushBegin \/ SwapReturn
           \/ SwapProceed \/ Lock \/ SwapBegin \/ DrainDone \/ UnLock
  <2>1. UNCHANGED <<ReadQueue, WriteQueue, delivered, sent>>
    BY <1>1 DEF vars, EnqueueWritePacket, SeeUnlocked, PushBegin, SwapReturn, SwapProceed,
                Lock, SwapBegin, DrainDone, UnLock
  <2> QED BY <2>1 DEF Channel!vars, Pending
<1>2. CASE PushEnd
  <2>1. sent < MaxSent
    BY <1>2 DEF PushEnd, IInv, Bounded
  <2> QED BY <1>0, <1>2, <2>1, PushAppends DEF PushEnd, Channel!Next, Channel!Accept, Pending
<1>3. CASE DequeueReadPacket
  <2>1. CASE ReadQueue = << >>
    BY <1>3, <2>1 DEF DequeueReadPacket, Channel!vars, Pending
  <2>2. CASE ReadQueue # << >>
    BY <1>0, <1>3, <2>2, TakeHead
       DEF DequeueReadPacket, Channel!Next, Channel!Receive, Pending
  <2> QED BY <2>1, <2>2
<1>4. CASE SwapEnd
  <2>1. ReadQueue = << >> /\ ReadQueue' = WriteQueue /\ WriteQueue' = << >>
        /\ UNCHANGED <<delivered, sent>>
    BY <1>4 DEF SwapEnd, IInv, SwapsWhenEmpty
  <2>2. << >> \o WriteQueue = WriteQueue /\ WriteQueue \o << >> = WriteQueue
    BY <1>0, ConcatEmptySeq
  <2> QED BY <2>1, <2>2 DEF Channel!vars, Pending
<1>5. CASE DrainPop
  <2>1. CASE wpc = "pushing"
    BY <1>5, <2>1 DEF DrainPop, Channel!vars, Pending
  <2>2. CASE wpc # "pushing"
    <3>1. /\ WriteQueue # << >> /\ WriteQueue' = Tail(WriteQueue) /\ rpc = "drain"
          /\ UNCHANGED <<ReadQueue, delivered, sent>>
      BY <1>5, <2>2 DEF DrainPop
    <3>2. Len(WriteQueue) = 1
      <4>1. Len(WriteQueue) \in Nat \ {0} /\ InPush \in {0, 1}
        BY <1>0, <3>1, TailNat DEF InPush
      <4>2. Len(WriteQueue) + InPush <= 1
        BY <3>1 DEF IInv, WindowOfOne
      <4> QED BY <4>1, <4>2
    <3> QED BY <1>0, <3>1, <3>2, LoseLast DEF Channel!Next, Channel!LoseNewest, Pending
  <2> QED BY <2>1, <2>2
<1> QED BY <1>1, <1>2, <1>3, <1>4, <1>5 DEF Next, Writer, Reader

(* DoubleBuffer implements PacketChannel: its two queues, swapped under    *)
(* the readers feet, are one FIFO that loses at most the newest packet.    *)
THEOREM Implements == Spec => ImplementsChannel
<1> QED BY ChannelInit, ChannelStep, InvCorrect, PTL DEF Spec, ImplementsChannel, Channel!Spec

============================================================================
