--------------------------- MODULE Streams_proofs ---------------------------
(***************************************************************************)
(* Proofs about what goes over a connection: the messages the server sends *)
(* (SendQueue), for every number of threads, messages and connections, and *)
(* the bytes both ends receive (PacketStream), for every size of the       *)
(* buffer and of a receive and every number of logins.                     *)
(*                                                                         *)
(* SendQueue.  The inductive invariant IInv adds to the checked            *)
(* invariants: the messages of the queue are the last ones pushed          *)
(* (Numbered), at most one send is anywhere between WSASend and            *)
(* SendCompleted (Singles), and, as long as no send has failed, everything *)
(* in the queue belongs to the current connection (Current).  Jammed says  *)
(* that the first failure is the end of the queue: its head stays and      *)
(* nothing moves any more.                                                 *)
(*                                                                         *)
(* PacketStream.  Way is one stream made of three parts: what the server   *)
(* has in its buffer and not taken, what a receive in progress holds, and  *)
(* what is under way.  A move of the buffer, a copy, a receive leave it    *)
(* as it is: only a packet sent makes it longer, only MoveReadPos shorter. *)
(* Framed: it consists of the packets sent and not yet taken, one behind   *)
(* the other and each in order.  Held: what the packet thread works on is  *)
(* the packet in front of it, still whole in the buffer.  Copied: between  *)
(* the copy and the new write position the bytes are in both places.       *)
(* ReadInTurn says of the client what Framed says of the server.  Counted: *)
(* the packets that end in the unread part of the buffer are no more than  *)
(* the entries to come and those that shared a receive, with the receive   *)
(* in progress counted in.                                                 *)
(***************************************************************************)
EXTENDS SendQueue, PacketStream, SequenceTheorems, FiniteSetTheorems, FunctionTheorems, TLAPS

Active == {"sendio", "completed"}

Done == \/ \E t \in Threads : pc[t] = "completed"
        \/ \E x \in port : x.ok

CompletedHasHead == \A t \in Threads : pc[t] \in Active => queue # << >>

Numbered ==
    /\ Len(queue) <= pushed
    /\ \A i \in 1..Len(queue) : queue[i].n = pushed - Len(queue) + i

Singles ==
    /\ \A o, p \in ops : o = p
    /\ \A x, y \in port : x.ok /\ y.ok => x = y
    /\ \A x \in port : x.ok => ops = {}

Jammed ==
    cut => /\ queue # << >> /\ ops = {}
           /\ \A x \in port : ~x.ok
           /\ \A t \in Threads : pc[t] \notin Active

FailuresCut == \A x \in port : ~x.ok => cut

Current ==
    /\ \A o \in ops : o.gen = gen
    /\ ~cut => \A i \in 1..Len(queue) : queue[i].gen = gen

Count == Len(wire) + Len(queue) = pushed + (IF Done THEN 1 ELSE 0)

WireNumbered == \A i \in 1..Len(wire) : wire[i].n = i

IInv == /\ TypeOK /\ OneSendAtATime /\ InFlightIsHead /\ NoLostWakeup /\ NoForeignMessage
        /\ CompletedHasHead /\ Numbered /\ Singles /\ Jammed /\ FailuresCut
        /\ Current /\ Count /\ WireNumbered

----------------------------------------------------------------------------
(* Sequences of sends.                                                     *)
LEMMA AppendSend ==
    ASSUME NEW s \in Seq(Sends), NEW e \in Sends
    PROVE  /\ Append(s, e) \in Seq(Sends) /\ Len(s) \in Nat
           /\ Append(s, e) # << >>
           /\ Len(Append(s, e)) = Len(s) + 1
           /\ \A i \in 1..Len(s) : Append(s, e)[i] = s[i]
           /\ Append(s, e)[Len(s) + 1] = e
BY AppendProperties, EmptySeq

LEMMA TailSend ==
    ASSUME NEW s \in Seq(Sends), s # << >>
    PROVE  /\ Head(s) \in Sends /\ Head(s) = s[1]
           /\ Len(s) \in Nat \ {0}
           /\ Tail(s) \in Seq(Sends)
           /\ Len(Tail(s)) = Len(s) - 1
           /\ \A i \in 1..Len(Tail(s)) : Tail(s)[i] = s[i + 1]
BY HeadTailProperties, EmptySeq

LEMMA EmptySend ==
    /\ << >> \in Seq(Sends) /\ Len(<< >>) = 0
    /\ \A s \in Seq(Sends) : s = << >> <=> Len(s) = 0
BY EmptySeq

----------------------------------------------------------------------------
LEMMA InitInv == Init => IInv
<1> SUFFICES ASSUME Init PROVE IInv
  OBVIOUS
<1>1. /\ queue = << >> /\ wire = << >> /\ Len(queue) = 0 /\ Len(wire) = 0
      /\ queue \in Seq(Sends) /\ wire \in Seq(Sends) /\ pushed = 0
      /\ ops = {} /\ port = {} /\ ~cut /\ lock = Nobody
      /\ pc \in [Threads -> Labels] /\ \A t \in Threads : pc[t] = "idle"
  BY EmptySend DEF Init, Labels
<1>2. TypeOK
  <2>1. \A t \in Threads : pc[t] = "sendio" <=> lock = t
    BY <1>1, ThreadsAssumption
  <2>2. open \in BOOLEAN /\ sendFailed \in BOOLEAN /\ cut \in BOOLEAN /\ gen \in Nat
    BY DEF Init
  <2> QED BY <1>1, <2>1, <2>2 DEF TypeOK
<1>3. /\ OneSendAtATime /\ InFlightIsHead /\ NoLostWakeup /\ NoForeignMessage
      /\ CompletedHasHead /\ Singles /\ Jammed /\ FailuresCut
  BY <1>1 DEF OneSendAtATime, InFlightIsHead, NoLostWakeup, NoForeignMessage,
              CompletedHasHead, Singles, Jammed, FailuresCut, Active
<1>4. ~Done
  BY <1>1 DEF Done
<1>5. Numbered /\ Current /\ Count /\ WireNumbered
  BY <1>1, <1>4 DEF Numbered, Current, Count, WireNumbered
<1> QED BY <1>2, <1>3, <1>5 DEF IInv

(* A step that leaves the queue and the sends alone.                       *)
LEMMA SendMsgInv ==
    ASSUME IInv, NEW t \in Threads, SendMsg(t) PROVE IInv'
BY ThreadsAssumption
   DEF SendMsg, Goto, slotVars, IInv, TypeOK, OneSendAtATime, InFlightIsHead, NoLostWakeup,
       NoForeignMessage, CompletedHasHead, Numbered, Singles, Jammed, FailuresCut, Current,
       Count, WireNumbered, Done, Active, Labels, Completions

LEMMA PushInv ==
    ASSUME IInv, NEW t \in Threads, Push(t) PROVE IInv'
<1> USE DEF slotVars, Goto, Active
<1> DEFINE e == [n |-> pushed + 1, gen |-> gen]
<1>1. /\ queue \in Seq(Sends) /\ wire \in Seq(Sends) /\ pushed \in Nat /\ gen \in Nat
      /\ pc \in [Threads -> Labels] /\ lock \in Threads \cup {Nobody}
  BY DEF IInv, TypeOK
<1>2. e \in Sends
  BY <1>1 DEF Sends
<1>3. /\ queue' \in Seq(Sends) /\ queue' # << >> /\ Len(queue) \in Nat
      /\ Len(queue') = Len(queue) + 1
      /\ \A i \in 1..Len(queue) : queue'[i] = queue[i]
      /\ queue'[Len(queue) + 1] = e
  BY <1>1, <1>2, AppendSend DEF Push
<1>4. /\ pushed' = pushed + 1 /\ lock = Nobody /\ pc[t] = "lock"
      /\ UNCHANGED <<open, gen, sendFailed, ops, port, wire, cut>>
      /\ \A u \in Threads \ {t} : pc'[u] = pc[u]
      /\ pc' \in [Threads -> Labels]
  BY <1>1 DEF Push, Labels
<1>5. \/ queue = << >> /\ pc'[t] = "sendio" /\ lock' = t
      \/ queue # << >> /\ pc'[t] = "idle" /\ lock' = Nobody
  BY <1>1, <1>3, <1>4, EmptySend DEF Push
<1>6. \A u \in Threads : pc[u] # "sendio"
  BY <1>4, ThreadsAssumption DEF IInv, TypeOK
<1>7. Done' = Done
  BY <1>4, <1>5 DEF Done
<1>8. TypeOK'
  BY <1>1, <1>3, <1>4, <1>5, <1>6, ThreadsAssumption DEF TypeOK, IInv
<1>9. queue = << >> => /\ ~cut /\ ops = {} /\ port = {}
                       /\ \A u \in Threads : pc[u] \notin Active
  BY <1>6 DEF IInv, Jammed, CompletedHasHead, InFlightIsHead
<1>10. OneSendAtATime'
  BY <1>4, <1>5, <1>9 DEF IInv, OneSendAtATime
<1>11. queue # << >> => Head(queue') = Head(queue)
  <2> SUFFICES ASSUME queue # << >> PROVE Head(queue') = Head(queue)
    OBVIOUS
  <2>1. Len(queue) \in Nat \ {0} /\ Head(queue) = queue[1] /\ Head(queue') = queue'[1]
    BY <1>1, <1>3, TailSend
  <2> QED BY <1>3, <2>1
<1>12. InFlightIsHead' /\ NoForeignMessage'
  BY <1>3, <1>4, <1>9, <1>11 DEF IInv, InFlightIsHead, NoForeignMessage
<1>13. NoLostWakeup' /\ CompletedHasHead' /\ Singles' /\ FailuresCut'
  BY <1>3, <1>4, <1>5 DEF IInv, NoLostWakeup, CompletedHasHead, Singles, FailuresCut
<1>14. Jammed'
  BY <1>3, <1>4, <1>5, <1>9 DEF IInv, Jammed
<1>15. Numbered' /\ Current'
  <2>1. ASSUME NEW i \in 1..Len(queue')
        PROVE  \/ i \in 1..Len(queue) /\ queue'[i] = queue[i]
               \/ i = Len(queue) + 1 /\ queue'[i].n = pushed + 1 /\ queue'[i].gen = gen
    BY <1>3
  <2>2. /\ \A i \in 1..Len(queue) : queue[i].n = pushed - Len(queue) + i
        /\ ~cut => \A i \in 1..Len(queue) : queue[i].gen = gen
        /\ Len(queue) <= pushed
    BY DEF IInv, Numbered, Current
  <2>3. ASSUME NEW i \in 1..Len(queue') PROVE queue'[i].n = pushed' - Len(queue') + i
    <3>1. CASE i \in 1..Len(queue)
      BY <1>1, <1>3, <1>4, <2>1, <2>2, <3>1
    <3>2. CASE i = Len(queue) + 1
      <4>1. queue'[i].n = pushed + 1
        BY <1>3, <3>2
      <4> QED BY <1>1, <1>3, <1>4, <3>2, <4>1
    <3> QED BY <2>1, <3>1, <3>2
  <2>4. ~cut => \A i \in 1..Len(queue') : queue'[i].gen = gen
    BY <2>1, <2>2
  <2>5. Numbered'
    BY <1>1, <1>3, <1>4, <2>2, <2>3 DEF Numbered
  <2> QED BY <1>4, <2>4, <2>5 DEF IInv, Current
<1>16. Count' /\ WireNumbered'
  BY <1>1, <1>3, <1>4, <1>7 DEF IInv, Count, WireNumbered
<1> QED BY <1>8, <1>10, <1>12, <1>13, <1>14, <1>15, <1>16 DEF IInv

LEMMA SendIOInv ==
    ASSUME IInv, NEW t \in Threads, SendIO(t) PROVE IInv'
<1> USE DEF slotVars, Goto, Active
<1>1. /\ queue \in Seq(Sends) /\ gen \in Nat /\ pc \in [Threads -> Labels]
      /\ pc[t] = "sendio" /\ queue # << >> /\ lock = t
      /\ ops = {} /\ \A x \in port : ~x.ok
      /\ \A u \in Threads \ {t} : pc[u] \notin Active
      /\ ~cut /\ port = {}
  BY DEF SendIO, IInv, TypeOK, OneSendAtATime, CompletedHasHead, Jammed, FailuresCut
<1>2. Head(queue) \in Sends /\ Head(queue) = queue[1] /\ Len(queue) \in Nat \ {0}
  BY <1>1, TailSend
<1>3. Head(queue).gen = gen /\ Head(queue).n \in Nat
  BY <1>1, <1>2 DEF IInv, Current, Sends
<1> DEFINE o == [n |-> Head(queue).n, gen |-> gen]
<1>4. /\ o \in Sends /\ o.n = Head(queue).n /\ o.gen = gen
  BY <1>1, <1>3 DEF Sends
<1>5. /\ UNCHANGED <<open, gen, queue, port, pushed, wire>>
      /\ pc' = [pc EXCEPT ![t] = "idle"] /\ lock' = Nobody
      /\ \/ ops' = {o} /\ UNCHANGED <<sendFailed, cut>>
         \/ ops' = {} /\ cut' = TRUE /\ sendFailed' \in BOOLEAN
  BY <1>1 DEF SendIO, IInv, TypeOK
<1>6. /\ pc' \in [Threads -> Labels] /\ pc'[t] = "idle"
      /\ \A u \in Threads : pc'[u] \notin Active
      /\ \A u \in Threads \ {t} : pc'[u] = pc[u]
  BY <1>1, <1>5 DEF Labels
<1>7. Done' = Done
  BY <1>1, <1>5, <1>6 DEF Done
<1>8. TypeOK'
  BY <1>1, <1>4, <1>5, <1>6, ThreadsAssumption DEF TypeOK, IInv
<1>9. OneSendAtATime' /\ CompletedHasHead' /\ NoLostWakeup' /\ Jammed'
  <2>1. OneSendAtATime' /\ CompletedHasHead'
    BY <1>6 DEF OneSendAtATime, CompletedHasHead
  <2>2. CASE ops' = {o} /\ UNCHANGED <<sendFailed, cut>>
    BY <1>1, <2>1, <2>2 DEF NoLostWakeup, Jammed
  <2>3. CASE ops' = {} /\ cut' = TRUE
    BY <1>1, <1>5, <1>6, <2>1, <2>3 DEF NoLostWakeup, Jammed
  <2> QED BY <1>5, <2>2, <2>3
<1>10. InFlightIsHead' /\ NoForeignMessage' /\ Singles' /\ FailuresCut'
  BY <1>1, <1>3, <1>4, <1>5
     DEF InFlightIsHead, NoForeignMessage, Singles, FailuresCut
<1>11. Current' /\ Numbered' /\ Count' /\ WireNumbered'
  BY <1>1, <1>4, <1>5, <1>7 DEF IInv, Current, Numbered, Count, WireNumbered
<1> QED BY <1>8, <1>9, <1>10, <1>11 DEF IInv

LEMMA GetCompletionInv ==
    ASSUME IInv, NEW w \in Workers, NEW x \in port, GetCompletion(w, x) PROVE IInv'
<1> USE DEF slotVars, Goto, Active
<1>1. /\ w \in Threads /\ pc \in [Threads -> Labels] /\ pc[w] = "idle"
      /\ x \in Completions /\ x.ok \in BOOLEAN
      /\ port' = port \ {x}
      /\ pc' = [pc EXCEPT ![w] = IF x.ok THEN "completed" ELSE "close"]
      /\ UNCHANGED <<open, gen, sendFailed, queue, lock, ops, pushed, wire, cut>>
  BY DEF GetCompletion, IInv, TypeOK, Threads, Completions
<1>2. /\ pc' \in [Threads -> Labels]
      /\ pc'[w] = IF x.ok THEN "completed" ELSE "close"
      /\ \A u \in Threads \ {w} : pc'[u] = pc[u]
  BY <1>1 DEF Labels
<1>3. x.ok => /\ ~cut /\ ops = {} /\ queue # << >>
              /\ \A y \in port' : ~y.ok
              /\ \A u \in Threads : pc[u] \notin Active
  <2> SUFFICES ASSUME x.ok
               PROVE /\ ~cut /\ ops = {} /\ queue # << >>
                     /\ \A y \in port' : ~y.ok
                     /\ \A u \in Threads : pc[u] \notin Active
    OBVIOUS
  <2>1. ~cut /\ ops = {} /\ \A y \in port : y.ok => y = x
    BY DEF IInv, Jammed, Singles
  <2>2. queue # << >>
    BY DEF IInv, InFlightIsHead
  <2>3. \A u \in Threads : pc[u] \notin Active
    BY DEF IInv, OneSendAtATime
  <2> QED BY <1>1, <2>1, <2>2, <2>3
<1>4. ~x.ok => cut
  BY DEF IInv, FailuresCut
<1>5. Done' = Done
  <2>1. CASE x.ok
    BY <1>1, <1>2, <2>1 DEF Done
  <2>2. CASE ~x.ok
    BY <1>1, <1>2, <2>2 DEF Done
  <2> QED BY <2>1, <2>2
<1>6. TypeOK'
  BY <1>1, <1>2, ThreadsAssumption DEF TypeOK, IInv
<1>7. OneSendAtATime' /\ CompletedHasHead'
  BY <1>1, <1>2, <1>3 DEF IInv, OneSendAtATime, CompletedHasHead
<1>8. NoLostWakeup' /\ Jammed'
  BY <1>1, <1>2, <1>3, <1>4 DEF IInv, NoLostWakeup, Jammed
<1>9. InFlightIsHead' /\ NoForeignMessage' /\ Singles' /\ FailuresCut'
  BY <1>1 DEF IInv, InFlightIsHead, NoForeignMessage, Singles, FailuresCut
<1>10. Current' /\ Numbered' /\ Count' /\ WireNumbered'
  BY <1>1, <1>5 DEF IInv, Current, Numbered, Count, WireNumbered
<1> QED BY <1>6, <1>7, <1>8, <1>9, <1>10 DEF IInv

LEMMA SendCompletedInv ==
    ASSUME IInv, NEW w \in Workers, SendCompleted(w) PROVE IInv'
<1> USE DEF slotVars, Goto, Active
<1>1. /\ w \in Threads /\ pc \in [Threads -> Labels] /\ pc[w] = "completed" /\ lock = Nobody
      /\ queue \in Seq(Sends) /\ queue # << >> /\ wire \in Seq(Sends) /\ pushed \in Nat
      /\ ops = {} /\ ~cut /\ port = {}
      /\ \A u \in Threads \ {w} : pc[u] \notin Active
  BY DEF SendCompleted, IInv, TypeOK, Threads, OneSendAtATime, CompletedHasHead, Jammed,
         FailuresCut
<1>2. /\ queue' = Tail(queue)
      /\ \/ /\ queue' # << >> /\ lock' = w
            /\ pc' = [pc EXCEPT ![w] = "sendio"]
         \/ /\ queue' = << >> /\ lock' = Nobody
            /\ pc' = [pc EXCEPT ![w] = "idle"]
      /\ UNCHANGED <<open, gen, sendFailed, ops, port, pushed, wire, cut>>
  BY <1>1 DEF SendCompleted
<1>3. /\ queue' \in Seq(Sends) /\ Len(queue) \in Nat \ {0}
      /\ Len(queue') = Len(queue) - 1
      /\ \A i \in 1..Len(queue') : queue'[i] = queue[i + 1]
  BY <1>1, <1>2, TailSend
<1>4. /\ pc' \in [Threads -> Labels]
      /\ pc'[w] = IF queue' = << >> THEN "idle" ELSE "sendio"
      /\ \A u \in Threads \ {w} : pc'[u] = pc[u]
  BY <1>1, <1>2 DEF Labels
<1>5. Done /\ ~Done'
  BY <1>1, <1>2, <1>4 DEF Done
<1>6. TypeOK'
  BY <1>1, <1>2, <1>3, <1>4, ThreadsAssumption DEF TypeOK, IInv
<1>7. OneSendAtATime' /\ CompletedHasHead'
  BY <1>1, <1>2, <1>4 DEF OneSendAtATime, CompletedHasHead
<1>8. NoLostWakeup' /\ Jammed'
  BY <1>1, <1>2, <1>4 DEF NoLostWakeup, Jammed
<1>9. InFlightIsHead' /\ NoForeignMessage' /\ Singles' /\ FailuresCut'
  BY <1>1, <1>2 DEF InFlightIsHead, NoForeignMessage, Singles, FailuresCut
<1>10. Current' /\ Numbered'
  <2>1. ASSUME NEW i \in 1..Len(queue')
        PROVE  i + 1 \in 1..Len(queue) /\ queue'[i] = queue[i + 1]
    BY <1>3
  <2>2. /\ \A i \in 1..Len(queue) : queue[i].gen = gen
        /\ \A i \in 1..Len(queue) : queue[i].n = pushed - Len(queue) + i
        /\ Len(queue) <= pushed
    BY <1>1 DEF IInv, Current, Numbered
  <2>3. \A i \in 1..Len(queue') : /\ queue'[i].gen = gen
                                  /\ queue'[i].n = pushed - Len(queue) + (i + 1)
    BY <2>1, <2>2
  <2>4. \A i \in 1..Len(queue') : queue'[i].n = pushed' - Len(queue') + i
    BY <1>1, <1>2, <1>3, <2>3
  <2> QED BY <1>1, <1>2, <1>3, <2>2, <2>3, <2>4 DEF Current, Numbered
<1>11. Count' /\ WireNumbered'
  BY <1>1, <1>2, <1>3, <1>5 DEF IInv, Count, WireNumbered
<1> QED BY <1>6, <1>7, <1>8, <1>9, <1>10, <1>11 DEF IInv

LEMMA AbortInv ==
    ASSUME IInv, Abort, UNCHANGED <<gen, queue, lock, pushed, wire>>,
           open' \in BOOLEAN, sendFailed' \in BOOLEAN,
           pc' \in [Threads -> Labels],
           \A t \in Threads : pc[t] \in Active => pc'[t] = pc[t],
           \A t \in Threads : pc'[t] \in Active => pc'[t] = pc[t]
    PROVE  IInv'
<1> USE DEF Active
<1>1. /\ ops \subseteq Sends /\ port \subseteq Completions /\ cut \in BOOLEAN
      /\ ops' = {} /\ cut' = (cut \/ ops # {})
      /\ port' = port \cup {[send |-> o, ok |-> FALSE] : o \in ops}
  BY DEF Abort, IInv, TypeOK
<1>2. \A x \in port' : x \in port \/ (~x.ok /\ x.send \in ops /\ x \in Completions)
  <2> SUFFICES ASSUME NEW x \in port', x \notin port
               PROVE  ~x.ok /\ x.send \in ops /\ x \in Completions
    OBVIOUS
  <2>1. PICK o \in ops : x = [send |-> o, ok |-> FALSE]
    BY <1>1
  <2> QED BY <1>1, <2>1 DEF Completions
<1>3. /\ \A t \in Threads : pc'[t] \in Active <=> pc[t] \in Active
      /\ \A t \in Threads : pc'[t] = "completed" <=> pc[t] = "completed"
      /\ \A t \in Threads : pc'[t] = "sendio" <=> pc[t] = "sendio"
  OBVIOUS
<1>4. Done' = Done
  BY <1>1, <1>2, <1>3 DEF Done
<1>5. ops # {} => /\ queue # << >> /\ \A t \in Threads : pc[t] \notin Active
                  /\ \A x \in port : ~x.ok
  BY DEF IInv, OneSendAtATime, InFlightIsHead, Singles
<1>6. TypeOK'
  BY <1>1, <1>2, <1>3 DEF IInv, TypeOK
<1>7. OneSendAtATime' /\ CompletedHasHead' /\ Singles'
  BY <1>1, <1>2, <1>3 DEF IInv, OneSendAtATime, CompletedHasHead, Singles
<1>8. Jammed'
  BY <1>1, <1>2, <1>3, <1>5 DEF IInv, Jammed
<1>9. FailuresCut' /\ InFlightIsHead' /\ NoForeignMessage'
  <2>1. FailuresCut'
    BY <1>1, <1>2 DEF IInv, FailuresCut
  <2>2. InFlightIsHead' /\ NoForeignMessage'
    BY <1>1, <1>2 DEF IInv, InFlightIsHead, NoForeignMessage
  <2> QED BY <2>1, <2>2
<1>10. NoLostWakeup'
  BY <1>1, <1>3 DEF IInv, NoLostWakeup
<1>11. Current' /\ Numbered' /\ Count' /\ WireNumbered'
  BY <1>1, <1>4 DEF IInv, Current, Numbered, Count, WireNumbered
<1> QED BY <1>6, <1>7, <1>8, <1>9, <1>10, <1>11 DEF IInv

LEMMA CloseInv ==
    ASSUME IInv, Close PROVE IInv'
BY AbortInv DEF Close, IInv, TypeOK, slotVars

LEMMA CloseSocketInv ==
    ASSUME IInv, NEW w \in Workers, CloseSocket(w) PROVE IInv'
<1>1. /\ w \in Threads /\ pc \in [Threads -> Labels] /\ pc[w] = "close"
      /\ pc' = [pc EXCEPT ![w] = "idle"]
      /\ UNCHANGED <<gen, queue, lock, pushed, wire, sendFailed>>
      /\ open' = FALSE /\ sendFailed \in BOOLEAN
  BY DEF CloseSocket, Goto, IInv, TypeOK, Threads
<1>2. /\ pc' \in [Threads -> Labels]
      /\ \A t \in Threads : pc[t] \in Active => pc'[t] = pc[t]
      /\ \A t \in Threads : pc'[t] \in Active => pc'[t] = pc[t]
  BY <1>1 DEF Active, Labels
<1>3. CASE Abort
  BY <1>1, <1>2, <1>3, AbortInv
<1>4. CASE UNCHANGED <<ops, port, cut>>
  <2>1. /\ \A t \in Threads : pc'[t] \in Active <=> pc[t] \in Active
        /\ \A t \in Threads : pc'[t] = "completed" <=> pc[t] = "completed"
        /\ \A t \in Threads : pc'[t] = "sendio" <=> pc[t] = "sendio"
    BY <1>2 DEF Active
  <2>2. Done' = Done
    BY <1>4, <2>1 DEF Done
  <2> QED BY <1>1, <1>2, <1>4, <2>1, <2>2
          DEF IInv, TypeOK, OneSendAtATime, InFlightIsHead, NoLostWakeup, NoForeignMessage,
              CompletedHasHead, Numbered, Singles, Jammed, FailuresCut, Current, Count,
              WireNumbered, Active
<1> QED BY <1>3, <1>4 DEF CloseSocket

LEMMA CompleteInv ==
    ASSUME IInv, NEW o \in ops, NEW ok \in BOOLEAN, Complete(o, ok) PROVE IInv'
<1> USE DEF slotVars, Active
<1> DEFINE x == [send |-> o, ok |-> ok]
<1>1. /\ o \in Sends /\ ops = {o} /\ queue # << >> /\ Head(queue).n = o.n
      /\ queue \in Seq(Sends) /\ wire \in Seq(Sends) /\ pushed \in Nat
      /\ ~cut /\ port = {} /\ \A t \in Threads : pc[t] \notin Active
  <2>1. o \in Sends /\ ops = {o} /\ queue # << >> /\ Head(queue).n = o.n
    BY DEF IInv, TypeOK, Singles, InFlightIsHead
  <2>2. ~cut /\ \A t \in Threads : pc[t] \notin Active
    BY DEF IInv, Jammed, OneSendAtATime
  <2>3. \A y \in port : y.ok \in BOOLEAN
    BY DEF IInv, TypeOK, Completions
  <2>4. port = {}
    BY <2>2, <2>3 DEF IInv, Singles, FailuresCut
  <2> QED BY <2>1, <2>2, <2>4 DEF IInv, TypeOK
<1>2. /\ ops' = {} /\ port' = {x} /\ x.send = o /\ x.ok = ok /\ x \in Completions
      /\ cut' = ~ok /\ wire' = IF ok THEN Append(wire, o) ELSE wire
      /\ UNCHANGED <<open, gen, sendFailed, queue, lock, pc, pushed>>
  BY <1>1 DEF Complete, Completions
<1>3. ~Done /\ (Done' <=> ok)
  BY <1>1, <1>2 DEF Done
<1>4. Len(queue) \in Nat \ {0} /\ Len(wire) \in Nat /\ Head(queue) = queue[1]
  BY <1>1, TailSend
<1>5. o.n = Len(wire) + 1
  <2>1. queue[1].n = pushed - Len(queue) + 1
    BY <1>4 DEF IInv, Numbered
  <2>2. Len(wire) + Len(queue) = pushed
    BY <1>1, <1>3, <1>4 DEF IInv, Count
  <2> QED BY <1>1, <1>4, <2>1, <2>2
<1>6. ok => /\ wire' \in Seq(Sends) /\ Len(wire') = Len(wire) + 1
            /\ \A i \in 1..Len(wire) : wire'[i] = wire[i]
            /\ wire'[Len(wire) + 1] = o
  BY <1>1, <1>2, AppendSend
<1>7. TypeOK'
  BY <1>1, <1>2, <1>6 DEF IInv, TypeOK
<1>8. /\ OneSendAtATime' /\ CompletedHasHead' /\ Singles' /\ FailuresCut'
      /\ InFlightIsHead' /\ NoForeignMessage' /\ NoLostWakeup'
  BY <1>1, <1>2 DEF OneSendAtATime, CompletedHasHead, Singles, FailuresCut, InFlightIsHead,
                    NoForeignMessage, NoLostWakeup
<1>9. Jammed' /\ Numbered' /\ Current'
  BY <1>1, <1>2 DEF IInv, Jammed, Numbered, Current
<1>10. Count'
  BY <1>1, <1>2, <1>3, <1>4, <1>6 DEF IInv, Count
<1>11. WireNumbered'
  <2>1. CASE ok
    <3>1. ASSUME NEW i \in 1..Len(wire') PROVE wire'[i].n = i
      <4>1. \/ i \in 1..Len(wire) /\ wire'[i] = wire[i]
            \/ i = Len(wire) + 1 /\ wire'[i] = o
        BY <1>4, <1>6, <2>1
      <4> QED BY <1>5, <4>1 DEF IInv, WireNumbered
    <3> QED BY <3>1 DEF WireNumbered
  <2>2. CASE ~ok
    BY <1>2, <2>2 DEF IInv, WireNumbered
  <2> QED BY <2>1, <2>2
<1> QED BY <1>7, <1>8, <1>9, <1>10, <1>11 DEF IInv

LEMMA ConnectInv ==
    ASSUME IInv, Connect PROVE IInv'
<1>1. /\ ops = {} /\ port = {} /\ \A t \in Threads : pc[t] \notin Active
      /\ gen \in Nat /\ gen' = gen + 1 /\ open' = TRUE /\ sendFailed' = FALSE
      /\ UNCHANGED <<queue, lock, pc, ops, port, pushed, wire, cut>>
  BY DEF Connect, IInv, TypeOK, Active
<1>2. ~cut => queue = << >>
  BY <1>1 DEF IInv, NoLostWakeup, Active
<1>3. Current'
  BY <1>1, <1>2, EmptySend DEF Current
<1>4. Done' = Done
  BY <1>1 DEF Done
<1>5. TypeOK'
  <2>1. gen' \in Nat /\ open' \in BOOLEAN /\ sendFailed' \in BOOLEAN
    <3>1. gen' \in Nat
      BY <1>1
    <3>2. open' = TRUE /\ sendFailed' = FALSE
      BY DEF Connect
    <3>3. open' \in BOOLEAN /\ sendFailed' \in BOOLEAN
      BY <3>2, Zenon
    <3> QED BY <3>1, <3>3
  <2>2. /\ queue' \in Seq(Sends) /\ lock' \in Threads \cup {Nobody}
        /\ pc' \in [Threads -> Labels] /\ ops' \subseteq Sends /\ port' \subseteq Completions
        /\ pushed' \in Nat /\ wire' \in Seq(Sends) /\ cut' \in BOOLEAN
        /\ \A t \in Threads : pc'[t] = "sendio" <=> lock' = t
    BY <1>1 DEF IInv, TypeOK
  <2> QED BY <2>1, <2>2 DEF TypeOK
<1>6. /\ OneSendAtATime' /\ CompletedHasHead' /\ Singles' /\ FailuresCut'
      /\ InFlightIsHead' /\ NoForeignMessage' /\ Jammed'
  BY <1>1 DEF IInv, OneSendAtATime, CompletedHasHead, Singles, FailuresCut, InFlightIsHead,
              NoForeignMessage, Jammed
<1>7. NoLostWakeup' /\ Numbered' /\ Count' /\ WireNumbered'
  BY <1>1, <1>4 DEF IInv, NoLostWakeup, Numbered, Count, WireNumbered
<1> QED BY <1>3, <1>5, <1>6, <1>7 DEF IInv

LEMMA StutterInv ==
    ASSUME IInv, UNCHANGED vars PROVE IInv'
BY DEF vars, IInv, TypeOK, OneSendAtATime, InFlightIsHead, NoLostWakeup, NoForeignMessage,
       CompletedHasHead, Numbered, Singles, Jammed, FailuresCut, Current, Count, WireNumbered,
       Done

LEMMA StepInv == IInv /\ [Next]_vars => IInv'
<1> SUFFICES ASSUME IInv, [Next]_vars PROVE IInv'
  OBVIOUS
<1>1. ASSUME NEW t \in Threads, SendMsg(t) \/ Push(t) \/ SendIO(t) PROVE IInv'
  BY <1>1, SendMsgInv, PushInv, SendIOInv
<1>2. ASSUME NEW w \in Workers, SendCompleted(w) \/ CloseSocket(w) PROVE IInv'
  BY <1>2, SendCompletedInv, CloseSocketInv
<1>3. ASSUME NEW w \in Workers, NEW x \in port, GetCompletion(w, x) PROVE IInv'
  BY <1>3, GetCompletionInv
<1>4. ASSUME NEW o \in ops, NEW ok \in BOOLEAN, Complete(o, ok) PROVE IInv'
  BY <1>4, CompleteInv
<1>5. CASE Close \/ Connect
  BY <1>5, CloseInv, ConnectInv
<1>6. CASE UNCHANGED vars
  BY <1>6, StutterInv
<1> QED BY <1>1, <1>2, <1>3, <1>4, <1>5, <1>6 DEF Next

LEMMA InvCorrect == Spec => []IInv
<1> QED BY InitInv, StepInv, PTL DEF Spec

(* The queue, the lock and the threads keep their types, and the lock is   *)
(* held exactly by the thread inside SendIO.                               *)
THEOREM TypeCorrect == Spec => []TypeOK
<1>1. IInv => TypeOK
  BY DEF IInv
<1> QED BY <1>1, InvCorrect, PTL

(* However many threads answer, complete and close, the slot never has two *)
(* WSASends under way.                                                     *)
THEOREM SendsAlone == Spec => []OneSendAtATime
<1>1. IInv => OneSendAtATime
  BY DEF IInv
<1> QED BY <1>1, InvCorrect, PTL

(* The buffer of a send in progress is the head of the queue, alive.       *)
THEOREM BufferAlive == Spec => []InFlightIsHead
<1>1. IInv => InFlightIsHead
  BY DEF IInv
<1> QED BY <1>1, InvCorrect, PTL

(* No message waits for a wakeup that was lost, unless a send has failed.  *)
THEOREM WakeupKept == Spec => []NoLostWakeup
<1>1. IInv => NoLostWakeup
  BY DEF IInv
<1> QED BY <1>1, InvCorrect, PTL

(* What an old connection left in the queue is never sent on a later one.  *)
THEOREM NothingForeign == Spec => []NoForeignMessage
<1>1. IInv => NoForeignMessage
  BY DEF IInv
<1> QED BY <1>1, InvCorrect, PTL

----------------------------------------------------------------------------
(* The queue implements the channel.                                       *)

Received == [i \in 1..Len(wire) |-> wire[i].n]

\* The channel's sequences are intervals of message numbers.
Interval(a, k) == [i \in 1..k |-> a + i]

LEMMA IntervalSeq ==
    ASSUME NEW a \in Nat, NEW k \in Nat
    PROVE  /\ Interval(a, k) \in Seq(Nat) /\ Len(Interval(a, k)) = k
           /\ \A i \in 1..k : Interval(a, k)[i] = a + i
BY DEF Interval

LEMMA AppendNat ==
    ASSUME NEW s \in Seq(Nat), NEW e \in Nat
    PROVE  /\ Append(s, e) \in Seq(Nat) /\ Len(s) \in Nat
           /\ Len(Append(s, e)) = Len(s) + 1
           /\ \A i \in 1..Len(s) : Append(s, e)[i] = s[i]
           /\ Append(s, e)[Len(s) + 1] = e
BY AppendProperties

LEMMA IntervalAppend ==
    ASSUME NEW a \in Nat, NEW k \in Nat
    PROVE  Interval(a, k + 1) = Append(Interval(a, k), a + k + 1)
<1> DEFINE s == Interval(a, k)
           u == Append(s, a + k + 1)
           v == Interval(a, k + 1)
<1>1. s \in Seq(Nat) /\ Len(s) = k /\ \A i \in 1..k : s[i] = a + i
  BY IntervalSeq
<1>2. v \in Seq(Nat) /\ Len(v) = k + 1 /\ \A i \in 1..k + 1 : v[i] = a + i
  BY IntervalSeq
<1>3. u \in Seq(Nat) /\ Len(u) = k + 1 /\ (\A i \in 1..k : u[i] = s[i]) /\ u[k + 1] = a + k + 1
  BY <1>1, AppendNat
<1> HIDE DEF s, u, v
<1>4. ASSUME NEW i \in 1..Len(v) PROVE v[i] = u[i]
  <2>1. CASE i \in 1..k
    BY <1>1, <1>2, <1>3, <2>1
  <2>2. CASE i = k + 1
    <3>1. u[i] = a + k + 1 /\ v[i] = a + i
      BY <1>2, <1>3, <2>2
    <3> QED BY <2>2, <3>1
  <2>3. i \in 1..k \/ i = k + 1
    BY <1>2
  <2> QED BY <2>1, <2>2, <2>3
<1>5. u = v
  BY <1>2, <1>3, <1>4, SeqEqual
<1> QED BY <1>5 DEF s, u, v

LEMMA IntervalTail ==
    ASSUME NEW a \in Nat, NEW k \in Nat, k > 0
    PROVE  /\ Interval(a, k) # << >>
           /\ Head(Interval(a, k)) = a + 1
           /\ Tail(Interval(a, k)) = Interval(a + 1, k - 1)
<1> DEFINE s == Interval(a, k)
           u == Tail(s)
           v == Interval(a + 1, k - 1)
<1>1. s \in Seq(Nat) /\ Len(s) = k /\ \A i \in 1..k : s[i] = a + i
  BY IntervalSeq
<1>2. v \in Seq(Nat) /\ Len(v) = k - 1 /\ \A i \in 1..k - 1 : v[i] = (a + 1) + i
  BY IntervalSeq
<1>3. s # << >>
  BY <1>1, EmptySeq
<1>4. /\ Head(s) = s[1] /\ u \in Seq(Nat) /\ Len(u) = k - 1
      /\ \A i \in 1..k - 1 : u[i] = s[i + 1]
  BY <1>1, <1>3, HeadTailProperties
<1>5. ASSUME NEW i \in 1..Len(v) PROVE v[i] = u[i]
  <2>1. i \in 1..k - 1 /\ i + 1 \in 1..k
    BY <1>2
  <2> QED BY <1>1, <1>2, <1>4, <2>1
<1> HIDE DEF s, u, v
<1>6. u = v
  BY <1>2, <1>4, <1>5, SeqEqual
<1>7. Head(s) = a + 1
  BY <1>1, <1>4
<1> QED BY <1>3, <1>6, <1>7 DEF s, u, v

LinkShape ==
    /\ Len(wire) \in Nat /\ pushed \in Nat /\ Len(wire) <= pushed
    /\ Unsent = Interval(Len(wire), pushed - Len(wire))
    /\ Received = Interval(0, Len(wire))

LEMMA LinkState == IInv => LinkShape
<1> SUFFICES ASSUME IInv PROVE LinkShape
  OBVIOUS
<1>1. /\ Len(wire) \in Nat /\ pushed \in Nat /\ Len(queue) \in Nat
      /\ queue \in Seq(Sends) /\ (Done => queue # << >>)
  <2>1. wire \in Seq(Sends) /\ queue \in Seq(Sends) /\ pushed \in Nat
    BY DEF IInv, TypeOK
  <2>2. Len(wire) \in Nat /\ Len(queue) \in Nat
    BY <2>1
  <2>3. Done => queue # << >>
    BY DEF IInv, Done, CompletedHasHead, InFlightIsHead, Active
  <2> QED BY <2>1, <2>2, <2>3
<1>2. Len(wire) <= pushed
  <2>1. CASE Done
    <3>1. Len(queue) > 0
      BY <1>1, <2>1, EmptySend
    <3>2. Len(wire) + Len(queue) = pushed + 1
      BY <2>1 DEF IInv, Count
    <3> QED BY <1>1, <3>1, <3>2
  <2>2. CASE ~Done
    BY <1>1, <2>2 DEF IInv, Count
  <2> QED BY <2>1, <2>2
<1>3. \A i \in 1..Len(wire) : wire[i].n = 0 + i
  BY <1>1 DEF IInv, WireNumbered
<1>4. Received = Interval(0, Len(wire))
  BY <1>3 DEF Received, Interval
<1> QED BY <1>1, <1>2, <1>4 DEF LinkShape, Unsent, Interval

LEMMA LinkInit == Init => Link!Init
<1> SUFFICES ASSUME Init PROVE Link!Init
  OBVIOUS
<1>1. pushed = 0 /\ wire = << >> /\ Len(wire) = 0
  BY EmptySend DEF Init
<1>2. /\ Unsent = Interval(0, 0) /\ Received = Interval(0, 0)
  BY <1>1 DEF Unsent, Received, Interval
<1>3. Interval(0, 0) = << >>
  <2>1. Interval(0, 0) \in Seq(Nat) /\ Len(Interval(0, 0)) = 0
    BY IntervalSeq
  <2> QED BY <2>1, EmptySeq
<1> QED BY <1>1, <1>2, <1>3 DEF Link!Init, Received

LEMMA LinkStep == IInv /\ IInv' /\ [Next]_vars => [Link!Next]_(Link!vars)
<1> SUFFICES ASSUME IInv, IInv', [Next]_vars PROVE [Link!Next]_(Link!vars)
  OBVIOUS
<1>1. LinkShape
  BY LinkState
<1>2. LinkShape'
  BY LinkState, PTL
<1> DEFINE k == Len(wire)
<1>3. CASE UNCHANGED <<pushed, wire>>
  <2>1. Unsent' = Unsent /\ Received' = Received
    BY <1>3 DEF Unsent, Received
  <2> QED BY <1>3, <2>1 DEF Link!vars, Received
<1>4. ASSUME NEW t \in Threads, Push(t) PROVE Link!Accept
  <2>1. pushed < MaxMsg /\ pushed' = pushed + 1 /\ wire' = wire
    BY <1>4 DEF Push
  <2>2. /\ k \in Nat /\ pushed - k \in Nat
        /\ Unsent = Interval(k, pushed - k) /\ Received' = Received
        /\ Unsent' = Interval(k, (pushed - k) + 1)
    BY <1>1, <1>2, <2>1 DEF LinkShape
  <2>3. Unsent' = Append(Unsent, pushed + 1)
    <3>1. k + (pushed - k) + 1 = pushed + 1
      BY <1>1 DEF LinkShape
    <3> HIDE DEF k
    <3> QED BY <2>2, <3>1, IntervalAppend
  <2> QED BY <2>1, <2>2, <2>3 DEF Link!Accept, Received
<1>5. ASSUME NEW o \in ops, Complete(o, TRUE) PROVE Link!Receive
  <2>1. pushed' = pushed /\ wire' = Append(wire, o)
    BY <1>5 DEF Complete
  <2>2. wire \in Seq(Sends) /\ o \in Sends
    BY DEF IInv, TypeOK
  <2>3. Len(wire') = k + 1
    BY <2>1, <2>2, AppendSend
  <2>4. /\ k \in Nat /\ pushed - k \in Nat /\ pushed - k > 0
        /\ Unsent = Interval(k, pushed - k) /\ Received = Interval(0, k)
        /\ Unsent' = Interval(k + 1, (pushed - k) - 1)
        /\ Received' = Interval(0, k + 1)
    BY <1>1, <1>2, <2>1, <2>3 DEF LinkShape
  <2> HIDE DEF k
  <2>5. Unsent # << >> /\ Head(Unsent) = k + 1 /\ Unsent' = Tail(Unsent)
    BY <2>4, IntervalTail
  <2>6. Received' = Append(Received, k + 1)
    <3>1. 0 + k + 1 = k + 1
      BY <2>4
    <3> QED BY <2>4, <3>1, IntervalAppend
  <2> QED BY <2>1, <2>5, <2>6 DEF Link!Receive, Received
<1>6. ASSUME NEW t \in Threads, SendMsg(t) \/ SendIO(t) PROVE UNCHANGED <<pushed, wire>>
  BY <1>6 DEF SendMsg, SendIO
<1>7. ASSUME NEW w \in Workers, SendCompleted(w) \/ CloseSocket(w)
      PROVE  UNCHANGED <<pushed, wire>>
  BY <1>7 DEF SendCompleted, CloseSocket
<1>8. ASSUME NEW w \in Workers, NEW x \in port, GetCompletion(w, x)
      PROVE  UNCHANGED <<pushed, wire>>
  BY <1>8 DEF GetCompletion
<1>9. ASSUME NEW o \in ops, Complete(o, FALSE) PROVE UNCHANGED <<pushed, wire>>
  BY <1>9 DEF Complete
<1>10. ASSUME Close \/ Connect \/ UNCHANGED vars PROVE UNCHANGED <<pushed, wire>>
  BY <1>10 DEF Close, Connect, vars
<1>11. ASSUME NEW o \in ops, NEW ok \in BOOLEAN, Complete(o, ok)
       PROVE  Link!Receive \/ UNCHANGED <<pushed, wire>>
  <2>1. CASE ok = TRUE
    BY <1>5, <1>11, <2>1
  <2>2. CASE ok = FALSE
    BY <1>9, <1>11, <2>2
  <2> QED BY <2>1, <2>2
<1> QED BY <1>3, <1>4, <1>6, <1>7, <1>8, <1>10, <1>11 DEF Next, Link!Next

(* Whatever fails, the messages of a slot reach the system in the order of *)
(* the pushes and without a gap: the queue implements PacketChannel.       *)
THEOREM Implements == Spec => ImplementsLink
<1>1. IInv /\ IInv' /\ [Next]_vars => [Link!Next]_(Link!vars)
  BY LinkStep
<1> QED BY <1>1, LinkInit, InvCorrect, PTL DEF Spec, ImplementsLink, Link!Spec

-----------------------------------------------------------------------------
(* The stream of a client.                                                 *)
Ids  == DOMAIN Length
Unit == [packet : Nat, at : Nat, length : Nat]

LEMMA Lengths == /\ Ids = {"LOGIN_REQUEST", "CHARACTER_INFO_REQUEST", "LOGIN_RESPONSE"}
                 /\ \A id \in Ids : Length[id] \in {2, 3}
                 /\ Length["LOGIN_RESPONSE"] = 2
BY DEF Ids, Length

LEMMA UnitsOf ==
    ASSUME NEW n \in Nat, NEW id \in Ids
    PROVE  /\ Units(n, id) \in Seq(Unit) /\ Len(Units(n, id)) = Length[id]
           /\ \A i \in 1..Length[id] :
                  Units(n, id)[i] = [packet |-> n, at |-> i, length |-> Length[id]]
<1> DEFINE L == Length[id]
<1>1. L \in Nat
  BY Lengths
<1> HIDE DEF L
<1>2. \A i \in 1..L : [packet |-> n, at |-> i, length |-> L] \in Unit
  BY <1>1 DEF Unit
<1>3. Units(n, id) = [i \in 1..L |-> [packet |-> n, at |-> i, length |-> L]]
  BY DEF Units, L
<1>4. Units(n, id) \in [1..L -> Unit]
  BY <1>2, <1>3
<1>5. Units(n, id) \in Seq(Unit) /\ Len(Units(n, id)) = L
  BY <1>1, <1>4
<1> QED
  BY <1>3, <1>5 DEF L

----------------------------------------------------------------------------
(* Types of PacketStream.                                                  *)
BufferOf == [0..BufferSize - 1 -> Unit]
Hand     == [at : {"idle", "move", "rewind", "copy", "advance", "queue"}, data : Seq(Unit)]
Take     == [at : {"idle", "take", "move", "handle"}, ptr : Nat, size : Nat]

ClientTyped == /\ sent \in Seq(Ids) /\ toServer \in Seq(Unit)
               /\ answers \in Seq(Results) /\ back \in Seq(Unit)
               /\ recvBuffer \in [1..2 -> Unit] /\ split \in BOOLEAN
WorkerTyped == /\ mPakcetDataBuffer \in BufferOf /\ mPakcetDataBufferWPos \in 0..BufferSize
               /\ worker \in Hand /\ merged \in Nat
               /\ worker.at = "advance" => mPakcetDataBufferWPos + Len(worker.data) <= BufferSize
TakerTyped  == /\ mPakcetDataBufferRPos \in Nat /\ mInComingPacketUserIndex \in Nat
               /\ taker \in Take /\ handled \in Seq(Seq(Unit)) /\ torn \in BOOLEAN
               /\ taker.at \in {"move", "handle"} => taker.ptr + taker.size <= BufferSize

STyped == ClientTyped /\ WorkerTyped /\ TakerTyped

LEMMA Sizes == BufferSize \in Nat /\ BufferSize > 0 /\ MaxReceive \in Nat
BY SizesAssumption

LEMMA InitTyped == StreamInit => STyped
<1> SUFFICES ASSUME StreamInit PROVE STyped
  OBVIOUS
<1>1. Blank \in Unit
  BY DEF Blank, Unit
<1>2. <<Blank, Blank>> \in [1..2 -> Unit]
  BY <1>1
<1>3. ClientTyped
  BY <1>2, EmptySeq DEF StreamInit, ClientTyped
<1>4. mPakcetDataBuffer \in BufferOf
  BY <1>1 DEF StreamInit, BufferOf
<1>5. WorkerTyped
  BY <1>4, Sizes, EmptySeq DEF StreamInit, WorkerTyped, Hand
<1>6. TakerTyped
  BY EmptySeq DEF StreamInit, TakerTyped, Take
<1> QED
  BY <1>3, <1>5, <1>6 DEF STyped

LEMMA SendDataTyped ==
    ASSUME STyped, NEW id \in Ids, SendData(id)
    PROVE  sent' \in Seq(Ids) /\ toServer' \in Seq(Unit)
<1>1. Len(sent) + 1 \in Nat /\ sent \in Seq(Ids) /\ toServer \in Seq(Unit)
  BY LenProperties DEF STyped, ClientTyped
<1>2. Units(Len(sent) + 1, id) \in Seq(Unit)
  BY <1>1, UnitsOf
<1>3. toServer' \in Seq(Unit)
  BY <1>1, <1>2, ConcatProperties DEF SendData
<1>4. sent' \in Seq(Ids)
  BY <1>1, AppendProperties DEF SendData
<1> QED
  BY <1>3, <1>4

LEMMA SendLoginTyped == ASSUME STyped, SendLoginPacket PROVE STyped'
<1>1. "LOGIN_REQUEST" \in Ids
  BY Lengths
<1>2. sent' \in Seq(Ids) /\ toServer' \in Seq(Unit)
  BY <1>1, SendDataTyped DEF SendLoginPacket
<1> QED
  BY <1>2 DEF SendLoginPacket, STyped, ClientTyped, WorkerTyped, TakerTyped, server, client

\* A part of a sequence.
LEMMA Part ==
    ASSUME NEW S, NEW s \in Seq(S), NEW m \in Nat \ {0}, NEW n \in Nat, n <= Len(s), m <= n + 1
    PROVE  /\ SubSeq(s, m, n) \in Seq(S) /\ Len(SubSeq(s, m, n)) = n - m + 1
           /\ \A i \in 1..n - m + 1 : SubSeq(s, m, n)[i] = s[m + i - 1]
<1>1. Len(s) \in Nat /\ \A i \in 1..Len(s) : s[i] \in S
  BY LenProperties, ElementOfSeq
<1>2. \A i \in m..n : s[i] \in S
  BY <1>1
<1>3. /\ SubSeq(s, m, n) \in Seq(S)
      /\ Len(SubSeq(s, m, n)) = IF m <= n THEN n - m + 1 ELSE 0
      /\ \A i \in 1..n - m + 1 : SubSeq(s, m, n)[i] = s[m + i - 1]
  BY <1>2, SubSeqProperties
<1> QED
  BY <1>3

LEMMA RunTyped == ASSUME STyped, NEW n \in 1..Len(back), Run(n) PROVE STyped'
<1>1. back \in Seq(Unit) /\ Len(back) \in Nat /\ \A i \in 1..Len(back) : back[i] \in Unit
  BY LenProperties, ElementOfSeq DEF STyped, ClientTyped
<1>2. back' \in Seq(Unit)
  BY <1>1, Part DEF Run
<1>3. \A i \in 1..2 : (IF i <= n THEN back[i] ELSE recvBuffer[i]) \in Unit
  BY <1>1 DEF STyped, ClientTyped
<1>4. recvBuffer' \in [1..2 -> Unit]
  BY <1>3 DEF Run
<1>5. split' \in BOOLEAN /\ answers' = answers
  BY DEF Run, STyped, ClientTyped
<1>6. sent' \in Seq(Ids) /\ toServer' \in Seq(Unit)
  <2>1. UNCHANGED <<sent, toServer>> \/ SendData("CHARACTER_INFO_REQUEST")
    BY DEF Run
  <2>2. "CHARACTER_INFO_REQUEST" \in Ids
    BY Lengths
  <2> QED
    BY <2>1, <2>2, SendDataTyped DEF STyped, ClientTyped
<1> QED
  BY <1>2, <1>4, <1>5, <1>6 DEF Run, STyped, ClientTyped, WorkerTyped, TakerTyped, server

LEMMA EndsCount == \A data \in Seq(Unit) : /\ IsFiniteSet({i \in DOMAIN data : data[i].at = data[i].length})
                                           /\ Ends(data) \in Nat
<1> SUFFICES ASSUME NEW data \in Seq(Unit)
             PROVE  /\ IsFiniteSet({i \in DOMAIN data : data[i].at = data[i].length})
                    /\ Ends(data) \in Nat
  OBVIOUS
<1>1. DOMAIN data = 1..Len(data) /\ Len(data) \in Nat
  BY LenProperties
<1>2. IsFiniteSet(1..Len(data))
  BY <1>1, FS_Interval
<1>3. IsFiniteSet({i \in DOMAIN data : data[i].at = data[i].length})
  BY <1>1, <1>2, FS_Subset
<1> QED
  BY <1>3, FS_CardinalityType DEF Ends

\* What a receive takes from the stream.
LEMMA ReceivedUnits ==
    ASSUME STyped, NEW n \in 1..Smaller(MaxReceive, Len(toServer)), Receive(n)
    PROVE  /\ n \in Nat \ {0} /\ n <= Len(toServer) /\ Len(toServer) \in Nat
           /\ worker'.data \in Seq(Unit) /\ Len(worker'.data) = n
           /\ \A i \in 1..n : worker'.data[i] = toServer[i]
           /\ toServer' \in Seq(Unit) /\ Len(toServer') = Len(toServer) - n
           /\ \A i \in 1..Len(toServer) - n : toServer'[i] = toServer[n + i]
           /\ worker'.at \in {"move", "copy"}
<1>1. toServer \in Seq(Unit) /\ Len(toServer) \in Nat
  BY LenProperties DEF STyped, ClientTyped
<1>2. n \in Nat \ {0} /\ n <= Len(toServer)
  BY <1>1, Sizes DEF Smaller
<1>3. worker'.data = SubSeq(toServer, 1, n) /\ worker'.at \in {"move", "copy"}
  BY DEF Receive
<1>4. toServer' = SubSeq(toServer, n + 1, Len(toServer))
  BY DEF Receive
<1>5. /\ SubSeq(toServer, 1, n) \in Seq(Unit) /\ Len(SubSeq(toServer, 1, n)) = n - 1 + 1
      /\ \A i \in 1..n - 1 + 1 : SubSeq(toServer, 1, n)[i] = toServer[1 + i - 1]
  BY <1>1, <1>2, Part
<1>6. /\ SubSeq(toServer, n + 1, Len(toServer)) \in Seq(Unit)
      /\ Len(SubSeq(toServer, n + 1, Len(toServer))) = Len(toServer) - (n + 1) + 1
      /\ \A i \in 1..Len(toServer) - (n + 1) + 1 :
             SubSeq(toServer, n + 1, Len(toServer))[i] = toServer[n + 1 + i - 1]
  BY <1>1, <1>2, Part
<1>7. Len(worker'.data) = n /\ \A i \in 1..n : worker'.data[i] = toServer[i]
  BY <1>2, <1>3, <1>5
<1>8. /\ Len(toServer') = Len(toServer) - n
      /\ \A i \in 1..Len(toServer) - n : toServer'[i] = toServer[n + i]
  BY <1>1, <1>2, <1>4, <1>6
<1> QED
  BY <1>1, <1>2, <1>3, <1>4, <1>5, <1>6, <1>7, <1>8

LEMMA ReceiveTyped ==
    ASSUME STyped, NEW n \in 1..Smaller(MaxReceive, Len(toServer)), Receive(n)
    PROVE  STyped'
<1>1. worker'.data \in Seq(Unit) /\ toServer' \in Seq(Unit) /\ worker'.at \in {"move", "copy"}
  BY ReceivedUnits
<1>2. \E a, d : worker' = [at |-> a, data |-> d]
  BY DEF Receive
<1>3. worker' \in Hand
  BY <1>1, <1>2 DEF Hand
<1>4. Ends(worker'.data) \in Nat
  BY <1>1, EndsCount
<1>5. merged' = merged + (IF Ends(worker'.data) > 1 THEN Ends(worker'.data) - 1 ELSE 0)
  BY DEF Receive
<1>6. merged' \in Nat
  BY <1>4, <1>5 DEF STyped, WorkerTyped
<1> QED
  BY <1>1, <1>3, <1>6 DEF Receive, STyped, ClientTyped, WorkerTyped, TakerTyped, client

LEMMA MoveTyped == ASSUME STyped, Move PROVE STyped'
<1> DEFINE r == mPakcetDataBufferRPos
           w == mPakcetDataBufferWPos
<1>1. /\ w \in Nat /\ r \in Nat /\ w <= BufferSize /\ BufferSize \in Nat
      /\ mPakcetDataBuffer \in [0..BufferSize - 1 -> Unit]
  BY Sizes DEF STyped, WorkerTyped, TakerTyped, BufferOf
<1>2. /\ mPakcetDataBufferWPos' = IF w - r > 0 THEN w - r ELSE 0
      /\ mPakcetDataBuffer' = [i \in 0..BufferSize - 1 |->
                                  mPakcetDataBuffer[IF i < w - r THEN r + i ELSE i]]
      /\ worker' = [worker EXCEPT !.at = "rewind"]
      /\ torn' = (torn \/ taker.at # "idle")
      /\ UNCHANGED <<client, sent, toServer, answers, back, mPakcetDataBufferRPos,
                     mInComingPacketUserIndex, taker, handled, merged>>
  BY DEF Move, WorkerGoes
<1> HIDE DEF r, w
<1>3. mPakcetDataBufferWPos' \in 0..BufferSize
  BY <1>1, <1>2
<1>4. \A i \in 0..BufferSize - 1 : (IF i < w - r THEN r + i ELSE i) \in 0..BufferSize - 1
  BY <1>1
<1>5. mPakcetDataBuffer' \in BufferOf
  BY <1>1, <1>2, <1>4 DEF BufferOf
<1>6. worker' \in Hand /\ worker'.at = "rewind"
  BY <1>2 DEF STyped, WorkerTyped, Hand
<1>7. torn' \in BOOLEAN
  BY <1>2
<1> QED
  BY <1>2, <1>3, <1>5, <1>6, <1>7 DEF STyped, ClientTyped, WorkerTyped, TakerTyped, client

LEMMA RewindTyped == ASSUME STyped, Rewind PROVE STyped'
<1>1. worker' \in Hand /\ worker'.at = "copy"
  BY DEF Rewind, WorkerGoes, STyped, WorkerTyped, Hand
<1> QED
  BY <1>1 DEF Rewind, STyped, ClientTyped, WorkerTyped, TakerTyped, client

\* What a copy writes, and where.
LEMMA Written ==
    ASSUME STyped, Copy
    PROVE  /\ mPakcetDataBuffer' \in BufferOf
           /\ mPakcetDataBufferWPos + Len(worker.data) <= BufferSize
           /\ \A i \in 0..mPakcetDataBufferWPos - 1 : mPakcetDataBuffer'[i] = mPakcetDataBuffer[i]
           /\ \A k \in 1..Len(worker.data) :
                  mPakcetDataBuffer'[mPakcetDataBufferWPos + k - 1] = worker.data[k]
<1> DEFINE w == mPakcetDataBufferWPos
           d == worker.data
<1>1. /\ w \in Nat /\ BufferSize \in Nat /\ d \in Seq(Unit) /\ Len(d) \in Nat
      /\ DOMAIN d = 1..Len(d) /\ \A k \in 1..Len(d) : d[k] \in Unit
      /\ mPakcetDataBuffer \in [0..BufferSize - 1 -> Unit] /\ w <= BufferSize
  BY Sizes, LenProperties, ElementOfSeq DEF STyped, WorkerTyped, BufferOf, Hand
<1>2. /\ w + Len(d) <= BufferSize
      /\ mPakcetDataBuffer' =
           [i \in 0..BufferSize - 1 |->
              IF i - w + 1 \in DOMAIN d THEN d[i - w + 1] ELSE mPakcetDataBuffer[i]]
  BY DEF Copy
<1> HIDE DEF w, d
<1>3. \A i \in 0..BufferSize - 1 :
          (IF i - w + 1 \in DOMAIN d THEN d[i - w + 1] ELSE mPakcetDataBuffer[i]) \in Unit
  BY <1>1
<1>4. mPakcetDataBuffer' \in BufferOf
  BY <1>2, <1>3 DEF BufferOf
<1>5. \A i \in 0..w - 1 : mPakcetDataBuffer'[i] = mPakcetDataBuffer[i]
  BY <1>1, <1>2
<1>6. \A k \in 1..Len(d) : mPakcetDataBuffer'[w + k - 1] = d[k]
  <2> SUFFICES ASSUME NEW k \in 1..Len(d) PROVE mPakcetDataBuffer'[w + k - 1] = d[k]
    OBVIOUS
  <2>1. w + k - 1 \in 0..BufferSize - 1 /\ (w + k - 1) - w + 1 = k /\ k \in DOMAIN d
    BY <1>1, <1>2
  <2> QED
    BY <1>2, <2>1
<1> QED
  BY <1>2, <1>4, <1>5, <1>6 DEF w, d

LEMMA CopyTyped == ASSUME STyped, Copy PROVE STyped'
<1>1. worker' \in Hand /\ worker'.data = worker.data
  BY DEF Copy, WorkerGoes, STyped, WorkerTyped, Hand
<1> QED
  BY <1>1, Written DEF Copy, STyped, ClientTyped, WorkerTyped, TakerTyped, client

LEMMA AdvanceTyped == ASSUME STyped, Advance PROVE STyped'
<1>1. worker' \in Hand /\ worker'.at = "queue"
  BY DEF Advance, WorkerGoes, STyped, WorkerTyped, Hand
<1>2. Len(worker.data) \in Nat /\ mPakcetDataBufferWPos + Len(worker.data) <= BufferSize
  BY LenProperties DEF Advance, STyped, WorkerTyped, Hand
<1>3. mPakcetDataBufferWPos' \in 0..BufferSize
  BY <1>2, Sizes DEF Advance, STyped, WorkerTyped
<1> QED
  BY <1>1, <1>3 DEF Advance, STyped, ClientTyped, WorkerTyped, TakerTyped, client

LEMMA EnqueueTyped == ASSUME STyped, EnqueuePacketData PROVE STyped'
<1>1. worker' \in Hand /\ worker'.at = "idle"
  BY EmptySeq DEF EnqueuePacketData, Hand
<1> QED
  BY <1>1 DEF EnqueuePacketData, STyped, ClientTyped, WorkerTyped, TakerTyped, client

LEMMA DequeueTyped == ASSUME STyped, Dequeue PROVE STyped'
<1>1. taker' \in Take /\ taker'.at = "take" /\ torn' \in BOOLEAN
  BY DEF Dequeue, STyped, TakerTyped, Take
<1>2. mInComingPacketUserIndex' \in Nat
  BY DEF Dequeue, STyped, TakerTyped
<1> QED
  BY <1>1, <1>2 DEF Dequeue, STyped, ClientTyped, WorkerTyped, TakerTyped, client

\* Either nothing is taken, because no whole packet is there, or one is.
LEMMA TakeOrNot ==
    ASSUME STyped, GetPacket
    PROVE  LET r == mPakcetDataBufferRPos
               w == mPakcetDataBufferWPos
               l == mPakcetDataBuffer[r].length
           IN  \/ (w - r < 1 \/ l > w - r) /\ taker' = [taker EXCEPT !.at = "idle"]
               \/ /\ w - r >= 1 /\ l <= w - r /\ l \in Nat
                  /\ taker' = [at |-> "move", ptr |-> r, size |-> l]
<1> DEFINE r == mPakcetDataBufferRPos
           w == mPakcetDataBufferWPos
           l == mPakcetDataBuffer[r].length
<1>1. r \in Nat /\ w \in Nat /\ w <= BufferSize /\ mPakcetDataBuffer \in [0..BufferSize - 1 -> Unit]
  BY Sizes DEF STyped, WorkerTyped, TakerTyped, BufferOf
<1>2. Incomplete(r, w - r) <=> (w - r < 1 \/ l > w - r)
  BY DEF Incomplete, PACKET_HEADER_LENGTH
<1>3. taker' = IF Incomplete(r, w - r) THEN [taker EXCEPT !.at = "idle"]
               ELSE [at |-> "move", ptr |-> r, size |-> l]
  BY DEF GetPacket
<1>4. CASE Incomplete(r, w - r)
  BY <1>2, <1>3, <1>4
<1>5. CASE ~Incomplete(r, w - r)
  <2>1. ~(w - r < 1) /\ ~(l > w - r)
    BY <1>2, <1>5
  <2>2. r \in 0..BufferSize - 1 /\ w - r >= 1
    BY <1>1, <2>1, Sizes
  <2>3. mPakcetDataBuffer[r] \in Unit
    BY <1>1, <2>2
  <2>4. l \in Nat
    BY <2>3 DEF Unit
  <2> HIDE DEF l, r, w
  <2>5. l <= w - r
    BY <1>1, <2>1, <2>4
  <2>6. taker' = [at |-> "move", ptr |-> r, size |-> l]
    BY <1>3, <1>5
  <2> QED
    BY <2>2, <2>4, <2>5, <2>6 DEF l, r, w
<1> QED
  BY <1>4, <1>5

LEMMA GetPacketTyped == ASSUME STyped, GetPacket PROVE STyped'
<1>1. taker' \in Take /\ (taker'.at \in {"move", "handle"} => taker'.ptr + taker'.size <= BufferSize)
  <2> DEFINE r == mPakcetDataBufferRPos
             w == mPakcetDataBufferWPos
             l == mPakcetDataBuffer[r].length
  <2>1. r \in Nat /\ w \in Nat /\ w <= BufferSize /\ BufferSize \in Nat /\ taker \in Take
    BY Sizes DEF STyped, WorkerTyped, TakerTyped
  <2>2. CASE taker' = [taker EXCEPT !.at = "idle"]
    BY <2>1, <2>2 DEF Take
  <2>3. CASE /\ w - r >= 1 /\ l <= w - r /\ l \in Nat
             /\ taker' = [at |-> "move", ptr |-> r, size |-> l]
    <3> HIDE DEF l, w, r
    <3>1. taker'.ptr = r /\ taker'.size = l /\ taker' \in Take
      BY <2>1, <2>3 DEF Take
    <3> QED
      BY <2>1, <2>3, <3>1
  <2> QED
    BY <2>2, <2>3, TakeOrNot
<1> QED
  BY <1>1 DEF GetPacket, STyped, ClientTyped, WorkerTyped, TakerTyped, client

LEMMA MoveReadPosTyped == ASSUME STyped, MoveReadPos PROVE STyped'
<1>1. /\ taker' \in Take /\ taker'.ptr = taker.ptr /\ taker'.size = taker.size
      /\ taker.at = "move" /\ taker.size \in Nat
  BY DEF MoveReadPos, STyped, TakerTyped, Take
<1>2. mPakcetDataBufferRPos' \in Nat
  BY <1>1 DEF MoveReadPos, STyped, TakerTyped
<1> QED
  BY <1>1, <1>2 DEF MoveReadPos, STyped, ClientTyped, WorkerTyped, TakerTyped, client

LEMMA ProcessTyped ==
    ASSUME STyped, NEW result \in Results, ProcessRecvPacket(result)
    PROVE  STyped'
<1> DEFINE data == [i \in 1..taker.size |-> mPakcetDataBuffer[taker.ptr + i - 1]]
<1>1. /\ taker.ptr \in Nat /\ taker.size \in Nat /\ taker.ptr + taker.size <= BufferSize
      /\ BufferSize \in Nat /\ mPakcetDataBuffer \in [0..BufferSize - 1 -> Unit]
  BY Sizes DEF ProcessRecvPacket, STyped, WorkerTyped, TakerTyped, Take, BufferOf
<1>2. \A i \in 1..taker.size : mPakcetDataBuffer[taker.ptr + i - 1] \in Unit
  BY <1>1
<1>3. data \in Seq(Unit)
  <2>1. data \in [1..taker.size -> Unit]
    BY <1>2
  <2> HIDE DEF data
  <2> QED
    BY <1>1, <2>1
<1>4. handled' = Append(handled, data)
  BY DEF ProcessRecvPacket
<1> HIDE DEF data
<1>5. handled' \in Seq(Seq(Unit))
  BY <1>3, <1>4, AppendProperties DEF STyped, TakerTyped
<1>6. taker' \in Take /\ taker'.at = "idle"
  BY DEF ProcessRecvPacket, STyped, TakerTyped, Take
<1>7. answers' \in Seq(Results) /\ back' \in Seq(Unit)
  <2>1. CASE UNCHANGED <<answers, back>>
    BY <2>1 DEF STyped, ClientTyped
  <2>2. CASE /\ answers' = Append(answers, result)
             /\ back' = back \o Units(Len(answers) + 1, "LOGIN_RESPONSE")
    <3>1. Units(Len(answers) + 1, "LOGIN_RESPONSE") \in Seq(Unit)
      <4>1. Len(answers) + 1 \in Nat /\ "LOGIN_RESPONSE" \in Ids
        BY Lengths, LenProperties DEF STyped, ClientTyped
      <4> QED
        BY <4>1, UnitsOf
    <3> QED
      BY <2>2, <3>1, AppendProperties, ConcatProperties DEF STyped, ClientTyped
  <2> QED
    BY <2>1, <2>2 DEF ProcessRecvPacket
<1> QED
  BY <1>5, <1>6, <1>7 DEF ProcessRecvPacket, STyped, ClientTyped, WorkerTyped, TakerTyped, client

LEMMA NextTyped == STyped /\ [StreamNext]_streamVars => STyped'
<1> SUFFICES ASSUME STyped, [StreamNext]_streamVars PROVE STyped'
  OBVIOUS
<1>1. CASE UNCHANGED streamVars
  BY <1>1 DEF streamVars, server, client, STyped, ClientTyped, WorkerTyped, TakerTyped
<1> QED
  BY <1>1, SendLoginTyped, RunTyped, ReceiveTyped, MoveTyped, RewindTyped, CopyTyped, AdvanceTyped,
     EnqueueTyped, DequeueTyped, GetPacketTyped, MoveReadPosTyped, ProcessTyped DEF StreamNext, Step

(* Types; and the packet a handler works on lies inside the buffer         *)
(* (User.h:104-121): a header that was read across the two threads never   *)
(* sends it beyond the end.                                                *)
THEOREM StreamTypeCorrect == StreamSpec => []STyped
BY InitTyped, NextTyped, PTL DEF StreamSpec

----------------------------------------------------------------------------
(* What is on its way to the packet thread, unit by unit: unread in the    *)
(* buffer, in the hands of the worker, on the wire.  Between the two steps *)
(* of a move, unread data starts at 0 already.                             *)
HasData  == worker.at \in {"move", "rewind", "copy", "advance"}
Base     == IF worker.at = "rewind" THEN 0 ELSE mPakcetDataBufferRPos
InWindow == mPakcetDataBufferWPos - Base
InHand   == IF HasData THEN worker.data ELSE << >>
Total    == InWindow + Len(InHand) + Len(toServer)
Way == [i \in 1..Total |->
          IF i <= InWindow THEN mPakcetDataBuffer[Base + i - 1]
          ELSE IF i <= InWindow + Len(InHand) THEN InHand[i - InWindow]
          ELSE toServer[i - InWindow - Len(InHand)]]

\* Packets the packet thread has taken.
Taken == Len(handled) + (IF taker.at = "handle" THEN 1 ELSE 0)

\* At place j of a stream T of N units starts packet p of those sent, s, whole
\* and followed by the next one.
PacketAt(T, N, s, j, p) ==
    LET l == Length[s[p]]
    IN  /\ p \in 1..Len(s) /\ j + l <= N + 1
        /\ \A i \in 1..l : T[j + i - 1] = [packet |-> p, at |-> i, length |-> l]
        /\ j + l = N + 1 => p = Len(s)
        /\ j + l # N + 1 => T[j + l].at = 1 /\ T[j + l].packet = p + 1

\* The stream starts with the packet behind the first n, or all were taken.
FramedBy(T, N, s, n) ==
    /\ \A j \in 1..N : T[j].at = 1 => PacketAt(T, N, s, j, T[j].packet)
    /\ N = 0 => n = Len(s)
    /\ N # 0 => T[1].at = 1 /\ T[1].packet = n + 1

LEMMA PacketSent ==
    ASSUME NEW T, NEW N \in Nat, NEW s \in Seq(Ids), NEW id \in Ids, NEW n \in Nat,
           FramedBy(T, N, s, n), NEW U,
           \A j \in 1..N : U[j] = T[j],
           \A i \in 1..Length[id] :
               U[N + i] = [packet |-> Len(s) + 1, at |-> i, length |-> Length[id]]
    PROVE  FramedBy(U, N + Length[id], Append(s, id), n)
<1> DEFINE L == Length[id]
           s2 == Append(s, id)
           M == N + L
<1>1. /\ L \in {2, 3} /\ Len(s) \in Nat /\ Len(s2) = Len(s) + 1
      /\ \A p \in 1..Len(s) : s2[p] = s[p] /\ Length[s[p]] \in {2, 3}
      /\ s2[Len(s) + 1] = id
  BY Lengths, LenProperties, ElementOfSeq, AppendProperties
<1>2. \A i \in 1..L : U[N + i] = [packet |-> Len(s) + 1, at |-> i, length |-> L]
  OBVIOUS
<1>3. U[N + 1].at = 1 /\ U[N + 1].packet = Len(s) + 1
  <2>1. 1 \in 1..L
    BY <1>1
  <2>2. U[N + 1] = [packet |-> Len(s) + 1, at |-> 1, length |-> L]
    BY <1>2, <2>1
  <2> QED
    BY <2>2
<1>4. ASSUME NEW j \in 1..M, U[j].at = 1 PROVE PacketAt(U, M, s2, j, U[j].packet)
  <2>1. CASE j <= N
    <3> DEFINE p == T[j].packet
               l == Length[s[p]]
    <3>1. j \in 1..N /\ T[j].at = 1 /\ U[j] = T[j]
      BY <1>1, <1>4, <2>1
    <3>2. PacketAt(T, N, s, j, p)
      BY <3>1 DEF FramedBy
    <3>3. /\ p \in 1..Len(s) /\ j + l <= N + 1
          /\ \A i \in 1..l : T[j + i - 1] = [packet |-> p, at |-> i, length |-> l]
          /\ j + l = N + 1 => p = Len(s)
          /\ j + l # N + 1 => T[j + l].at = 1 /\ T[j + l].packet = p + 1
      BY <3>2 DEF PacketAt
    <3> HIDE DEF p, l
    <3>4. l \in {2, 3} /\ Length[s2[p]] = l
      BY <1>1, <3>3 DEF l
    <3>5. \A i \in 1..l : j + i - 1 \in 1..N
      BY <3>1, <3>3, <3>4
    <3>6. \A i \in 1..l : U[j + i - 1] = [packet |-> p, at |-> i, length |-> l]
      BY <3>3, <3>5
    <3>7. j + l # M + 1 /\ j + l <= M + 1
      BY <1>1, <3>1, <3>3, <3>4
    <3>8. U[j + l].at = 1 /\ U[j + l].packet = p + 1
      <4>1. CASE j + l = N + 1
        BY <1>3, <3>3, <4>1
      <4>2. CASE j + l # N + 1
        <5>1. j + l \in 1..N
          BY <3>1, <3>3, <3>4, <4>2
        <5> QED
          BY <3>3, <4>2, <5>1
      <4> QED
        BY <4>1, <4>2
    <3>9. p \in 1..Len(s2)
      BY <1>1, <3>3
    <3>10. PacketAt(U, M, s2, j, p)
      BY <3>4, <3>6, <3>7, <3>8, <3>9 DEF PacketAt
    <3> QED
      BY <3>1, <3>10 DEF p
  <2>2. CASE j > N
    <3>1. PICK i \in 1..L : j = N + i
      <4>1. j - N \in 1..L /\ j = N + (j - N)
        BY <1>1, <2>2
      <4> QED
        BY <4>1
    <3>2. U[j] = [packet |-> Len(s) + 1, at |-> i, length |-> L]
      BY <1>2, <3>1
    <3>3. i = 1
      BY <1>4, <3>2
    <3>4. j = N + 1 /\ U[j].packet = Len(s) + 1
      BY <3>1, <3>2, <3>3
    <3>5. \A k \in 1..L : U[j + k - 1] = [packet |-> Len(s) + 1, at |-> k, length |-> L]
      <4> TAKE k \in 1..L
      <4>1. j + k - 1 = N + k
        BY <1>1, <3>4
      <4> QED
        BY <1>2, <4>1
    <3>6. j + L = M + 1 /\ Len(s) + 1 \in 1..Len(s2) /\ Length[s2[Len(s) + 1]] = L
      BY <1>1, <3>4
    <3> HIDE DEF L, M, s2
    <3>7. PacketAt(U, M, s2, j, Len(s) + 1)
      BY <1>1, <3>5, <3>6 DEF PacketAt
    <3> QED
      BY <3>4, <3>7
  <2> QED
    BY <1>1, <2>1, <2>2
<1>5. M # 0
  BY <1>1
<1>6. U[1].at = 1 /\ U[1].packet = n + 1
  <2>1. CASE N = 0
    BY <1>3, <2>1 DEF FramedBy
  <2>2. CASE N # 0
    BY <2>2 DEF FramedBy
  <2> QED
    BY <2>1, <2>2
<1> QED
  BY <1>4, <1>5, <1>6 DEF FramedBy

\* The first packet of a stream, and what is left without it.
LEMMA FirstPacket ==
    ASSUME NEW T, NEW N \in Nat \ {0}, NEW s \in Seq(Ids), NEW n \in Nat, FramedBy(T, N, s, n)
    PROVE  /\ n + 1 \in 1..Len(s) /\ T[1].length = Length[s[n + 1]] /\ Length[s[n + 1]] \in {2, 3}
           /\ Length[s[n + 1]] <= N
           /\ \A i \in 1..Length[s[n + 1]] :
                  T[i] = [packet |-> n + 1, at |-> i, length |-> Length[s[n + 1]]]
<1> DEFINE l == Length[s[n + 1]]
<1>1. T[1].at = 1 /\ T[1].packet = n + 1 /\ PacketAt(T, N, s, 1, n + 1)
  BY DEF FramedBy
<1>2. /\ n + 1 \in 1..Len(s) /\ 1 + l <= N + 1
      /\ \A i \in 1..l : T[1 + i - 1] = [packet |-> n + 1, at |-> i, length |-> l]
  BY <1>1 DEF PacketAt
<1>3. l \in {2, 3}
  <2>1. s[n + 1] \in Ids
    BY <1>2, ElementOfSeq
  <2> QED
    BY <2>1, Lengths
<1> HIDE DEF l
<1>4. \A i \in 1..l : T[i] = [packet |-> n + 1, at |-> i, length |-> l]
  <2> TAKE i \in 1..l
  <2>1. 1 + i - 1 = i
    BY <1>3
  <2> QED
    BY <1>2, <2>1
<1>5. T[1].length = l /\ l <= N
  <2>1. 1 \in 1..l /\ l <= N
    BY <1>2, <1>3
  <2>2. T[1] = [packet |-> n + 1, at |-> 1, length |-> l]
    BY <1>4, <2>1
  <2> QED
    BY <2>1, <2>2
<1> QED
  BY <1>2, <1>3, <1>4, <1>5 DEF l

LEMMA PacketTaken ==
    ASSUME NEW T, NEW N \in Nat \ {0}, NEW s \in Seq(Ids), NEW n \in Nat, FramedBy(T, N, s, n),
           NEW U, \A j \in 1..N - Length[s[n + 1]] : U[j] = T[j + Length[s[n + 1]]]
    PROVE  FramedBy(U, N - Length[s[n + 1]], s, n + 1)
<1> DEFINE L == Length[s[n + 1]]
           M == N - L
<1>1. n + 1 \in 1..Len(s) /\ L \in {2, 3} /\ L <= N /\ M \in Nat
  <2>1. n + 1 \in 1..Len(s) /\ L \in {2, 3} /\ L <= N
    BY FirstPacket
  <2> HIDE DEF L
  <2> QED
    BY <2>1
<1>2. PacketAt(T, N, s, 1, n + 1)
  BY DEF FramedBy
<1>3. \A j \in 1..M : U[j] = T[j + L]
  OBVIOUS
<1>4. ASSUME NEW j \in 1..M, U[j].at = 1 PROVE PacketAt(U, M, s, j, U[j].packet)
  <2> DEFINE p == U[j].packet
             l == Length[s[p]]
  <2>1. j + L \in 1..N /\ U[j] = T[j + L]
    BY <1>1
  <2>2. PacketAt(T, N, s, j + L, p)
    BY <1>4, <2>1 DEF FramedBy
  <2>3. /\ p \in 1..Len(s) /\ j + L + l <= N + 1
        /\ \A i \in 1..l : T[j + L + i - 1] = [packet |-> p, at |-> i, length |-> l]
        /\ j + L + l = N + 1 => p = Len(s)
        /\ j + L + l # N + 1 => T[j + L + l].at = 1 /\ T[j + L + l].packet = p + 1
    BY <2>2 DEF PacketAt
  <2>4. l \in {2, 3}
    <3>1. s[p] \in Ids
      BY <2>3, ElementOfSeq
    <3> QED
      BY <3>1, Lengths
  <2> HIDE DEF p, l, L
  <2>5. \A i \in 1..l : U[j + i - 1] = [packet |-> p, at |-> i, length |-> l]
    <3> TAKE i \in 1..l
    <3>1. j + i - 1 \in 1..M /\ (j + i - 1) + L = j + L + i - 1
      BY <1>1, <2>3, <2>4
    <3> QED
      BY <1>3, <2>3, <3>1
  <2>6. j + l <= M + 1 /\ (j + l = M + 1 <=> j + L + l = N + 1)
    <3>1. j \in Nat /\ l \in Nat /\ L \in Nat /\ j + L + l <= N + 1
      BY <1>1, <2>3, <2>4
    <3> QED
      BY <3>1
  <2>7. j + l # M + 1 => U[j + l].at = 1 /\ U[j + l].packet = p + 1
    <3> SUFFICES ASSUME j + l # M + 1 PROVE U[j + l].at = 1 /\ U[j + l].packet = p + 1
      OBVIOUS
    <3>1. j + l \in 1..M /\ (j + l) + L = j + L + l
      BY <1>1, <2>4, <2>6
    <3> QED
      BY <1>3, <2>3, <2>6, <3>1
  <2>8. PacketAt(U, M, s, j, p)
    BY <2>3, <2>5, <2>6, <2>7 DEF PacketAt, l
  <2> QED
    BY <2>8 DEF p
<1>5. M = 0 => n + 1 = Len(s)
  BY <1>1, <1>2 DEF PacketAt
<1>6. M # 0 => U[1].at = 1 /\ U[1].packet = n + 1 + 1
  <2> SUFFICES ASSUME M # 0 PROVE U[1].at = 1 /\ U[1].packet = n + 1 + 1
    OBVIOUS
  <2>1. 1 \in 1..M /\ U[1] = T[1 + L] /\ 1 + L # N + 1
    BY <1>1, <1>3
  <2> QED
    BY <1>2, <2>1 DEF PacketAt
<1> QED
  BY <1>4, <1>5, <1>6 DEF FramedBy

----------------------------------------------------------------------------
(* The invariant, for as long as no take has met a move.                   *)
Framed == FramedBy(Way, Total, sent, Taken)

\* The packet being taken lies in the buffer, whole.
Held ==
    /\ taker.at # "idle" => worker.at # "rewind"
    /\ taker.at \in {"move", "handle"} =>
           LET n == Len(handled) + 1
           IN  /\ n <= Len(sent) /\ taker.size = Length[sent[n]]
               /\ taker.ptr + taker.size <= mPakcetDataBufferWPos
               /\ \A i \in 1..taker.size : mPakcetDataBuffer[taker.ptr + i - 1]
                                              = [packet |-> n, at |-> i, length |-> taker.size]
    /\ taker.at = "move" => taker.ptr = mPakcetDataBufferRPos

\* ReceivedUnits data lies behind the write position until that is moved.
Copied == worker.at = "advance" =>
    \A k \in 1..Len(worker.data) :
        mPakcetDataBuffer[mPakcetDataBufferWPos + k - 1] = worker.data[k]

HandledAsSent ==
    /\ Len(handled) <= Len(sent)
    /\ \A i \in 1..Len(handled) : handled[i] = Units(i, sent[i])

Flow == Base <= mPakcetDataBufferWPos /\ Framed /\ Held /\ Copied
FInv == STyped /\ HandledAsSent /\ (torn => Moving) /\ (~torn => Flow)

LEMMA Positions ==
    ASSUME STyped
    PROVE  /\ Base \in Nat /\ mPakcetDataBufferWPos \in Nat /\ mPakcetDataBufferRPos \in Nat
           /\ mPakcetDataBufferWPos <= BufferSize /\ BufferSize \in Nat
           /\ InWindow \in Int /\ (Base <= mPakcetDataBufferWPos => InWindow \in Nat)
           /\ Base + InWindow = mPakcetDataBufferWPos
           /\ InHand \in Seq(Unit) /\ Len(InHand) \in Nat
           /\ toServer \in Seq(Unit) /\ Len(toServer) \in Nat
           /\ Len(handled) \in Nat /\ Len(sent) \in Nat /\ Taken \in Nat
           /\ (Base <= mPakcetDataBufferWPos => Total \in Nat)
<1>1. Base \in Nat /\ mPakcetDataBufferWPos \in Nat /\ mPakcetDataBufferRPos \in Nat
      /\ mPakcetDataBufferWPos <= BufferSize /\ BufferSize \in Nat
  BY Sizes DEF STyped, WorkerTyped, TakerTyped, Base
<1>2. InHand \in Seq(Unit) /\ toServer \in Seq(Unit)
  BY EmptySeq DEF STyped, WorkerTyped, ClientTyped, Hand, InHand
<1>3. Len(InHand) \in Nat /\ Len(toServer) \in Nat
  BY <1>2, LenProperties
<1>4. Len(handled) \in Nat /\ Len(sent) \in Nat
  BY LenProperties DEF STyped, TakerTyped, ClientTyped
<1>5. Taken \in Nat
  BY <1>4 DEF Taken
<1>6. InWindow \in Int /\ (Base <= mPakcetDataBufferWPos => InWindow \in Nat)
      /\ Base + InWindow = mPakcetDataBufferWPos
  BY <1>1 DEF InWindow
<1>7. Base <= mPakcetDataBufferWPos => Total \in Nat
  BY <1>3, <1>6 DEF Total
<1> QED
  BY <1>1, <1>2, <1>3, <1>4, <1>5, <1>6, <1>7

\* The stream stays when its units do.
LEMMA SameStream ==
    ASSUME Framed, Total' = Total, \A j \in 1..Total : Way'[j] = Way[j],
           UNCHANGED sent, Taken' = Taken
    PROVE  Framed'
<1>1. Way = [j \in 1..Total |-> Way[j]]
  BY DEF Way
<1>2. Way' = [j \in 1..Total' |-> Way'[j]]
  BY DEF Way
<1>3. Way' = Way
  BY <1>1, <1>2
<1> QED
  BY <1>3 DEF Framed

LEMMA SamePlaces ==
    UNCHANGED <<mPakcetDataBuffer, mPakcetDataBufferWPos, mPakcetDataBufferRPos, worker, toServer>>
        => UNCHANGED <<Base, InWindow, InHand, Total, Way>>
BY DEF Base, InWindow, InHand, HasData, Total, Way

\* The client sends: the stream grows by one packet.
LEMMA SendDataFlow ==
    ASSUME STyped, HandledAsSent, NEW id \in Ids, SendData(id), UNCHANGED server
    PROVE  HandledAsSent' /\ (Flow => Flow')
<1>1. /\ Len(sent) \in Nat /\ sent \in Seq(Ids) /\ toServer \in Seq(Unit) /\ Len(toServer) \in Nat
      /\ Len(handled) \in Nat
  BY Positions DEF STyped, ClientTyped
<1>2. /\ Len(sent') = Len(sent) + 1 /\ sent' = Append(sent, id)
      /\ \A i \in 1..Len(sent) : sent'[i] = sent[i]
  BY <1>1, AppendProperties DEF SendData
<1>3. /\ Units(Len(sent) + 1, id) \in Seq(Unit) /\ Len(Units(Len(sent) + 1, id)) = Length[id]
      /\ \A i \in 1..Length[id] : Units(Len(sent) + 1, id)[i]
                                     = [packet |-> Len(sent) + 1, at |-> i, length |-> Length[id]]
      /\ Length[id] \in {2, 3}
  <2>1. Len(sent) + 1 \in Nat
    BY <1>1
  <2>2. Length[id] \in {2, 3}
    BY Lengths
  <2> QED
    BY <2>1, <2>2, UnitsOf
<1>4. HandledAsSent'
  <2>1. \A i \in 1..Len(handled) : i \in 1..Len(sent)
    BY <1>1 DEF HandledAsSent
  <2>2. handled' = handled
    BY DEF server
  <2>3. \A i \in 1..Len(handled) : handled[i] = Units(i, sent'[i])
    BY <1>2, <2>1 DEF HandledAsSent
  <2>4. Len(handled) <= Len(sent')
    BY <1>1, <1>2 DEF HandledAsSent
  <2> QED
    BY <2>2, <2>3, <2>4 DEF HandledAsSent
<1>5. ASSUME Flow PROVE Flow'
  <2> DEFINE L == Length[id]
             h == InWindow + Len(InHand)
             u == Units(Len(sent) + 1, id)
  <2>1. /\ InWindow \in Nat /\ Len(InHand) \in Nat /\ h \in Nat /\ Total \in Nat
        /\ Total = h + Len(toServer) /\ Taken \in Nat
    BY <1>5, Positions DEF Flow, Total
  <2>2. UNCHANGED <<Base, InWindow, InHand, Taken>>
    BY DEF server, Base, InWindow, InHand, HasData, Taken
  <2>3. /\ Len(toServer') = Len(toServer) + L
        /\ \A i \in 1..Len(toServer) + L :
               toServer'[i] = IF i <= Len(toServer) THEN toServer[i] ELSE u[i - Len(toServer)]
    <3>1. toServer' = toServer \o u
      BY DEF SendData
    <3> HIDE DEF u, L
    <3>2. u \in Seq(Unit) /\ Len(u) = L
      BY <1>3 DEF u, L
    <3> QED
      BY <1>1, <3>1, <3>2, ConcatProperties
  <2>4. Total' = Total + L
    BY <1>1, <1>3, <2>1, <2>2, <2>3 DEF Total
  <2> HIDE DEF L, u
  <2>5. L \in {2, 3} /\ \A i \in 1..L : u[i] = [packet |-> Len(sent) + 1, at |-> i, length |-> L]
    BY <1>3 DEF L, u
  <2>6. \A j \in 1..Total : Way'[j] = Way[j]
    <3> TAKE j \in 1..Total
    <3>1. j \in 1..Total'
      BY <2>1, <2>4, <2>5
    <3>2. CASE j <= h
      BY <2>1, <2>2, <3>1, <3>2 DEF Way, server
    <3>3. CASE j > h
      <4>1. /\ j - InWindow - Len(InHand) \in 1..Len(toServer) + L
            /\ j - InWindow - Len(InHand) <= Len(toServer)
        BY <1>1, <2>1, <2>5, <3>3
      <4>2. toServer'[j - InWindow - Len(InHand)] = toServer[j - InWindow - Len(InHand)]
        BY <2>3, <4>1
      <4>3. ~(j <= InWindow) /\ ~(j <= InWindow + Len(InHand))
        BY <2>1, <3>3
      <4> QED
        BY <2>2, <3>1, <4>2, <4>3 DEF Way
    <3> QED
      BY <2>1, <3>2, <3>3
  <2>7. \A i \in 1..L : Way'[Total + i] = [packet |-> Len(sent) + 1, at |-> i, length |-> L]
    <3> TAKE i \in 1..L
    <3> DEFINE j == Total + i
    <3>1. /\ j \in 1..Total' /\ ~(j <= InWindow) /\ ~(j <= InWindow + Len(InHand))
          /\ j - InWindow - Len(InHand) = Len(toServer) + i
      BY <1>1, <2>1, <2>4, <2>5
    <3>2. /\ Len(toServer) + i \in 1..Len(toServer) + L /\ ~(Len(toServer) + i <= Len(toServer))
          /\ (Len(toServer) + i) - Len(toServer) = i
      BY <1>1, <2>5
    <3>3. toServer'[Len(toServer) + i] = u[i]
      BY <2>3, <3>2
    <3> HIDE DEF j
    <3>4. Way'[j] = toServer'[Len(toServer) + i]
      BY <2>2, <3>1 DEF Way
    <3> QED
      BY <2>5, <3>3, <3>4 DEF j
  <2>8. Framed'
    <3>1. FramedBy(Way, Total, sent, Taken)
      BY <1>5 DEF Flow, Framed
    <3>2. FramedBy(Way', Total + Length[id], Append(sent, id), Taken)
      BY <1>1, <2>1, <2>6, <2>7, <3>1, PacketSent DEF L
    <3>3. Total' = Total + Length[id] /\ sent' = Append(sent, id) /\ Taken' = Taken
      BY <1>2, <2>2, <2>4 DEF L
    <3> QED
      BY <3>2, <3>3 DEF Framed
  <2>9. Held' /\ Copied'
    <3>1. taker.at \in {"move", "handle"} => Len(handled) + 1 \in 1..Len(sent)
      BY <1>1, <1>5 DEF Flow, Held
    <3> QED
      BY <1>1, <1>2, <1>5, <3>1 DEF Flow, Held, Copied, server
  <2>10. Base' <= mPakcetDataBufferWPos'
    BY <1>5, <2>2 DEF Flow, server
  <2> QED
    BY <2>8, <2>9, <2>10 DEF Flow
<1> QED
  BY <1>4, <1>5

----------------------------------------------------------------------------
(* The worker only carries the stream on.                                  *)
LEMMA ReceiveFlow ==
    ASSUME STyped, Flow, NEW n \in 1..Smaller(MaxReceive, Len(toServer)), Receive(n)
    PROVE  Flow'
<1>1. /\ worker.at = "idle" /\ worker'.at \in {"move", "copy"}
      /\ UNCHANGED <<sent, mPakcetDataBuffer, mPakcetDataBufferWPos, mPakcetDataBufferRPos,
                     taker, handled>>
  BY ReceivedUnits DEF Receive
<1>2. /\ n \in Nat \ {0} /\ n <= Len(toServer) /\ Len(toServer) \in Nat
      /\ Len(worker'.data) = n /\ \A i \in 1..n : worker'.data[i] = toServer[i]
      /\ Len(toServer') = Len(toServer) - n
      /\ \A i \in 1..Len(toServer) - n : toServer'[i] = toServer[n + i]
  BY ReceivedUnits
<1>3. InWindow \in Nat /\ Total \in Nat
  BY Positions DEF Flow
<1>4. InHand = << >> /\ Len(InHand) = 0 /\ InHand' = worker'.data
  BY <1>1, EmptySeq DEF InHand, HasData
<1>5. UNCHANGED <<Base, InWindow, Taken>>
  BY <1>1 DEF Base, InWindow, Taken
<1>6. Total = InWindow + Len(toServer) /\ Total' = Total
  <2>1. Len(InHand') = n
    BY <1>2, <1>4
  <2>2. /\ Total = InWindow + Len(InHand) + Len(toServer)
        /\ Total' = InWindow' + Len(InHand') + Len(toServer')
    BY DEF Total
  <2>3. Total = InWindow + 0 + Len(toServer) /\ Total' = InWindow + n + (Len(toServer) - n)
    BY <1>2, <1>4, <1>5, <2>1, <2>2
  <2> QED
    BY <1>2, <1>3, <2>3
<1>7. \A j \in 1..Total : Way'[j] = Way[j]
  <2> TAKE j \in 1..Total
  <2>1. j \in 1..Total'
    BY <1>6
  <2>2. Way[j] = IF j <= InWindow THEN mPakcetDataBuffer[Base + j - 1] ELSE toServer[j - InWindow]
    BY <1>3, <1>4 DEF Way
  <2>3. Way'[j] = IF j <= InWindow THEN mPakcetDataBuffer[Base + j - 1]
                  ELSE IF j <= InWindow + n THEN worker'.data[j - InWindow]
                  ELSE toServer'[j - InWindow - n]
    BY <1>1, <1>2, <1>4, <1>5, <2>1 DEF Way
  <2>4. CASE j <= InWindow
    BY <2>2, <2>3, <2>4
  <2>5. CASE j > InWindow /\ j <= InWindow + n
    <3>1. j - InWindow \in 1..n /\ ~(j <= InWindow)
      BY <1>2, <1>3, <2>5
    <3> QED
      BY <1>2, <2>2, <2>3, <2>5, <3>1
  <2>6. CASE j > InWindow + n
    <3>1. /\ j - InWindow - n \in 1..Len(toServer) - n /\ ~(j <= InWindow)
          /\ n + (j - InWindow - n) = j - InWindow /\ ~(j <= InWindow + n)
      BY <1>2, <1>3, <1>6, <2>6
    <3> QED
      BY <1>2, <2>2, <2>3, <3>1
  <2> QED
    BY <1>2, <1>3, <2>4, <2>5, <2>6
<1>8. Framed'
  BY <1>1, <1>5, <1>6, <1>7, SameStream DEF Flow
<1>9. Held' /\ Copied'
  BY <1>1 DEF Flow, Held, Copied
<1>10. Base' <= mPakcetDataBufferWPos'
  BY <1>1, <1>5 DEF Flow
<1> QED
  BY <1>8, <1>9, <1>10 DEF Flow

\* What a move changes, when it meets no take.
LEMMA Moved ==
    ASSUME STyped, Flow, Move
    PROVE  /\ worker.at = "move" /\ worker'.at = "rewind" /\ worker'.data = worker.data
           /\ torn' = (torn \/ taker.at # "idle")
           /\ Base' = 0 /\ InHand' = InHand /\ InWindow \in Nat /\ InWindow' = InWindow
           /\ Base' <= mPakcetDataBufferWPos'
           /\ \A i \in 1..InWindow :
                  mPakcetDataBuffer'[Base' + i - 1] = mPakcetDataBuffer[Base + i - 1]
<1> DEFINE r == mPakcetDataBufferRPos
           w == mPakcetDataBufferWPos
<1>1. /\ worker.at = "move" /\ worker'.at = "rewind" /\ worker'.data = worker.data
      /\ torn' = (torn \/ taker.at # "idle")
      /\ mPakcetDataBufferWPos' = IF w - r > 0 THEN w - r ELSE 0
      /\ mPakcetDataBuffer' = [i \in 0..BufferSize - 1 |->
                                  mPakcetDataBuffer[IF i < w - r THEN r + i ELSE i]]
  BY DEF Move, WorkerGoes, STyped, WorkerTyped, Hand
<1>2. Base = r /\ Base' = 0 /\ InHand' = InHand
  BY <1>1 DEF Base, InHand, HasData
<1>3. r \in Nat /\ w \in Nat /\ r <= w /\ w <= BufferSize /\ BufferSize \in Nat /\ InWindow \in Nat
  BY <1>2, Positions DEF Flow
<1> HIDE DEF r, w
<1>4. mPakcetDataBufferWPos' = w - r /\ 0 <= w - r
  BY <1>1, <1>3
<1>5. InWindow = w - r /\ InWindow' = w - r
  BY <1>2, <1>3, <1>4 DEF InWindow, w
<1>6. \A i \in 1..w - r : mPakcetDataBuffer'[0 + i - 1] = mPakcetDataBuffer[r + i - 1]
  <2> TAKE i \in 1..w - r
  <2>1. 0 + i - 1 \in 0..BufferSize - 1 /\ 0 + i - 1 < w - r /\ r + (0 + i - 1) = r + i - 1
    BY <1>3
  <2> QED
    BY <1>1, <2>1
<1> QED
  BY <1>1, <1>2, <1>3, <1>4, <1>5, <1>6

LEMMA MoveFlow == ASSUME STyped, Flow, Move PROVE Moving' /\ (~torn' => Flow')
<1>1. /\ worker'.at = "rewind" /\ torn' = (torn \/ taker.at # "idle")
      /\ Base' = 0 /\ InHand' = InHand /\ InWindow \in Nat /\ InWindow' = InWindow
      /\ Base' <= mPakcetDataBufferWPos'
      /\ \A i \in 1..InWindow :
             mPakcetDataBuffer'[Base' + i - 1] = mPakcetDataBuffer[Base + i - 1]
  BY Moved
<1>2. UNCHANGED <<sent, toServer, taker, handled>>
  BY DEF Move
<1>3. Moving'
  BY <1>1 DEF Moving
<1> SUFFICES ASSUME ~torn' PROVE Flow'
  BY <1>3
<1>4. Total' = Total /\ Taken' = Taken /\ Total \in Nat
  BY <1>1, <1>2, Positions DEF Flow, Total, Taken
<1>5. \A j \in 1..Total : Way'[j] = Way[j]
  <2> TAKE j \in 1..Total
  <2>1. CASE j <= InWindow
    <3>1. j \in 1..InWindow
      BY <1>1, <1>4, <2>1
    <3>2. Way[j] = mPakcetDataBuffer[Base + j - 1] /\ Way'[j] = mPakcetDataBuffer'[Base' + j - 1]
      BY <1>1, <1>4, <2>1 DEF Way
    <3> QED
      BY <1>1, <3>1, <3>2
  <2>2. CASE ~(j <= InWindow)
    BY <1>1, <1>2, <1>4, <2>2 DEF Way
  <2> QED
    BY <2>1, <2>2
<1>6. Framed'
  BY <1>2, <1>4, <1>5, SameStream DEF Flow
<1>7. Held' /\ Copied'
  BY <1>1, <1>2 DEF Held, Copied
<1> QED
  BY <1>1, <1>6, <1>7 DEF Flow

LEMMA RewindFlow == ASSUME STyped, Flow, Rewind PROVE Flow'
<1>1. /\ worker.at = "rewind" /\ worker'.at = "copy" /\ worker'.data = worker.data
      /\ mPakcetDataBufferRPos' = 0
      /\ UNCHANGED <<sent, toServer, mPakcetDataBuffer, mPakcetDataBufferWPos, taker, handled>>
  BY DEF Rewind, WorkerGoes, STyped, WorkerTyped, Hand
<1>2. Base = 0 /\ Base' = 0 /\ InHand' = InHand /\ InWindow' = InWindow /\ Taken' = Taken
  BY <1>1 DEF Base, InHand, HasData, InWindow, Taken
<1>3. Total' = Total
  BY <1>1, <1>2 DEF Total
<1>4. Way' = Way
  BY <1>1, <1>2, <1>3 DEF Way
<1>5. Framed'
  BY <1>1, <1>2, <1>3, <1>4 DEF Flow, Framed
<1>6. taker.at = "idle"
  BY <1>1 DEF Flow, Held
<1> QED
  BY <1>1, <1>2, <1>5, <1>6 DEF Flow, Held, Copied

LEMMA CopyFlow == ASSUME STyped, Flow, Copy PROVE Flow'
<1>1. /\ worker.at = "copy" /\ worker'.at = "advance" /\ worker'.data = worker.data
      /\ UNCHANGED <<sent, toServer, mPakcetDataBufferWPos, mPakcetDataBufferRPos, taker, handled>>
  BY DEF Copy, WorkerGoes, STyped, WorkerTyped, Hand
<1>2. Base' = Base /\ InHand' = InHand /\ InWindow' = InWindow /\ Taken' = Taken
  BY <1>1 DEF Base, InHand, HasData, InWindow, Taken
<1>3. /\ \A i \in 0..mPakcetDataBufferWPos - 1 : mPakcetDataBuffer'[i] = mPakcetDataBuffer[i]
      /\ \A k \in 1..Len(worker.data) :
             mPakcetDataBuffer'[mPakcetDataBufferWPos + k - 1] = worker.data[k]
  BY Written
<1>4. /\ Base \in Nat /\ InWindow \in Nat /\ Base + InWindow = mPakcetDataBufferWPos /\ Total \in Nat
      /\ Base <= mPakcetDataBufferWPos /\ mPakcetDataBufferWPos \in Nat
  BY Positions DEF Flow
<1>5. Total' = Total
  BY <1>1, <1>2 DEF Total
<1>6. \A j \in 1..Total : Way'[j] = Way[j]
  <2> TAKE j \in 1..Total
  <2>1. CASE j <= InWindow
    <3>1. Base + j - 1 \in 0..mPakcetDataBufferWPos - 1
      BY <1>4, <2>1
    <3> QED
      BY <1>2, <1>3, <1>5, <2>1, <3>1 DEF Way
  <2>2. CASE ~(j <= InWindow)
    BY <1>1, <1>2, <1>5, <2>2 DEF Way
  <2> QED
    BY <2>1, <2>2
<1>7. Framed'
  BY <1>1, <1>2, <1>5, <1>6, SameStream DEF Flow
<1>8. Held'
  <2>1. taker.at \in {"move", "handle"} =>
            \A i \in 1..taker.size : taker.ptr + i - 1 \in 0..mPakcetDataBufferWPos - 1
    <3>1. taker.ptr \in Nat /\ taker.size \in Nat
      BY DEF STyped, TakerTyped, Take
    <3>2. taker.at \in {"move", "handle"} => taker.ptr + taker.size <= mPakcetDataBufferWPos
      BY DEF Flow, Held
    <3> QED
      BY <1>4, <3>1, <3>2
  <2>2. taker.at \in {"move", "handle"} =>
            \A i \in 1..taker.size : mPakcetDataBuffer'[taker.ptr + i - 1]
                                     = mPakcetDataBuffer[taker.ptr + i - 1]
    BY <1>3, <2>1
  <2> QED
    BY <1>1, <2>2 DEF Flow, Held
<1>9. Copied'
  BY <1>1, <1>3 DEF Copied
<1> QED
  BY <1>1, <1>2, <1>4, <1>7, <1>8, <1>9 DEF Flow

LEMMA AdvanceFlow == ASSUME STyped, Flow, Advance PROVE Flow'
<1> DEFINE d == worker.data
<1>1. /\ worker.at = "advance" /\ worker'.at = "queue"
      /\ mPakcetDataBufferWPos' = mPakcetDataBufferWPos + Len(d)
      /\ UNCHANGED <<sent, toServer, mPakcetDataBuffer, mPakcetDataBufferRPos, taker, handled>>
  BY DEF Advance, WorkerGoes, STyped, WorkerTyped, Hand
<1>2. Base' = Base /\ Base = mPakcetDataBufferRPos /\ InHand = d /\ Taken' = Taken
  BY <1>1 DEF Base, InHand, HasData, Taken
<1>3. InHand' = << >> /\ Len(InHand') = 0
  BY <1>1, EmptySeq DEF InHand, HasData
<1>4. /\ Base \in Nat /\ InWindow \in Nat /\ Base + InWindow = mPakcetDataBufferWPos /\ Total \in Nat
      /\ Base <= mPakcetDataBufferWPos /\ mPakcetDataBufferWPos \in Nat /\ Len(d) \in Nat
      /\ Len(toServer) \in Nat
  BY <1>2, Positions DEF Flow
<1>5. \A k \in 1..Len(d) : mPakcetDataBuffer[mPakcetDataBufferWPos + k - 1] = d[k]
  BY <1>1 DEF Flow, Copied
<1> HIDE DEF d
<1>6. InWindow' = InWindow + Len(d)
  BY <1>1, <1>2, <1>4 DEF InWindow
<1>7. Total = InWindow + Len(d) + Len(toServer) /\ Total' = Total
  BY <1>1, <1>2, <1>3, <1>4, <1>6 DEF Total
<1>8. \A j \in 1..Total : Way'[j] = Way[j]
  <2> TAKE j \in 1..Total
  <2>1. Way[j] = IF j <= InWindow THEN mPakcetDataBuffer[Base + j - 1]
                 ELSE IF j <= InWindow + Len(d) THEN d[j - InWindow]
                 ELSE toServer[j - InWindow - Len(d)]
    BY <1>2 DEF Way
  <2>2. Way'[j] = IF j <= InWindow + Len(d) THEN mPakcetDataBuffer[Base + j - 1]
                  ELSE toServer[j - (InWindow + Len(d)) - 0]
    BY <1>1, <1>2, <1>3, <1>4, <1>6, <1>7 DEF Way
  <2>3. CASE j <= InWindow
    <3>1. j <= InWindow + Len(d)
      BY <1>4, <2>3
    <3> QED
      BY <2>1, <2>2, <2>3, <3>1
  <2>4. CASE ~(j <= InWindow) /\ j <= InWindow + Len(d)
    <3>1. j - InWindow \in 1..Len(d) /\ mPakcetDataBufferWPos + (j - InWindow) - 1 = Base + j - 1
      BY <1>4, <2>4
    <3>2. mPakcetDataBuffer[Base + j - 1] = d[j - InWindow]
      BY <1>5, <3>1
    <3> QED
      BY <2>1, <2>2, <2>4, <3>2
  <2>5. CASE ~(j <= InWindow + Len(d))
    <3>1. ~(j <= InWindow) /\ j - (InWindow + Len(d)) - 0 = j - InWindow - Len(d)
      BY <1>4, <2>5
    <3> QED
      BY <2>1, <2>2, <2>5, <3>1
  <2> QED
    BY <2>3, <2>4, <2>5
<1>9. Framed'
  BY <1>1, <1>2, <1>7, <1>8, SameStream DEF Flow
<1>10. Copied'
  BY <1>1 DEF Copied
<1>11. Held'
  <2>1. taker.at \in {"move", "handle"} => taker.ptr + taker.size <= mPakcetDataBufferWPos'
    <3>1. taker.ptr \in Nat /\ taker.size \in Nat
      BY DEF STyped, TakerTyped, Take
    <3>2. taker.at \in {"move", "handle"} => taker.ptr + taker.size <= mPakcetDataBufferWPos
      BY DEF Flow, Held
    <3> QED
      BY <1>1, <1>4, <3>1, <3>2
  <2> QED
    BY <1>1, <2>1 DEF Flow, Held
<1>12. Base' <= mPakcetDataBufferWPos'
  BY <1>1, <1>2, <1>4
<1> QED
  BY <1>9, <1>10, <1>11, <1>12 DEF Flow

LEMMA EnqueueFlow == ASSUME STyped, Flow, EnqueuePacketData PROVE Flow'
<1>1. /\ worker.at = "queue" /\ worker'.at = "idle"
      /\ UNCHANGED <<sent, toServer, mPakcetDataBuffer, mPakcetDataBufferWPos,
                     mPakcetDataBufferRPos, taker, handled>>
  BY DEF EnqueuePacketData
<1>2. UNCHANGED <<Base, InWindow, InHand, Taken>>
  BY <1>1 DEF Base, InWindow, InHand, HasData, Taken
<1>3. UNCHANGED <<Total, Way>>
  BY <1>1, <1>2 DEF Total, Way
<1> QED
  BY <1>1, <1>2, <1>3 DEF Flow, Framed, Held, Copied

----------------------------------------------------------------------------
(* The packet thread takes the first packet out of it.                     *)
LEMMA DequeueFlow == ASSUME STyped, Flow, Dequeue PROVE (torn' => torn \/ Moving') /\ (~torn' => Flow')
<1>1. /\ taker.at = "idle" /\ taker'.at = "take" /\ torn' = (torn \/ worker.at = "rewind")
      /\ UNCHANGED <<sent, toServer, mPakcetDataBuffer, mPakcetDataBufferWPos,
                     mPakcetDataBufferRPos, worker, handled>>
  BY DEF Dequeue, STyped, TakerTyped, Take
<1>2. UNCHANGED <<Base, InWindow, InHand, Total, Way>>
  BY <1>1, SamePlaces
<1>3. Taken' = Taken
  BY <1>1 DEF Taken
<1>4. ~torn' => Held'
  BY <1>1 DEF Held
<1>5. torn' => torn \/ Moving'
  BY <1>1 DEF Moving
<1> QED
  BY <1>1, <1>2, <1>3, <1>4, <1>5 DEF Flow, Framed, Copied

\* The unread part of the buffer, seen by the packet thread.
LEMMA Front ==
    ASSUME STyped, Flow, taker.at \in {"take", "move"}, InWindow > 0
    PROVE  LET n == Len(handled) + 1
               l == Length[sent[n]]
           IN  /\ Base = mPakcetDataBufferRPos /\ Taken = Len(handled) /\ Total \in Nat \ {0}
               /\ n \in 1..Len(sent) /\ l \in {2, 3} /\ l <= Total
               /\ \A i \in 1..l : Way[i] = [packet |-> n, at |-> i, length |-> l]
               /\ \A i \in 1..InWindow : Way[i] = mPakcetDataBuffer[mPakcetDataBufferRPos + i - 1]
               /\ mPakcetDataBuffer[mPakcetDataBufferRPos].length = l
<1> DEFINE n == Len(handled) + 1
           l == Length[sent[n]]
<1>1. Base = mPakcetDataBufferRPos
  BY DEF Flow, Held, Base
<1>2. Taken = Len(handled)
  BY Positions DEF Taken
<1>3. Total \in Nat \ {0} /\ InWindow \in Nat /\ Taken \in Nat
      /\ InWindow <= Total /\ mPakcetDataBufferRPos \in Nat
  <2>1. Total \in Nat /\ InWindow \in Nat /\ Len(InHand) \in Nat /\ Len(toServer) \in Nat
        /\ Taken \in Nat /\ mPakcetDataBufferRPos \in Nat
    BY Positions DEF Flow
  <2>2. Total = InWindow + Len(InHand) + Len(toServer)
    BY DEF Total
  <2> QED
    BY <2>1, <2>2
<1>4. FramedBy(Way, Total, sent, Taken) /\ sent \in Seq(Ids)
  BY DEF Flow, Framed, STyped, ClientTyped
<1>5. /\ Taken + 1 \in 1..Len(sent) /\ Way[1].length = Length[sent[Taken + 1]]
      /\ Length[sent[Taken + 1]] \in {2, 3} /\ Length[sent[Taken + 1]] <= Total
      /\ \A i \in 1..Length[sent[Taken + 1]] :
             Way[i] = [packet |-> Taken + 1, at |-> i, length |-> Length[sent[Taken + 1]]]
  <2> HIDE DEF n, l
  <2> DEFINE T == Way
             N == Total
             k == Taken
  <2>1. N \in Nat \ {0} /\ k \in Nat /\ FramedBy(T, N, sent, k)
    BY <1>3, <1>4
  <2> HIDE DEF T, N, k
  <2>2. /\ k + 1 \in 1..Len(sent) /\ T[1].length = Length[sent[k + 1]]
        /\ Length[sent[k + 1]] \in {2, 3} /\ Length[sent[k + 1]] <= N
        /\ \A i \in 1..Length[sent[k + 1]] :
               T[i] = [packet |-> k + 1, at |-> i, length |-> Length[sent[k + 1]]]
    BY <1>4, <2>1, FirstPacket
  <2> QED
    BY <2>2 DEF T, N, k
<1>6. /\ n \in 1..Len(sent) /\ Way[1].length = l /\ l \in {2, 3} /\ l <= Total
      /\ \A i \in 1..l : Way[i] = [packet |-> n, at |-> i, length |-> l]
  BY <1>2, <1>5
<1>7. \A i \in 1..InWindow : Way[i] = mPakcetDataBuffer[mPakcetDataBufferRPos + i - 1]
  <2> TAKE i \in 1..InWindow
  <2>1. i \in 1..Total /\ i <= InWindow
    BY <1>3
  <2> QED
    BY <1>1, <2>1 DEF Way
<1>8. mPakcetDataBuffer[mPakcetDataBufferRPos].length = l
  <2>1. 1 \in 1..InWindow /\ mPakcetDataBufferRPos + 1 - 1 = mPakcetDataBufferRPos
    BY <1>3
  <2>2. Way[1] = mPakcetDataBuffer[mPakcetDataBufferRPos]
    BY <1>7, <2>1
  <2> QED
    BY <1>6, <2>2
<1> QED
  BY <1>1, <1>2, <1>3, <1>6, <1>7, <1>8

LEMMA GetPacketFlow == ASSUME STyped, Flow, GetPacket PROVE Flow'
<1> DEFINE r == mPakcetDataBufferRPos
           w == mPakcetDataBufferWPos
           m == mPakcetDataBuffer[r].length
           n == Len(handled) + 1
           l == Length[sent[n]]
<1>1. /\ taker.at = "take"
      /\ UNCHANGED <<sent, toServer, mPakcetDataBuffer, mPakcetDataBufferWPos,
                     mPakcetDataBufferRPos, worker, handled>>
  BY DEF GetPacket
<1>2. UNCHANGED <<Base, InWindow, InHand, Total, Way>>
  BY <1>1, SamePlaces
<1>3. Held' /\ taker'.at # "handle"
  <2>1. CASE taker' = [taker EXCEPT !.at = "idle"]
    <3>1. taker'.at = "idle"
      BY <2>1 DEF STyped, TakerTyped, Take
    <3> QED
      BY <3>1 DEF Held
  <2>2. CASE w - r >= 1 /\ m <= w - r /\ taker' = [at |-> "move", ptr |-> r, size |-> m]
    <3>1. worker.at # "rewind" /\ Base = r
      BY <1>1 DEF Flow, Held, Base
    <3>2. r \in Nat /\ w \in Nat /\ InWindow = w - r /\ InWindow \in Nat
      BY <3>1, Positions DEF Flow, InWindow
    <3>3. InWindow > 0
      BY <2>2, <3>2
    <3>4. /\ n \in 1..Len(sent) /\ l \in {2, 3} /\ m = l
          /\ \A i \in 1..l : Way[i] = [packet |-> n, at |-> i, length |-> l]
          /\ \A i \in 1..InWindow : Way[i] = mPakcetDataBuffer[r + i - 1]
      BY <1>1, <3>3, Front
    <3>5. taker'.at = "move" /\ taker'.ptr = r /\ taker'.size = m
      BY <2>2
    <3> HIDE DEF r, w, m, l, n
    <3>6. l <= w - r /\ r + l <= w /\ \A i \in 1..l : i \in 1..InWindow
      BY <2>2, <3>2, <3>4
    <3>7. \A i \in 1..l : mPakcetDataBuffer[r + i - 1] = [packet |-> n, at |-> i, length |-> l]
      BY <3>4, <3>6
    <3>8. n <= Len(sent)
      BY <3>4
    <3> QED
      BY <1>1, <3>1, <3>4, <3>5, <3>6, <3>7, <3>8 DEF Held, n, l, r, w
  <2> QED
    BY <2>1, <2>2, TakeOrNot
<1>4. Taken' = Taken
  BY <1>1, <1>3 DEF Taken
<1> QED
  BY <1>1, <1>2, <1>3, <1>4 DEF Flow, Framed, Copied

\* What MoveReadPos takes away is the first packet.
LEMMA ReadOn ==
    ASSUME STyped, Flow, MoveReadPos
    PROVE  LET n == Len(handled) + 1
               l == Length[sent[n]]
           IN  /\ taker.at = "move" /\ taker'.at = "handle" /\ taker'.ptr = taker.ptr
               /\ taker'.size = taker.size
               /\ l \in {2, 3} /\ l <= InWindow /\ InWindow \in Nat /\ Total \in Nat /\ InWindow <= Total
               /\ InWindow' = InWindow - l /\ Total' = Total - l /\ Taken' = Taken + 1 /\ Taken + 1 = n
               /\ \A j \in 1..Total - l : Way'[j] = Way[j + l]
               /\ Base' <= mPakcetDataBufferWPos /\ taker.size = l
<1> DEFINE n == Len(handled) + 1
           l == Length[sent[n]]
<1>1. /\ taker.at = "move" /\ taker'.at = "handle" /\ taker'.ptr = taker.ptr /\ taker'.size = taker.size
      /\ mPakcetDataBufferRPos' = mPakcetDataBufferRPos + taker.size
      /\ UNCHANGED <<sent, toServer, mPakcetDataBuffer, mPakcetDataBufferWPos, worker, handled>>
      /\ taker.size \in Nat
  BY DEF MoveReadPos, STyped, TakerTyped, Take
<1>2. /\ worker.at # "rewind" /\ taker.size = l /\ n <= Len(sent)
      /\ taker.ptr + taker.size <= mPakcetDataBufferWPos /\ taker.ptr = mPakcetDataBufferRPos
  BY <1>1 DEF Flow, Held
<1>3. /\ mPakcetDataBufferRPos \in Nat /\ mPakcetDataBufferWPos \in Nat /\ InWindow \in Nat
      /\ Len(InHand) \in Nat /\ Len(toServer) \in Nat /\ Len(handled) \in Nat /\ Total \in Nat
  BY Positions DEF Flow
<1>4. Base = mPakcetDataBufferRPos /\ Base' = mPakcetDataBufferRPos + l /\ InHand' = InHand
  BY <1>1, <1>2 DEF Base, InHand, HasData
<1>5. l \in {2, 3}
  <2>1. sent[n] \in Ids
    BY <1>2, <1>3, ElementOfSeq DEF STyped, ClientTyped
  <2> QED
    BY <2>1, Lengths
<1>6. Taken = Len(handled) /\ Taken' = Len(handled) + 1
  BY <1>1, <1>3 DEF Taken
<1> HIDE DEF l
<1>7. InWindow = mPakcetDataBufferWPos - mPakcetDataBufferRPos
      /\ InWindow' = mPakcetDataBufferWPos - (mPakcetDataBufferRPos + l)
  BY <1>1, <1>4 DEF InWindow
<1>8. l <= InWindow /\ InWindow' = InWindow - l /\ InWindow <= Total /\ Base' <= mPakcetDataBufferWPos
  <2>1. Total = InWindow + Len(InHand) + Len(toServer)
    BY DEF Total
  <2> QED
    BY <1>2, <1>3, <1>4, <1>5, <1>7, <2>1
<1>9. Total' = Total - l
  BY <1>1, <1>3, <1>4, <1>5, <1>8 DEF Total
<1>10. \A j \in 1..Total - l : Way'[j] = Way[j + l]
  <2> TAKE j \in 1..Total - l
  <2>1. j \in 1..Total' /\ j + l \in 1..Total
    BY <1>3, <1>5, <1>9
  <2>2. Way[j + l] = IF j + l <= InWindow THEN mPakcetDataBuffer[mPakcetDataBufferRPos + (j + l) - 1]
                     ELSE IF j + l <= InWindow + Len(InHand) THEN InHand[(j + l) - InWindow]
                     ELSE toServer[(j + l) - InWindow - Len(InHand)]
    BY <1>4, <2>1 DEF Way
  <2>3. Way'[j] = IF j <= InWindow - l THEN mPakcetDataBuffer[(mPakcetDataBufferRPos + l) + j - 1]
                  ELSE IF j <= (InWindow - l) + Len(InHand) THEN InHand[j - (InWindow - l)]
                  ELSE toServer[j - (InWindow - l) - Len(InHand)]
    BY <1>1, <1>4, <1>8, <2>1 DEF Way
  <2>4. /\ j <= InWindow - l <=> j + l <= InWindow
        /\ j <= (InWindow - l) + Len(InHand) <=> j + l <= InWindow + Len(InHand)
        /\ (mPakcetDataBufferRPos + l) + j - 1 = mPakcetDataBufferRPos + (j + l) - 1
        /\ j - (InWindow - l) = (j + l) - InWindow
        /\ j - (InWindow - l) - Len(InHand) = (j + l) - InWindow - Len(InHand)
    BY <1>3, <1>5
  <2> QED
    BY <2>2, <2>3, <2>4
<1> QED
  BY <1>1, <1>2, <1>3, <1>5, <1>6, <1>8, <1>9, <1>10 DEF l

LEMMA MoveReadPosFlow == ASSUME STyped, Flow, MoveReadPos PROVE Flow'
<1> DEFINE n == Len(handled) + 1
           l == Length[sent[n]]
<1>1. /\ taker.at = "move" /\ taker'.at = "handle" /\ taker'.ptr = taker.ptr
      /\ taker'.size = taker.size
      /\ l \in {2, 3} /\ l <= InWindow /\ InWindow \in Nat /\ Total \in Nat /\ InWindow <= Total
      /\ Total' = Total - l /\ Taken' = Taken + 1 /\ Taken + 1 = n
      /\ \A j \in 1..Total - l : Way'[j] = Way[j + l]
      /\ Base' <= mPakcetDataBufferWPos
  BY ReadOn
<1>2. UNCHANGED <<sent, mPakcetDataBuffer, mPakcetDataBufferWPos, worker, handled>>
  BY DEF MoveReadPos
<1>3. Total # 0 /\ Taken \in Nat /\ sent \in Seq(Ids)
  BY <1>1, Positions DEF STyped, ClientTyped
<1>4. FramedBy(Way, Total, sent, Taken)
  BY DEF Flow, Framed
<1>5. FramedBy(Way', Total - l, sent, Taken + 1)
  <2> HIDE DEF n, l
  <2> DEFINE T == Way
             U == Way'
             N == Total
             k == Taken
  <2>1. l = Length[sent[k + 1]]
    BY <1>1 DEF n, l
  <2>2. N \in Nat \ {0} /\ k \in Nat /\ FramedBy(T, N, sent, k)
        /\ \A j \in 1..N - l : U[j] = T[j + l]
    BY <1>1, <1>3, <1>4
  <2> HIDE DEF T, U, N, k
  <2>3. FramedBy(U, N - l, sent, k + 1)
    BY <1>3, <2>1, <2>2, PacketTaken
  <2> QED
    BY <2>3 DEF T, U, N, k
<1>6. Framed'
  BY <1>1, <1>2, <1>5 DEF Framed
<1>7. Held' /\ Copied'
  BY <1>1, <1>2 DEF Flow, Held, Copied
<1> QED
  BY <1>1, <1>2, <1>6, <1>7 DEF Flow

LEMMA ProcessFlow ==
    ASSUME STyped, HandledAsSent, Flow, NEW result \in Results, ProcessRecvPacket(result)
    PROVE  HandledAsSent' /\ Flow'
<1> DEFINE n == Len(handled) + 1
           data == [i \in 1..taker.size |-> mPakcetDataBuffer[taker.ptr + i - 1]]
<1>1. /\ taker.at = "handle" /\ taker'.at = "idle" /\ handled' = Append(handled, data)
      /\ UNCHANGED <<sent, toServer, mPakcetDataBuffer, mPakcetDataBufferWPos,
                     mPakcetDataBufferRPos, worker>>
  BY DEF ProcessRecvPacket, STyped, TakerTyped, Take
<1>2. /\ n <= Len(sent) /\ taker.size = Length[sent[n]]
      /\ \A i \in 1..taker.size : mPakcetDataBuffer[taker.ptr + i - 1]
                                   = [packet |-> n, at |-> i, length |-> taker.size]
  BY <1>1 DEF Flow, Held
<1>3. data = Units(n, sent[n])
  BY <1>2 DEF Units
<1>4. Len(handled) \in Nat /\ n \in 1..Len(sent) /\ handled \in Seq(Seq(Unit))
  BY <1>2, Positions DEF STyped, TakerTyped
<1>5. data \in Seq(Unit)
  <2>1. sent[n] \in Ids
    BY <1>4, ElementOfSeq DEF STyped, ClientTyped
  <2>2. n \in Nat
    BY <1>4
  <2> HIDE DEF n
  <2> QED
    BY <1>3, <2>1, <2>2, UnitsOf
<1> HIDE DEF data
<1>6. /\ Len(handled') = Len(handled) + 1
      /\ \A i \in 1..Len(handled) : handled'[i] = handled[i]
      /\ handled'[Len(handled) + 1] = data
  BY <1>1, <1>4, <1>5, AppendProperties
<1>7. HandledAsSent'
  <2>1. \A i \in 1..Len(handled') : i \in 1..Len(handled) \/ i = n
    BY <1>4, <1>6
  <2>2. \A i \in 1..Len(handled') : handled'[i] = Units(i, sent[i])
    BY <1>3, <1>6, <2>1 DEF HandledAsSent
  <2> QED
    BY <1>1, <1>2, <1>6, <2>2 DEF HandledAsSent
<1>8. UNCHANGED <<Base, InWindow, InHand, Total, Way>>
  BY <1>1, SamePlaces
<1>9. Taken' = Taken
  BY <1>1, <1>4, <1>6 DEF Taken
<1>10. Held' /\ Copied'
  BY <1>1 DEF Flow, Held, Copied
<1> QED
  BY <1>1, <1>7, <1>8, <1>9, <1>10 DEF Flow, Framed

LEMMA StepFlow == ASSUME FInv, [StreamNext]_streamVars PROVE FInv'
<1>1. STyped' /\ STyped /\ HandledAsSent
  BY NextTyped DEF FInv
<1>2. CASE UNCHANGED streamVars
  <2>1. UNCHANGED <<sent, toServer, mPakcetDataBuffer, mPakcetDataBufferWPos, mPakcetDataBufferRPos,
                    worker, taker, handled, torn>>
    BY <1>2 DEF streamVars, server
  <2>2. UNCHANGED <<Base, InWindow, InHand, Total, Way>>
    BY <2>1, SamePlaces
  <2> QED
    BY <1>1, <2>1, <2>2
       DEF FInv, Flow, Framed, Held, Copied, HandledAsSent, Moving, Taken
<1>3. CASE StreamNext
  <2>1. ~torn /\ Flow /\ Step
    BY <1>3 DEF StreamNext, FInv
  <2> SUFFICES HandledAsSent' /\ (torn' => Moving') /\ (~torn' => Flow')
    BY <1>1 DEF FInv
  <2>2. CASE UNCHANGED <<sent, handled>> /\ torn' = torn /\ Flow'
    BY <1>1, <2>1, <2>2 DEF HandledAsSent
  <2>3. CASE SendLoginPacket
    <3>1. "LOGIN_REQUEST" \in Ids
      BY Lengths
    <3> QED
      BY <1>1, <2>1, <2>3, <3>1, SendDataFlow DEF SendLoginPacket, server
  <2>4. CASE \E n \in 1..Len(back) : Run(n)
    <3>1. UNCHANGED server
      BY <2>4 DEF Run
    <3>2. UNCHANGED <<sent, toServer>> \/ SendData("CHARACTER_INFO_REQUEST")
      BY <2>4 DEF Run
    <3>3. CASE UNCHANGED <<sent, toServer>>
      <4>1. UNCHANGED <<Base, InWindow, InHand, Total, Way>>
        BY <3>1, <3>3, SamePlaces DEF server
      <4> QED
        BY <2>1, <2>2, <3>1, <3>3, <4>1 DEF Flow, Framed, Held, Copied, Taken, server
    <3>4. CASE SendData("CHARACTER_INFO_REQUEST")
      <4>1. "CHARACTER_INFO_REQUEST" \in Ids
        BY Lengths
      <4> QED
        BY <1>1, <2>1, <3>1, <3>4, <4>1, SendDataFlow DEF server
    <3> QED
      BY <3>2, <3>3, <3>4
  <2>5. CASE \E n \in 1..Smaller(MaxReceive, Len(toServer)) : Receive(n)
    BY <1>1, <2>1, <2>2, <2>5, ReceiveFlow DEF Receive
  <2>6. CASE Move
    <3>1. UNCHANGED <<sent, handled>>
      BY <2>6 DEF Move
    <3> QED
      BY <1>1, <2>1, <2>6, <3>1, MoveFlow DEF HandledAsSent
  <2>7. CASE Rewind \/ Copy \/ Advance \/ EnqueuePacketData
    <3>1. UNCHANGED <<sent, handled>> /\ torn' = torn
      BY <2>7 DEF Rewind, Copy, Advance, EnqueuePacketData
    <3> QED
      BY <1>1, <2>1, <2>2, <2>7, <3>1, RewindFlow, CopyFlow, AdvanceFlow, EnqueueFlow
  <2>8. CASE Dequeue
    <3>1. UNCHANGED <<sent, handled>>
      BY <2>8 DEF Dequeue
    <3> QED
      BY <1>1, <2>1, <2>8, <3>1, DequeueFlow DEF HandledAsSent
  <2>9. CASE GetPacket \/ MoveReadPos
    <3>1. UNCHANGED <<sent, handled>> /\ torn' = torn
      BY <2>9 DEF GetPacket, MoveReadPos
    <3> QED
      BY <1>1, <2>1, <2>2, <2>9, <3>1, GetPacketFlow, MoveReadPosFlow
  <2>10. CASE \E result \in Results : ProcessRecvPacket(result)
    BY <1>1, <2>1, <2>10, ProcessFlow DEF ProcessRecvPacket
  <2> QED
    BY <2>1, <2>3, <2>4, <2>5, <2>6, <2>7, <2>8, <2>9, <2>10 DEF Step
<1> QED
  BY <1>2, <1>3

LEMMA InitFlow == StreamInit => FInv
<1> SUFFICES ASSUME StreamInit PROVE FInv
  OBVIOUS
<1>1. Base = 0 /\ InWindow = 0 /\ InHand = << >> /\ Taken = 0
  BY EmptySeq DEF StreamInit, Base, InWindow, InHand, HasData, Taken
<1>2. Total = 0 /\ sent = << >>
  BY <1>1, EmptySeq DEF StreamInit, Total
<1>3. Framed
  BY <1>1, <1>2, EmptySeq DEF Framed, FramedBy
<1>4. Held /\ Copied /\ HandledAsSent /\ Base <= mPakcetDataBufferWPos
  BY <1>1, EmptySeq DEF StreamInit, Held, Copied, HandledAsSent
<1> QED
  BY <1>3, <1>4, InitTyped DEF FInv, Flow, StreamInit

----------------------------------------------------------------------------
(* The client's side.  As long as every recv was one answer, what is on    *)
(* its way back are the answers it has not acted on yet.                   *)
ReadInTurn == ~split =>
    /\ results \in Seq(Results) /\ Len(results) <= Len(answers)
    /\ \A i \in 1..Len(results) : results[i] = answers[i]
    /\ Len(back) = 2 * (Len(answers) - Len(results))
    /\ \A k \in 1..Len(answers) - Len(results) :
           /\ back[2 * k - 1] = [packet |-> Len(results) + k, at |-> 1, length |-> 2]
           /\ back[2 * k] = [packet |-> Len(results) + k, at |-> 2, length |-> 2]

LEMMA RunReads ==
    ASSUME STyped, ReadInTurn, NEW n \in 1..Len(back), Run(n) PROVE ReadInTurn'
<1> SUFFICES ASSUME ~split' PROVE ReadInTurn'
  BY DEF ReadInTurn
<1>1. n = 2 /\ back[1].at = 1 /\ ~split /\ answers' = answers
  BY DEF Run
<1> DEFINE a == Len(answers)
           m == Len(results)
<1>2. /\ back \in Seq(Unit) /\ Len(back) \in Nat /\ answers \in Seq(Results) /\ a \in Nat
      /\ results \in Seq(Results) /\ m \in Nat
  BY <1>1, LenProperties DEF STyped, ClientTyped, ReadInTurn
<1>3. /\ m <= a /\ \A i \in 1..m : results[i] = answers[i]
      /\ Len(back) = 2 * (a - m)
      /\ \A k \in 1..a - m : /\ back[2 * k - 1] = [packet |-> m + k, at |-> 1, length |-> 2]
                            /\ back[2 * k] = [packet |-> m + k, at |-> 2, length |-> 2]
  BY <1>1 DEF ReadInTurn
<1>4. 2 <= Len(back) /\ a - m >= 1
  <2>1. 2 <= Len(back)
    BY <1>1
  <2> HIDE DEF a, m
  <2> QED
    BY <1>2, <1>3, <2>1
<1>5. /\ back[1] = [packet |-> m + 1, at |-> 1, length |-> 2]
      /\ back[2] = [packet |-> m + 1, at |-> 2, length |-> 2]
  <2> HIDE DEF a, m
  <2>1. 1 \in 1..a - m /\ 2 * 1 - 1 = 1 /\ 2 * 1 = 2
    BY <1>2, <1>4
  <2> QED
    BY <1>3, <2>1
<1>6. recvBuffer'[1] = back[1] /\ recvBuffer'[2] = back[2]
  BY <1>1 DEF Run
<1>7. recvBuffer'[1].at = 1 /\ recvBuffer'[2].at = 2 /\ recvBuffer'[2].packet = m + 1
  BY <1>5, <1>6
<1>8. ResultIn(recvBuffer') = answers[m + 1] /\ results' = Append(results, ResultIn(recvBuffer'))
  BY <1>7 DEF Run, ResultIn
<1> HIDE DEF a, m
<1>9. answers[m + 1] \in Results
  <2>1. m + 1 \in 1..a
    BY <1>2, <1>4
  <2> QED
    BY <1>2, <2>1, ElementOfSeq DEF a
<1>10. /\ results' \in Seq(Results) /\ Len(results') = m + 1
       /\ \A i \in 1..m : results'[i] = results[i]
       /\ results'[m + 1] = answers[m + 1]
  BY <1>2, <1>8, <1>9, AppendProperties DEF m
<1>11. \A i \in 1..m + 1 : results'[i] = answers[i]
  <2>1. \A i \in 1..m + 1 : i \in 1..m \/ i = m + 1
    BY <1>2
  <2> QED
    BY <1>3, <1>10, <2>1
<1>12. /\ Len(back') = Len(back) - 2
       /\ \A i \in 1..Len(back) - 2 : back'[i] = back[i + 2]
  <2>1. back' = SubSeq(back, 3, Len(back))
    BY <1>1 DEF Run
  <2>2. /\ Len(SubSeq(back, 3, Len(back))) = Len(back) - 3 + 1
        /\ \A i \in 1..Len(back) - 3 + 1 : SubSeq(back, 3, Len(back))[i] = back[3 + i - 1]
    <3> DEFINE b == Len(back)
    <3>1. b \in Nat /\ b <= b /\ 3 <= b + 1 /\ 3 \in Nat \ {0}
      BY <1>2, <1>4
    <3>2. b <= Len(back)
      BY <3>1
    <3> HIDE DEF b
    <3>3. /\ Len(SubSeq(back, 3, b)) = b - 3 + 1
          /\ \A i \in 1..b - 3 + 1 : SubSeq(back, 3, b)[i] = back[3 + i - 1]
      BY <1>2, <3>1, <3>2, Part
    <3> QED
      BY <3>3 DEF b
  <2>3. Len(back') = Len(back) - 2
    BY <1>2, <2>1, <2>2
  <2>4. ASSUME NEW i \in 1..Len(back) - 2 PROVE back'[i] = back[i + 2]
    <3>1. i \in 1..Len(back) - 3 + 1 /\ 3 + i - 1 = i + 2
      BY <1>2
    <3> QED
      BY <2>1, <2>2, <3>1
  <2> QED
    BY <2>3, <2>4
<1>13. \A k \in 1..a - (m + 1) :
           /\ back'[2 * k - 1] = [packet |-> (m + 1) + k, at |-> 1, length |-> 2]
           /\ back'[2 * k] = [packet |-> (m + 1) + k, at |-> 2, length |-> 2]
  <2> TAKE k \in 1..a - (m + 1)
  <2>1. /\ k + 1 \in 1..a - m /\ 2 * k - 1 \in 1..Len(back) - 2 /\ 2 * k \in 1..Len(back) - 2
        /\ (2 * k - 1) + 2 = 2 * (k + 1) - 1 /\ 2 * k + 2 = 2 * (k + 1) /\ m + (k + 1) = (m + 1) + k
    BY <1>2, <1>3
  <2>2. back'[2 * k - 1] = back[2 * (k + 1) - 1] /\ back'[2 * k] = back[2 * (k + 1)]
    BY <1>12, <2>1
  <2>3. /\ back[2 * (k + 1) - 1] = [packet |-> m + (k + 1), at |-> 1, length |-> 2]
        /\ back[2 * (k + 1)] = [packet |-> m + (k + 1), at |-> 2, length |-> 2]
    BY <1>3, <2>1
  <2> QED
    BY <2>1, <2>2, <2>3
<1>14. m + 1 <= a /\ Len(back') = 2 * (a - (m + 1))
  BY <1>2, <1>3, <1>4, <1>12
<1> QED
  BY <1>1, <1>10, <1>11, <1>13, <1>14 DEF ReadInTurn, a

LEMMA ProcessReads ==
    ASSUME STyped, ReadInTurn, NEW result \in Results, ProcessRecvPacket(result)
    PROVE  ReadInTurn'
<1>1. UNCHANGED <<results, split>>
  BY DEF ProcessRecvPacket, client
<1>2. CASE UNCHANGED <<answers, back>>
  BY <1>1, <1>2 DEF ReadInTurn
<1>3. CASE /\ answers' = Append(answers, result)
           /\ back' = back \o Units(Len(answers) + 1, "LOGIN_RESPONSE")
  <2> SUFFICES ASSUME ~split PROVE ReadInTurn'
    BY <1>1 DEF ReadInTurn
  <2> DEFINE a == Len(answers)
             m == Len(results)
             u == Units(a + 1, "LOGIN_RESPONSE")
  <2>1. /\ back \in Seq(Unit) /\ Len(back) \in Nat /\ answers \in Seq(Results) /\ a \in Nat
        /\ results \in Seq(Results) /\ m \in Nat
    BY LenProperties DEF STyped, ClientTyped, ReadInTurn
  <2>2. /\ m <= a /\ \A i \in 1..m : results[i] = answers[i]
        /\ Len(back) = 2 * (a - m)
        /\ \A k \in 1..a - m : /\ back[2 * k - 1] = [packet |-> m + k, at |-> 1, length |-> 2]
                              /\ back[2 * k] = [packet |-> m + k, at |-> 2, length |-> 2]
    BY DEF ReadInTurn
  <2>3. /\ u \in Seq(Unit) /\ Len(u) = 2
        /\ \A i \in 1..2 : u[i] = [packet |-> a + 1, at |-> i, length |-> 2]
    <3> DEFINE b == a + 1
               id == "LOGIN_RESPONSE"
    <3>1. b \in Nat /\ id \in Ids /\ Length[id] = 2
      BY <2>1, Lengths
    <3> HIDE DEF b, id
    <3>2. /\ Units(b, id) \in Seq(Unit) /\ Len(Units(b, id)) = Length[id]
          /\ \A i \in 1..Length[id] :
                 Units(b, id)[i] = [packet |-> b, at |-> i, length |-> Length[id]]
      BY <3>1, UnitsOf
    <3>3. \A i \in 1..2 : Units(b, id)[i] = [packet |-> b, at |-> i, length |-> 2]
      BY <3>1, <3>2
    <3> QED
      BY <3>1, <3>2, <3>3 DEF b, id
  <2>4. /\ Len(answers') = a + 1 /\ \A i \in 1..a : answers'[i] = answers[i]
    BY <1>3, <2>1, AppendProperties
  <2>5. back' = back \o u
    BY <1>3
  <2> HIDE DEF u, a, m
  <2>6. /\ Len(back') = Len(back) + 2
        /\ \A i \in 1..Len(back) + 2 :
               back'[i] = IF i <= Len(back) THEN back[i] ELSE u[i - Len(back)]
    <3>1. /\ Len(back \o u) = Len(back) + Len(u)
          /\ \A i \in 1..Len(back) + Len(u) :
                 (back \o u)[i] = IF i <= Len(back) THEN back[i] ELSE u[i - Len(back)]
      BY <2>1, <2>3, ConcatProperties
    <3> QED
      BY <2>3, <2>5, <3>1
  <2>7. \A i \in 1..m : results[i] = answers'[i]
    BY <2>1, <2>2, <2>4
  <2>8. \A k \in 1..(a + 1) - m :
            /\ back'[2 * k - 1] = [packet |-> m + k, at |-> 1, length |-> 2]
            /\ back'[2 * k] = [packet |-> m + k, at |-> 2, length |-> 2]
    <3> TAKE k \in 1..(a + 1) - m
    <3>1. CASE k \in 1..a - m
      <4>1. /\ 2 * k - 1 \in 1..Len(back) + 2 /\ 2 * k - 1 <= Len(back)
            /\ 2 * k \in 1..Len(back) + 2 /\ 2 * k <= Len(back)
        BY <2>1, <2>2, <3>1
      <4> QED
        BY <2>2, <2>6, <3>1, <4>1
    <3>2. CASE k \notin 1..a - m
      <4>1. k = (a + 1) - m
        BY <2>1, <2>2, <3>2
      <4>2. /\ 2 * k - 1 \in 1..Len(back) + 2 /\ ~(2 * k - 1 <= Len(back))
            /\ 2 * k \in 1..Len(back) + 2 /\ ~(2 * k <= Len(back))
            /\ (2 * k - 1) - Len(back) = 1 /\ 2 * k - Len(back) = 2 /\ m + k = a + 1
        BY <2>1, <2>2, <4>1
      <4>3. back'[2 * k - 1] = u[1] /\ back'[2 * k] = u[2]
        BY <2>6, <4>2
      <4> QED
        BY <2>3, <4>2, <4>3
    <3> QED
      BY <3>1, <3>2
  <2>9. m <= a + 1 /\ Len(back') = 2 * ((a + 1) - m)
    BY <2>1, <2>2, <2>6
  <2> QED
    BY <1>1, <2>1, <2>4, <2>7, <2>8, <2>9 DEF ReadInTurn, m
<1> QED
  BY <1>2, <1>3 DEF ProcessRecvPacket

LEMMA StepReads == ASSUME STyped, ReadInTurn, [StreamNext]_streamVars PROVE ReadInTurn'
<1>1. CASE UNCHANGED <<results, answers, back, split>>
  BY <1>1 DEF ReadInTurn
<1>2. UNCHANGED streamVars => UNCHANGED <<results, answers, back, split>>
  BY DEF streamVars, client
<1>3. CASE Step
  <2>1. CASE \/ SendLoginPacket
             \/ \E n \in 1..Smaller(MaxReceive, Len(toServer)) : Receive(n)
             \/ Move \/ Rewind \/ Copy \/ Advance \/ EnqueuePacketData
             \/ Dequeue \/ GetPacket \/ MoveReadPos
    BY <1>1, <2>1 DEF SendLoginPacket, Receive, Move, Rewind, Copy, Advance, EnqueuePacketData,
                      Dequeue, GetPacket, MoveReadPos, client
  <2> QED
    BY <1>3, <2>1, RunReads, ProcessReads DEF Step
<1> QED
  BY <1>1, <1>2, <1>3 DEF StreamNext

LEMMA Sequential ==
    ASSUME FInv, ReadInTurn PROVE FramesKept
<1>1. Len(handled) <= Len(sent) /\ \A i \in DOMAIN handled : handled[i] = Units(i, sent[i])
  <2>1. DOMAIN handled = 1..Len(handled)
    BY LenProperties DEF FInv, STyped, TakerTyped
  <2> QED
    BY <2>1 DEF FInv, HandledAsSent
<1>2. ~split => results = SubSeq(answers, 1, Len(results))
  <2> SUFFICES ASSUME ~split PROVE results = SubSeq(answers, 1, Len(results))
    OBVIOUS
  <2>1. /\ results \in Seq(Results) /\ Len(results) \in Nat /\ answers \in Seq(Results)
        /\ Len(answers) \in Nat /\ Len(results) <= Len(answers)
        /\ \A i \in 1..Len(results) : results[i] = answers[i]
    BY LenProperties DEF ReadInTurn, FInv, STyped, ClientTyped
  <2> DEFINE p == SubSeq(answers, 1, Len(results))
  <2>2. p \in Seq(Results) /\ Len(p) = Len(results) - 1 + 1
        /\ \A i \in 1..Len(results) - 1 + 1 : p[i] = answers[1 + i - 1]
    BY <2>1, Part
  <2>3. Len(p) = Len(results) /\ \A i \in 1..Len(results) : p[i] = results[i]
    BY <2>1, <2>2
  <2> HIDE DEF p
  <2>4. p = results
    BY <2>1, <2>2, <2>3, SeqEqual
  <2> QED
    BY <2>4 DEF p
<1> QED
  BY <1>1, <1>2 DEF FramesKept

(* Wherever TCP cuts the stream, and however the worker that fills the     *)
(* buffer and the packet thread that empties it overlap (User.h:75-126),   *)
(* the server handles the packets as they were sent, one by one and in     *)
(* order, up to the first take that meets a move of the buffer.  The       *)
(* client reads the answers so while every recv is one answer              *)
(* (AuraSocket.cpp:81-85).                                                 *)
THEOREM PacketsStayWhole == StreamSpec => []FramesKept
<1>1. StreamInit => FInv /\ ReadInTurn
  BY InitFlow, EmptySeq DEF StreamInit, ReadInTurn
<1>2. FInv /\ ReadInTurn /\ [StreamNext]_streamVars => FInv' /\ ReadInTurn'
  BY StepFlow, StepReads DEF FInv
<1>3. FInv /\ ReadInTurn => FramesKept
  BY Sequential
<1> QED
  BY <1>1, <1>2, <1>3, PTL DEF StreamSpec

----------------------------------------------------------------------------
(* Entries and packets.                                                    *)
LEMMA Shifted ==
    ASSUME NEW S \in SUBSET Int, IsFiniteSet(S), NEW d \in Int
    PROVE  /\ IsFiniteSet({x + d : x \in S})
           /\ Cardinality({x + d : x \in S}) = Cardinality(S)
<1> DEFINE T == {x + d : x \in S}
           f == [x \in S |-> x + d]
<1>1. f \in [S -> T]
  OBVIOUS
<1>2. \A a, b \in S : f[a] = f[b] => a = b
  <2> TAKE a, b \in S
  <2>1. a \in Int /\ b \in Int /\ f[a] = a + d /\ f[b] = b + d
    OBVIOUS
  <2> QED
    BY <2>1
<1>3. \A t \in T : \E x \in S : f[x] = t
  OBVIOUS
<1> HIDE DEF f, T
<1>4. f \in Bijection(S, T)
  BY <1>1, <1>2, <1>3, Fun_IsBij
<1>5. ExistsBijection(S, T)
  BY <1>4, Fun_ExistsBij
<1> QED
  BY <1>5, FS_Bijection DEF T

\* Places of the unread part of the buffer where a packet ends.
EndsIn == {i \in 1..InWindow : mPakcetDataBuffer[Base + i - 1].at
                               = mPakcetDataBuffer[Base + i - 1].length}

Counted ==
    /\ Cardinality(EndsIn) <= Pending + merged
    /\ HasData => /\ Ends(worker.data) <= merged + 1
                  /\ Cardinality(EndsIn) + Ends(worker.data) <= Pending + 1 + merged

LEMMA Numbers ==
    ASSUME STyped, Flow
    PROVE  /\ IsFiniteSet(EndsIn) /\ Cardinality(EndsIn) \in Nat /\ EndsIn \subseteq 1..InWindow
           /\ InWindow \in Nat /\ Pending \in Nat /\ merged \in Nat
           /\ Ends(worker.data) \in Nat /\ worker.data \in Seq(Unit)
<1>1. InWindow \in Nat
  BY Positions DEF Flow
<1>2. EndsIn \subseteq 1..InWindow
  BY DEF EndsIn
<1>3. IsFiniteSet(1..InWindow)
  BY <1>1, FS_Interval
<1>4. IsFiniteSet(EndsIn)
  BY <1>2, <1>3, FS_Subset
<1>5. worker.data \in Seq(Unit) /\ merged \in Nat /\ mInComingPacketUserIndex \in Nat
  BY DEF STyped, WorkerTyped, TakerTyped, Hand
<1>6. Ends(worker.data) \in Nat
  BY <1>5, EndsCount
<1>7. Pending \in Nat
  BY <1>5 DEF Pending
<1> QED
  BY <1>1, <1>2, <1>4, <1>5, <1>6, <1>7, FS_CardinalityType

\* The unread part of the buffer does not change.
LEMMA SameEnds ==
    ASSUME InWindow' = InWindow,
           \A i \in 1..InWindow : mPakcetDataBuffer'[Base' + i - 1] = mPakcetDataBuffer[Base + i - 1]
    PROVE  EndsIn' = EndsIn
BY DEF EndsIn

LEMMA ReceiveCounted ==
    ASSUME STyped, Flow, Counted, NEW n \in 1..Smaller(MaxReceive, Len(toServer)), Receive(n)
    PROVE  Counted'
<1>1. /\ worker.at = "idle" /\ worker'.at \in {"move", "copy"} /\ worker'.data \in Seq(Unit)
      /\ UNCHANGED <<mPakcetDataBuffer, mPakcetDataBufferWPos, mPakcetDataBufferRPos,
                     mInComingPacketUserIndex, taker>>
      /\ merged' = merged + (IF Ends(worker'.data) > 1 THEN Ends(worker'.data) - 1 ELSE 0)
  BY ReceivedUnits DEF Receive
<1>2. Base' = Base /\ InWindow' = InWindow /\ EndsIn' = EndsIn
  BY <1>1 DEF Base, InWindow, EndsIn
<1>3. Pending' = Pending
  BY <1>1 DEF Pending
<1> DEFINE e == Ends(worker'.data)
           c == Cardinality(EndsIn)
<1>4. e \in Nat /\ c \in Nat /\ Pending \in Nat /\ merged \in Nat
  BY <1>1, EndsCount, Numbers
<1>5. c <= Pending + merged
  BY DEF Counted
<1> HIDE DEF e, c
<1>6. merged' = merged + (IF e > 1 THEN e - 1 ELSE 0)
  BY <1>1 DEF e
<1>7. c <= Pending + merged' /\ e <= merged' + 1 /\ c + e <= Pending + 1 + merged'
  BY <1>4, <1>5, <1>6
<1> QED
  BY <1>2, <1>3, <1>7 DEF Counted, e, c

LEMMA MoveCounted == ASSUME STyped, Flow, Counted, Move PROVE Counted'
<1>1. /\ worker.at = "move" /\ worker'.at = "rewind" /\ worker'.data = worker.data
      /\ InWindow' = InWindow
      /\ \A i \in 1..InWindow :
             mPakcetDataBuffer'[Base' + i - 1] = mPakcetDataBuffer[Base + i - 1]
  BY Moved
<1>2. EndsIn' = EndsIn
  BY <1>1, SameEnds
<1>3. Pending' = Pending /\ merged' = merged
  BY <1>1 DEF Move, Pending
<1> QED
  BY <1>1, <1>2, <1>3 DEF Counted, HasData

LEMMA RewindCounted == ASSUME STyped, Flow, Counted, Rewind PROVE Counted'
<1>1. /\ worker.at = "rewind" /\ worker'.at = "copy" /\ worker'.data = worker.data
      /\ mPakcetDataBufferRPos' = 0
      /\ UNCHANGED <<mPakcetDataBuffer, mPakcetDataBufferWPos, taker, mInComingPacketUserIndex, merged>>
  BY DEF Rewind, WorkerGoes, STyped, WorkerTyped, Hand
<1>2. Base = 0 /\ Base' = 0 /\ InWindow' = InWindow /\ Pending' = Pending
  BY <1>1 DEF Base, InWindow, Pending
<1>3. EndsIn' = EndsIn
  BY <1>1, <1>2 DEF EndsIn
<1> QED
  BY <1>1, <1>2, <1>3 DEF Counted, HasData

LEMMA CopyCounted == ASSUME STyped, Flow, Counted, Copy PROVE Counted'
<1>1. /\ worker.at = "copy" /\ worker'.at = "advance" /\ worker'.data = worker.data
      /\ UNCHANGED <<mPakcetDataBufferWPos, mPakcetDataBufferRPos, taker,
                     mInComingPacketUserIndex, merged>>
  BY DEF Copy, WorkerGoes, STyped, WorkerTyped, Hand
<1>2. Base' = Base /\ InWindow' = InWindow /\ Pending' = Pending
  BY <1>1 DEF Base, InWindow, Pending
<1>3. \A i \in 0..mPakcetDataBufferWPos - 1 : mPakcetDataBuffer'[i] = mPakcetDataBuffer[i]
  BY Written
<1>4. \A i \in 1..InWindow : Base + i - 1 \in 0..mPakcetDataBufferWPos - 1
  BY Positions DEF Flow
<1>5. EndsIn' = EndsIn
  BY <1>2, <1>3, <1>4, SameEnds
<1> QED
  BY <1>1, <1>2, <1>5 DEF Counted, HasData

LEMMA AdvanceCounted == ASSUME STyped, Flow, Counted, Advance PROVE Counted'
<1> DEFINE d == worker.data
           E == {i \in DOMAIN d : d[i].at = d[i].length}
           G == {x + InWindow : x \in E}
<1>1. /\ worker.at = "advance" /\ worker'.at = "queue"
      /\ mPakcetDataBufferWPos' = mPakcetDataBufferWPos + Len(d)
      /\ UNCHANGED <<mPakcetDataBuffer, mPakcetDataBufferRPos, taker,
                     mInComingPacketUserIndex, merged>>
  BY DEF Advance, WorkerGoes, STyped, WorkerTyped, Hand
<1>2. Base' = Base
  BY <1>1 DEF Base
<1>3. /\ Base \in Nat /\ InWindow \in Nat /\ Base + InWindow = mPakcetDataBufferWPos
      /\ mPakcetDataBufferWPos \in Nat
  BY Positions DEF Flow
<1>4. d \in Seq(Unit) /\ Len(d) \in Nat /\ DOMAIN d = 1..Len(d)
  BY LenProperties, Numbers
<1>5. \A k \in 1..Len(d) : mPakcetDataBuffer[mPakcetDataBufferWPos + k - 1] = d[k]
  BY <1>1 DEF Flow, Copied
<1>6. IsFiniteSet(E) /\ Ends(d) = Cardinality(E) /\ E \subseteq 1..Len(d)
  BY <1>4, EndsCount DEF Ends
<1> HIDE DEF d
<1>7. InWindow' = InWindow + Len(d)
  BY <1>1, <1>2, <1>3 DEF InWindow
<1>8. EndsIn' = EndsIn \cup G
  <2> DEFINE P(i) == mPakcetDataBuffer[Base + i - 1].at = mPakcetDataBuffer[Base + i - 1].length
  <2>1. EndsIn' = {i \in 1..InWindow + Len(d) : P(i)} /\ EndsIn = {i \in 1..InWindow : P(i)}
    BY <1>1, <1>2, <1>7 DEF EndsIn
  <2>2. \A k \in 1..Len(d) : P(k + InWindow) <=> d[k].at = d[k].length
    <3> TAKE k \in 1..Len(d)
    <3>1. Base + (k + InWindow) - 1 = mPakcetDataBufferWPos + k - 1
      BY <1>3, <1>4
    <3>2. mPakcetDataBuffer[Base + (k + InWindow) - 1] = d[k]
      BY <1>5, <3>1
    <3> QED
      BY <3>2
  <2> HIDE DEF P
  <2>3. \A k \in 1..Len(d) : P(k + InWindow) <=> k \in E
    BY <1>4, <2>2
  <2> HIDE DEF E
  <2>4. ASSUME NEW i \in EndsIn' PROVE i \in EndsIn \cup G
    <3>1. i \in 1..InWindow + Len(d) /\ P(i)
      BY <2>1, <2>4
    <3>2. CASE i <= InWindow
      <4>1. i \in 1..InWindow
        BY <1>3, <3>1, <3>2
      <4> QED
        BY <2>1, <3>1, <4>1
    <3>3. CASE ~(i <= InWindow)
      <4>1. i - InWindow \in 1..Len(d) /\ (i - InWindow) + InWindow = i
        BY <1>3, <1>4, <3>1, <3>3
      <4>2. i - InWindow \in E
        BY <2>3, <3>1, <4>1
      <4> QED
        BY <4>1, <4>2
    <3> QED
      BY <3>2, <3>3
  <2>5. EndsIn \subseteq EndsIn'
    <3>1. \A i \in 1..InWindow : i \in 1..InWindow + Len(d)
      BY <1>3, <1>4
    <3> QED
      BY <2>1, <3>1
  <2>6. ASSUME NEW x \in E PROVE x + InWindow \in EndsIn'
    <3>1. x \in 1..Len(d)
      BY <1>6
    <3>2. x + InWindow \in 1..InWindow + Len(d)
      BY <1>3, <1>4, <3>1
    <3> QED
      BY <2>1, <2>3, <3>1, <3>2
  <2> QED
    BY <2>4, <2>5, <2>6
<1>9. E \in SUBSET Int
  BY <1>4, <1>6
<1> HIDE DEF E
<1>10. IsFiniteSet(G) /\ Cardinality(G) = Cardinality(E)
  <2> DEFINE m == InWindow
  <2>1. m \in Int
    BY <1>3
  <2> HIDE DEF m
  <2>2. IsFiniteSet({x + m : x \in E}) /\ Cardinality({x + m : x \in E}) = Cardinality(E)
    BY <1>6, <1>9, <2>1, Shifted
  <2> QED
    BY <2>2 DEF m
<1>11. EndsIn \cap G = {}
  <2> SUFFICES ASSUME NEW x \in E, x + InWindow \in EndsIn PROVE FALSE
    OBVIOUS
  <2>1. x \in 1..Len(d) /\ x + InWindow \in 1..InWindow
    BY <1>6, Numbers
  <2> QED
    BY <1>3, <1>4, <2>1
<1> HIDE DEF G
<1>12. Cardinality(EndsIn') = Cardinality(EndsIn) + Ends(d)
  <2>1. IsFiniteSet(EndsIn) /\ Cardinality(EndsIn) \in Nat /\ Ends(d) \in Nat
    BY Numbers DEF d
  <2>2. Cardinality(EndsIn \cup G) = Cardinality(EndsIn) + Cardinality(G) - Cardinality(EndsIn \cap G)
    BY <1>10, <2>1, FS_Union
  <2>3. Cardinality(EndsIn \cap G) = 0
    BY <1>11, FS_EmptySet
  <2> QED
    BY <1>6, <1>8, <1>10, <2>1, <2>2, <2>3
<1>13. Pending' = Pending + 1
  BY <1>1, Numbers DEF Pending, STyped, TakerTyped
<1>14. Cardinality(EndsIn) + Ends(d) <= Pending + 1 + merged
  BY <1>1 DEF Counted, HasData, d
<1>15. Cardinality(EndsIn') <= Pending' + merged'
  BY <1>1, <1>12, <1>13, <1>14
<1> QED
  BY <1>1, <1>15 DEF Counted, HasData

LEMMA EnqueueCounted == ASSUME STyped, Flow, Counted, EnqueuePacketData PROVE Counted'
<1>1. /\ worker.at = "queue" /\ worker'.at = "idle"
      /\ mInComingPacketUserIndex' = mInComingPacketUserIndex + 1
      /\ UNCHANGED <<mPakcetDataBuffer, mPakcetDataBufferWPos, mPakcetDataBufferRPos, taker, merged>>
  BY DEF EnqueuePacketData
<1>2. Base' = Base /\ InWindow' = InWindow /\ EndsIn' = EndsIn
  BY <1>1 DEF Base, InWindow, EndsIn
<1>3. Pending' = Pending
  BY <1>1 DEF Pending, STyped, TakerTyped
<1> QED
  BY <1>1, <1>2, <1>3 DEF Counted, HasData

LEMMA DequeueCounted == ASSUME STyped, Flow, Counted, Dequeue PROVE Counted'
<1>1. /\ taker.at = "idle" /\ taker'.at = "take"
      /\ mInComingPacketUserIndex' = mInComingPacketUserIndex - 1
      /\ UNCHANGED <<mPakcetDataBuffer, mPakcetDataBufferWPos, mPakcetDataBufferRPos, worker, merged>>
  BY DEF Dequeue, STyped, TakerTyped, Take
<1>2. Base' = Base /\ InWindow' = InWindow /\ EndsIn' = EndsIn
  BY <1>1 DEF Base, InWindow, EndsIn
<1>3. Pending' = Pending
  BY <1>1 DEF Pending, STyped, TakerTyped
<1> QED
  BY <1>1, <1>2, <1>3 DEF Counted, HasData

\* When nothing is taken, no packet ends in the buffer.
LEMMA GetPacketCounted == ASSUME STyped, Flow, Counted, GetPacket PROVE Counted'
<1> DEFINE r == mPakcetDataBufferRPos
           w == mPakcetDataBufferWPos
           m == mPakcetDataBuffer[r].length
<1>1. /\ taker.at = "take"
      /\ UNCHANGED <<mPakcetDataBuffer, mPakcetDataBufferWPos, mPakcetDataBufferRPos, worker, merged,
                     mInComingPacketUserIndex>>
  BY DEF GetPacket
<1>2. Base' = Base /\ InWindow' = InWindow /\ EndsIn' = EndsIn
  BY <1>1 DEF Base, InWindow, EndsIn
<1>3. CASE (w - r < 1 \/ m > w - r) /\ taker' = [taker EXCEPT !.at = "idle"]
  <2>1. taker'.at = "idle"
    BY <1>3 DEF STyped, TakerTyped, Take
  <2>2. Base = r /\ r \in Nat /\ w \in Nat /\ InWindow = w - r /\ InWindow \in Nat
    <3>1. Base = r
      BY <1>1 DEF Flow, Held, Base
    <3> QED
      BY <3>1, Positions DEF Flow, InWindow
  <2>3. EndsIn = {}
    <3> SUFFICES ASSUME NEW i \in 1..InWindow, mPakcetDataBuffer[Base + i - 1].at
                                                = mPakcetDataBuffer[Base + i - 1].length
                 PROVE  FALSE
      BY DEF EndsIn
    <3> DEFINE n == Len(handled) + 1
               l == Length[sent[n]]
    <3>1. InWindow > 0
      BY <2>2
    <3>2. /\ l \in {2, 3} /\ m = l
          /\ \A j \in 1..l : Way[j] = [packet |-> n, at |-> j, length |-> l]
          /\ \A j \in 1..InWindow : Way[j] = mPakcetDataBuffer[r + j - 1]
      BY <1>1, <3>1, Front
    <3> HIDE DEF m, r, w, l, n
    <3>3. i < l /\ i \in 1..l
      BY <1>3, <2>2, <3>1, <3>2
    <3>4. mPakcetDataBuffer[r + i - 1] = [packet |-> n, at |-> i, length |-> l]
      BY <3>2, <3>3
    <3>5. i = l
      BY <2>2, <3>4
    <3> QED
      BY <3>2, <3>3, <3>5
  <2>4. Pending' + 1 = Pending /\ Pending' \in Nat
    BY <1>1, <2>1 DEF Pending, STyped, TakerTyped
  <2>5. Cardinality(EndsIn) = 0
    BY <2>3, FS_EmptySet
  <2>6. merged \in Nat /\ Ends(worker.data) \in Nat
    BY Numbers
  <2> DEFINE e == Ends(worker.data)
             q == Pending'
  <2>7. HasData => e <= merged + 1
    BY DEF Counted
  <2>8. e \in Nat /\ q \in Nat
    BY <2>4, <2>6
  <2> HIDE DEF e, q
  <2>9. 0 <= q + merged /\ (HasData => e <= merged + 1 /\ 0 + e <= q + 1 + merged)
    BY <2>6, <2>7, <2>8
  <2> QED
    BY <1>1, <1>2, <2>5, <2>9 DEF Counted, HasData, e, q
<1>4. CASE taker' = [at |-> "move", ptr |-> r, size |-> m]
  <2>1. taker'.at = "move"
    BY <1>4
  <2>2. Pending' = Pending
    BY <1>1, <2>1 DEF Pending
  <2> QED
    BY <1>1, <1>2, <2>2 DEF Counted, HasData
<1> QED
  BY <1>3, <1>4, TakeOrNot

\* One packet ends in what is taken.
LEMMA MoveReadPosCounted == ASSUME STyped, Flow, Counted, MoveReadPos PROVE Counted'
<1> DEFINE n == Len(handled) + 1
           l == Length[sent[n]]
           G == {x + l : x \in EndsIn'}
<1>1. /\ taker.at = "move" /\ taker'.at = "handle" /\ l \in {2, 3} /\ l <= InWindow
      /\ InWindow \in Nat /\ InWindow' = InWindow - l /\ taker.size = l
  BY ReadOn
<1>2. /\ mPakcetDataBufferRPos' = mPakcetDataBufferRPos + taker.size
      /\ UNCHANGED <<mPakcetDataBuffer, mPakcetDataBufferWPos, worker, merged,
                     mInComingPacketUserIndex>>
  BY DEF MoveReadPos
<1>3. /\ Base = mPakcetDataBufferRPos /\ Base \in Nat
      /\ \A j \in 1..l : Way[j] = [packet |-> n, at |-> j, length |-> l]
      /\ \A j \in 1..InWindow : Way[j] = mPakcetDataBuffer[mPakcetDataBufferRPos + j - 1]
  <2>1. InWindow > 0
    BY <1>1
  <2> QED
    BY <1>1, <2>1, Front, Positions
<1>4. Base' = Base + l
  BY <1>1, <1>2, <1>3 DEF Flow, Held, Base
<1>5. \A j \in 1..l : mPakcetDataBuffer[Base + j - 1] = [packet |-> n, at |-> j, length |-> l]
  BY <1>1, <1>3
<1> HIDE DEF l, n
<1> DEFINE P(i) == mPakcetDataBuffer[Base + i - 1].at = mPakcetDataBuffer[Base + i - 1].length
<1>6. EndsIn = {i \in 1..InWindow : P(i)}
  BY DEF EndsIn
<1>7. \A i \in 1..l : P(i) <=> i = l
  <2> SUFFICES ASSUME NEW i \in 1..l PROVE P(i) <=> i = l
    OBVIOUS
  <2> DEFINE u == mPakcetDataBuffer[Base + i - 1]
  <2>1. u = [packet |-> n, at |-> i, length |-> l]
    BY <1>5
  <2> HIDE DEF u
  <2>2. u.at = u.length <=> i = l
    BY <2>1
  <2> QED
    BY <2>2 DEF u
<1>8. EndsIn' = {i \in 1..InWindow - l : P(i + l)}
  <2>1. EndsIn' = {i \in 1..InWindow - l : mPakcetDataBuffer[(Base + l) + i - 1].at
                                          = mPakcetDataBuffer[(Base + l) + i - 1].length}
    BY <1>1, <1>2, <1>4 DEF EndsIn
  <2>2. \A i \in 1..InWindow - l : (Base + l) + i - 1 = Base + (i + l) - 1
    BY <1>1, <1>3
  <2> QED
    BY <2>1, <2>2
<1> HIDE DEF P
<1>9. EndsIn = G \cup {l}
  <2>1. ASSUME NEW i \in EndsIn PROVE i \in G \cup {l}
    <3>1. i \in 1..InWindow /\ P(i)
      BY <1>6, <2>1
    <3>2. CASE i <= l
      <4>1. i \in 1..l
        BY <1>1, <3>1, <3>2
      <4> QED
        BY <1>7, <3>1, <4>1
    <3>3. CASE ~(i <= l)
      <4>1. i - l \in 1..InWindow - l /\ (i - l) + l = i
        BY <1>1, <3>1, <3>3
      <4>2. i - l \in EndsIn'
        BY <1>8, <3>1, <4>1
      <4> QED
        BY <4>1, <4>2
    <3> QED
      BY <3>2, <3>3
  <2>2. ASSUME NEW x \in EndsIn' PROVE x + l \in EndsIn
    <3>1. x \in 1..InWindow - l /\ P(x + l)
      BY <1>8, <2>2
    <3>2. x + l \in 1..InWindow
      BY <1>1, <3>1
    <3> QED
      BY <1>6, <3>1, <3>2
  <2>3. l \in EndsIn
    <3>1. l \in 1..l /\ l \in 1..InWindow
      BY <1>1
    <3> QED
      BY <1>6, <1>7, <3>1
  <2> QED
    BY <2>1, <2>2, <2>3
<1>10. EndsIn' \subseteq 1..InWindow - l /\ EndsIn' \in SUBSET Int
  BY <1>1, <1>8
<1>11. IsFiniteSet(EndsIn')
  <2>1. IsFiniteSet(1..InWindow - l)
    BY <1>1, FS_Interval
  <2> QED
    BY <1>10, <2>1, FS_Subset
<1>12. IsFiniteSet(G) /\ Cardinality(G) = Cardinality(EndsIn')
  <2> DEFINE S == EndsIn'
  <2>1. S \in SUBSET Int /\ IsFiniteSet(S) /\ l \in Int
    BY <1>1, <1>10, <1>11
  <2> HIDE DEF S
  <2>2. IsFiniteSet({x + l : x \in S}) /\ Cardinality({x + l : x \in S}) = Cardinality(S)
    BY <2>1, Shifted
  <2> QED
    BY <2>2 DEF S
<1>13. l \notin G
  <2> SUFFICES ASSUME NEW x \in EndsIn', x + l = l PROVE FALSE
    OBVIOUS
  <2>1. x \in 1..InWindow - l
    BY <1>10
  <2> QED
    BY <1>1, <2>1
<1> HIDE DEF G
<1>14. Cardinality(EndsIn) = Cardinality(EndsIn') + 1
  BY <1>9, <1>12, <1>13, FS_AddElement
<1>15. Pending' + 1 = Pending
  BY <1>1, <1>2 DEF Pending, STyped, TakerTyped
<1> DEFINE c == Cardinality(EndsIn)
           d == Cardinality(EndsIn')
           e == Ends(worker.data)
           p == Pending
           q == Pending'
<1>16. d \in Nat
  BY <1>11, FS_CardinalityType
<1>17. p \in Nat /\ merged \in Nat /\ e \in Nat
  BY Numbers
<1>18. q \in Int
  BY <1>1, <1>2 DEF Pending, STyped, TakerTyped
<1>19. c <= p + merged /\ (HasData => e <= merged + 1 /\ c + e <= p + 1 + merged)
  BY DEF Counted
<1>20. c = d + 1 /\ q + 1 = p
  BY <1>14, <1>15
<1> HIDE DEF c, d, e, p, q
<1>21. d <= q + merged /\ (HasData => e <= merged + 1 /\ d + e <= q + 1 + merged)
  BY <1>16, <1>17, <1>18, <1>19, <1>20
<1> QED
  BY <1>2, <1>21 DEF Counted, HasData, d, e, q

LEMMA StepCounted ==
    ASSUME STyped, Flow, Counted, [StreamNext]_streamVars PROVE Counted'
<1>1. CASE UNCHANGED <<server, toServer>>
  <2>1. UNCHANGED <<Base, InWindow, InHand, Total, Way>>
    BY <1>1, SamePlaces DEF server
  <2> QED
    BY <1>1, <2>1 DEF server, Counted, EndsIn, Pending, HasData
<1>2. CASE UNCHANGED server
  <2>1. Base' = Base /\ InWindow' = InWindow
    BY <1>2 DEF server, Base, InWindow
  <2> QED
    BY <1>2, <2>1 DEF server, Counted, EndsIn, Pending, HasData
<1>3. UNCHANGED streamVars => UNCHANGED server
  BY DEF streamVars
<1>4. CASE Step
  <2>1. CASE SendLoginPacket \/ \E n \in 1..Len(back) : Run(n)
    BY <1>2, <2>1 DEF SendLoginPacket, Run
  <2>2. CASE \E result \in Results : ProcessRecvPacket(result)
    <3>1. /\ taker.at = "handle" /\ taker'.at = "idle"
          /\ UNCHANGED <<mPakcetDataBuffer, mPakcetDataBufferWPos, mPakcetDataBufferRPos, worker,
                         merged, mInComingPacketUserIndex>>
      BY <2>2 DEF ProcessRecvPacket, STyped, TakerTyped, Take
    <3>2. Base' = Base /\ InWindow' = InWindow /\ EndsIn' = EndsIn /\ Pending' = Pending
      BY <3>1 DEF Base, InWindow, EndsIn, Pending
    <3> QED
      BY <3>1, <3>2 DEF Counted, HasData
  <2> QED
    BY <1>4, <2>1, <2>2, ReceiveCounted, MoveCounted, RewindCounted, CopyCounted, AdvanceCounted,
       EnqueueCounted, DequeueCounted, GetPacketCounted, MoveReadPosCounted DEF Step
<1> QED
  BY <1>2, <1>3, <1>4 DEF StreamNext

LEMMA CountedIsEnough ==
    ASSUME FInv, ~torn => Counted PROVE OneEntryEach
<1> SUFFICES ASSUME ~Moving PROVE Cardinality(Unread) <= Pending + merged
  BY DEF OneEntryEach
<1>1. STyped /\ Flow /\ Counted
  BY DEF FInv
<1>2. Base = mPakcetDataBufferRPos
  BY DEF Moving, Base
<1>3. Base \in Nat /\ InWindow \in Nat /\ Base + InWindow = mPakcetDataBufferWPos
  BY <1>1, Positions DEF Flow
<1>4. IsFiniteSet(EndsIn) /\ EndsIn \subseteq 1..InWindow
  BY <1>1, Numbers
<1>5. Unread = {x + (Base - 1) : x \in EndsIn}
  <2> DEFINE P(i) == mPakcetDataBuffer[i].at = mPakcetDataBuffer[i].length
  <2>1. /\ Unread = {i \in Base..(Base + InWindow) - 1 : P(i)}
        /\ EndsIn = {i \in 1..InWindow : P(Base + i - 1)}
    BY <1>2, <1>3 DEF Unread, EndsIn
  <2> HIDE DEF P
  <2>2. ASSUME NEW i \in Unread PROVE \E x \in EndsIn : i = x + (Base - 1)
    <3>1. i \in Base..(Base + InWindow) - 1 /\ P(i)
      BY <2>1, <2>2
    <3> DEFINE x == i - (Base - 1)
    <3>2. x \in 1..InWindow /\ Base + x - 1 = i /\ i = x + (Base - 1)
      BY <1>3, <3>1
    <3> HIDE DEF x
    <3>3. x \in EndsIn
      BY <2>1, <3>1, <3>2
    <3> QED
      BY <3>2, <3>3
  <2>3. ASSUME NEW x \in EndsIn PROVE x + (Base - 1) \in Unread
    <3>1. x \in 1..InWindow /\ P(Base + x - 1)
      BY <2>1, <2>3
    <3>2. x + (Base - 1) = Base + x - 1 /\ Base + x - 1 \in Base..(Base + InWindow) - 1
      BY <1>3, <3>1
    <3> QED
      BY <2>1, <3>1, <3>2
  <2> QED
    BY <2>2, <2>3
<1>6. Cardinality(Unread) = Cardinality(EndsIn)
  <2>1. EndsIn \in SUBSET Int /\ Base - 1 \in Int
    BY <1>3, <1>4
  <2> QED
    BY <1>4, <1>5, <2>1, Shifted
<1> QED
  BY <1>1, <1>6 DEF Counted

(* A receive queues its client once and an entry takes one packet          *)
(* (PacketManager.cpp:54-60, 87-110): the whole packets that lie in the    *)
(* buffer without an entry to come are at most those that were received    *)
(* together with another one.                                              *)
THEOREM NoPacketForgotten == StreamSpec => []OneEntryEach
<1>1. StreamInit => FInv /\ (~torn => Counted)
  <2> SUFFICES ASSUME StreamInit PROVE FInv /\ Counted
    OBVIOUS
  <2>1. FInv /\ ~torn
    BY InitFlow DEF StreamInit
  <2>2. InWindow = 0 /\ worker.at = "idle"
    BY DEF StreamInit, InWindow, Base
  <2>3. EndsIn = {}
    BY <2>2 DEF EndsIn
  <2>4. Pending \in Nat /\ merged \in Nat /\ Cardinality(EndsIn) = 0
    BY <2>1, <2>3, Numbers, FS_EmptySet DEF FInv
  <2> QED
    BY <2>1, <2>2, <2>4 DEF Counted, HasData
<1>2. FInv /\ (~torn => Counted) /\ [StreamNext]_streamVars => FInv' /\ (~torn' => Counted')
  <2> SUFFICES ASSUME FInv, ~torn => Counted, [StreamNext]_streamVars
               PROVE  FInv' /\ (~torn' => Counted')
    OBVIOUS
  <2>1. CASE torn
    <3>1. UNCHANGED streamVars
      BY <2>1 DEF StreamNext
    <3> QED
      BY <2>1, <3>1, StepFlow DEF streamVars, server
  <2>2. CASE ~torn
    BY <2>2, StepFlow, StepCounted DEF FInv
  <2> QED
    BY <2>1, <2>2
<1>3. FInv /\ (~torn => Counted) => OneEntryEach
  BY CountedIsEnough
<1> QED
  BY <1>1, <1>2, <1>3, PTL DEF StreamSpec
=============================================================================
