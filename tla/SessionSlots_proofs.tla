------------------------ MODULE SessionSlots_proofs ------------------------
(***************************************************************************)
(* Why RE_USE_SESSION_WAIT_TIMESEC is enough, for any number of slots,     *)
(* workers and sockets, when handles are not recycled under a slot that    *)
(* still stores them and the accepter loads the close time once.           *)
(*                                                                         *)
(* The argument.  What is left of a connection when its slot is dated for  *)
(* reuse is bounded in time (Dated): a completion or a running handler is  *)
(* at most MaxDelay younger than the close, because I/O can only be        *)
(* aborted by a handler that was already running at the close.  Nothing    *)
(* waits or runs longer than MaxDelay (Ages).  So when the wait of         *)
(* 2 * MaxDelay or more is over, nothing is left (WaitSuffices), nothing   *)
(* comes back before the accept (Candidate), and the accept is alone on    *)
(* its slot until it is completed (AcceptAlone).  A handler that runs is   *)
(* then one of the current connection, and so is what it reports.          *)
(***************************************************************************)
EXTENDS SessionSlots, TLAPS

Working(w) == pc[w] # "wait"

Ages ==
    /\ \A x \in port : x.at <= now /\ now <= x.at + MaxDelay
    /\ \A w \in Workers : Working(w) => job[w].at <= now /\ now <= job[w].at + MaxDelay

Current ==
    /\ \A o \in ops : /\ o.gen = gen[o.slot] /\ o.sock = sock[o.slot]
                      /\ owner[o.sock] = <<o.slot, o.gen>>
    /\ \A x \in port : x.gen = gen[x.slot]
    /\ \A w \in Workers : Working(w) => job[w].gen = gen[job[w].slot]

OwnHandles == \A c \in Slots : Live(c) => owner[sock[c]] = <<c, gen[c]>>

ConnectedUndated == \A c \in Slots : isConnect[c] => closedAt[c] = Never

ClosedIsDead ==
    \A w \in Workers : pc[w] \in {"invalidate", "onclose"} => ~Live(job[w].slot)

ClosingIsCleared ==
    \A w \in Workers : pc[w] \in {"stamp", "closesocket", "invalidate", "onclose"} =>
        ~isConnect[job[w].slot]

(* No I/O, completion or handler of slot c but the ones given.             *)
OnlyOps(c, S)     == \A o \in ops : o.slot = c => o \in S
OnlyPort(c, S)    == \A x \in port : x.slot = c => x \in S
OnlyWorkers(c, S) == \A w \in Workers : Busy(w, c) => w \in S

Fresh(c) == closedAt[c] = Never /\ ~isConnect[c]

(* An accept in progress, its completion or its handler is alone.          *)
OpAlone(o)     == /\ Fresh(o.slot)
                  /\ OnlyOps(o.slot, {o}) /\ OnlyPort(o.slot, {}) /\ OnlyWorkers(o.slot, {})
PortAlone(x)   == /\ Fresh(x.slot)
                  /\ OnlyOps(x.slot, {}) /\ OnlyPort(x.slot, {x}) /\ OnlyWorkers(x.slot, {})
WorkerAlone(w) == /\ Fresh(job[w].slot)
                  /\ OnlyOps(job[w].slot, {}) /\ OnlyPort(job[w].slot, {})
                  /\ OnlyWorkers(job[w].slot, {w})

AcceptAlone ==
    /\ \A o \in ops : o.kind = "accept" => OpAlone(o)
    /\ \A x \in port : x.kind = "accept" => PortAlone(x)
    /\ \A w \in Workers : pc[w] = "accepted" => WorkerAlone(w)

Dated ==
    \A c \in Slots : closedAt[c] # Never =>
        /\ closedAt[c] <= now
        /\ \A x \in port : x.slot = c => x.at <= closedAt[c] + MaxDelay
        /\ \A w \in Workers : Busy(w, c) => job[w].at <= closedAt[c] + MaxDelay
        /\ Live(c) => \E w \in Workers : /\ Busy(w, c) /\ pc[w] = "closesocket"
                                         /\ job[w].at <= closedAt[c]

(* Nothing is left of the last connection of slot c.                       *)
Quiet(c) ==
    /\ closedAt[c] # Never /\ ~isConnect[c] /\ now > closedAt[c] + ReuseWait
    /\ \A o \in ops : o.slot # c
    /\ \A x \in port : x.slot # c
    /\ \A w \in Workers : ~Busy(w, c)
    /\ ~Live(c)

Candidate == apc # "scan" => apc = "post" /\ Quiet(acand)

IInv == /\ TypeOK /\ Ages /\ Current /\ OwnHandles /\ ConnectedUndated /\ ClosedIsDead
        /\ ClosingIsCleared /\ AcceptAlone /\ Dated /\ Candidate

----------------------------------------------------------------------------
(* The types of the pieces.                                                *)
LEMMA JobTyped ==
    ASSUME TypeOK, NEW w \in Workers, pc[w] # "wait"
    PROVE  /\ job[w] \in Completions /\ job[w].kind \in Kinds /\ job[w].slot \in Slots
           /\ job[w].gen \in Nat /\ job[w].ok \in BOOLEAN /\ job[w].at \in Nat
BY DEF TypeOK, Completions

LEMMA PortTyped ==
    ASSUME TypeOK, NEW x \in port
    PROVE  /\ x \in Completions /\ x.kind \in Kinds /\ x.slot \in Slots
           /\ x.gen \in Nat /\ x.ok \in BOOLEAN /\ x.at \in Nat /\ x # NoJob
BY SlotsAssumption DEF TypeOK, Completions

LEMMA OpsTyped ==
    ASSUME TypeOK, NEW o \in ops
    PROVE  /\ o \in Operations /\ o.kind \in Kinds /\ o.slot \in Slots
           /\ o.gen \in Nat /\ o.sock \in Sockets
BY DEF TypeOK, Operations

LEMMA CompletionTyped ==
    ASSUME TypeOK, NEW o \in ops, NEW ok \in BOOLEAN
    PROVE  /\ Completion(o, ok) \in Completions
           /\ Completion(o, ok).kind = o.kind /\ Completion(o, ok).slot = o.slot
           /\ Completion(o, ok).gen = o.gen /\ Completion(o, ok).at = now
BY OpsTyped DEF TypeOK, Completion, Completions

LEMMA OperationTyped ==
    ASSUME TypeOK, NEW c \in Slots, Live(c), NEW k \in Kinds
    PROVE  /\ Operation(k, c) \in Operations
           /\ Operation(k, c).kind = k /\ Operation(k, c).slot = c
           /\ Operation(k, c).gen = gen[c] /\ Operation(k, c).sock = sock[c]
BY DEF TypeOK, Live, Operation, Operations

(* A worker that goes on keeps its completion and no other worker moves.   *)
LEMMA GotoEffect ==
    ASSUME TypeOK, NEW w \in Workers, pc[w] # "wait", NEW l \in Labels, Goto(w, l)
    PROVE  /\ pc' \in [Workers -> Labels]
           /\ job' \in [Workers -> Completions \cup {NoJob}]
           /\ \A v \in Workers : pc'[v] = "wait" <=> job'[v] = NoJob
           /\ pc'[w] = l
           /\ \A v \in Workers : v # w => pc'[v] = pc[v]
           /\ \A v \in Workers : pc'[v] # "wait" => pc[v] # "wait" /\ job'[v] = job[v]
BY SlotsAssumption DEF TypeOK, Goto, Labels

LEMMA GetEffect ==
    ASSUME TypeOK, NEW w \in Workers, NEW x \in port, GetCompletion(w, x)
    PROVE  /\ pc' \in [Workers -> Labels]
           /\ job' \in [Workers -> Completions \cup {NoJob}]
           /\ \A v \in Workers : pc'[v] = "wait" <=> job'[v] = NoJob
           /\ \A v \in Workers : v # w => pc'[v] = pc[v] /\ job'[v] = job[v]
           /\ pc[w] = "wait"
           /\ \/ pc'[w] = "wait"
              \/ /\ pc'[w] \in {"check", "receive"} /\ job'[w] = x /\ x.kind # "accept"
              \/ /\ pc'[w] = "accepted" /\ job'[w] = x /\ x.kind = "accept"
<1>1. x \in Completions /\ x # NoJob /\ x.kind \in Kinds
  BY PortTyped
<1>2. CASE x.ok /\ x.kind = "send"
  BY <1>2 DEF GetCompletion, TypeOK
<1>3. CASE ~(x.ok /\ x.kind = "send")
  <2>1. PICK l \in {"check", "accepted", "receive"} :
            /\ pc' = [pc EXCEPT ![w] = l]
            /\ l = "accepted" <=> x.kind = "accept"
    BY <1>1, <1>3 DEF GetCompletion, Kinds
  <2>2. job' = [job EXCEPT ![w] = x] /\ pc[w] = "wait"
    BY <1>3 DEF GetCompletion
  <2> QED BY <1>1, <2>1, <2>2 DEF TypeOK, Labels
<1> QED BY <1>2, <1>3


LEMMA ExceptTyped ==
    ASSUME NEW S, NEW T, NEW f \in [S -> T], NEW i \in S, NEW t \in T
    PROVE  /\ [f EXCEPT ![i] = t] \in [S -> T]
           /\ [f EXCEPT ![i] = t][i] = t
           /\ \A j \in S : j # i => [f EXCEPT ![i] = t][j] = f[j]
OBVIOUS

LEMMA AcceptEffect ==
    ASSUME TypeOK, NEW c \in Slots, PostAccept(c)
    PROVE  /\ gen'[c] = gen[c] + 1 /\ gen'[c] \in Nat /\ gen' \in [Slots -> Nat]
           /\ \A d \in Slots : d # c => gen'[d] = gen[d] /\ sock'[d] = sock[d]
           /\ closedAt' = [closedAt EXCEPT ![c] = Never]
           /\ UNCHANGED <<isConnect, port, pc, job, sysLog, now, running>>
           /\ \/ sock'[c] = NoSocket /\ UNCHANGED <<owner, ops>> /\ acceptFailed'[c]
              \/ \E s \in Sockets :
                     /\ Available(s) /\ sock'[c] = s
                     /\ owner' = [owner EXCEPT ![s] = <<c, gen'[c]>>]
                     /\ \/ ops' = ops /\ acceptFailed'[c]
                        \/ \E o \in Operations :
                               /\ ops' = ops \cup {o}
                               /\ o.kind = "accept" /\ o.slot = c
                               /\ o.gen = gen'[c] /\ o.sock = s
<1>1. gen' = [gen EXCEPT ![c] = gen[c] + 1] /\ gen[c] + 1 \in Nat
  BY DEF PostAccept, TypeOK
<1>2. /\ gen'[c] = gen[c] + 1 /\ gen'[c] \in Nat /\ gen' \in [Slots -> Nat]
      /\ \A d \in Slots : d # c => gen'[d] = gen[d]
  BY <1>1 DEF TypeOK
<1>3. \A d \in Slots : d # c => sock'[d] = sock[d]
  BY DEF PostAccept, TypeOK
<1>4. CASE /\ sock' = [sock EXCEPT ![c] = NoSocket]
           /\ acceptFailed' = [acceptFailed EXCEPT ![c] = TRUE]
           /\ UNCHANGED <<owner, ops>>
  BY <1>2, <1>3, <1>4 DEF PostAccept, TypeOK, timeVars
<1>5. ASSUME NEW s \in Sockets, Available(s),
             sock' = [sock EXCEPT ![c] = s],
             owner' = [owner EXCEPT ![s] = <<c, gen[c] + 1>>],
             \/ /\ ops' = ops \cup {[kind |-> "accept", slot |-> c,
                                     gen |-> gen[c] + 1, sock |-> s]}
                /\ acceptFailed' = [acceptFailed EXCEPT ![c] = FALSE]
             \/ /\ acceptFailed' = [acceptFailed EXCEPT ![c] = TRUE]
                /\ UNCHANGED ops
      PROVE  /\ Available(s) /\ sock'[c] = s
             /\ owner' = [owner EXCEPT ![s] = <<c, gen'[c]>>]
             /\ \/ ops' = ops /\ acceptFailed'[c]
                \/ \E o \in Operations : /\ ops' = ops \cup {o}
                                         /\ o.kind = "accept" /\ o.slot = c
                                         /\ o.gen = gen'[c] /\ o.sock = s
  <2>1. sock'[c] = s
    BY <1>5 DEF TypeOK
  <2>2. [kind |-> "accept", slot |-> c, gen |-> gen[c] + 1, sock |-> s] \in Operations
    BY <1>1 DEF Operations, Kinds
  <2>3. acceptFailed' = [acceptFailed EXCEPT ![c] = TRUE] => acceptFailed'[c]
    BY DEF TypeOK
  <2> QED BY <1>2, <1>5, <2>1, <2>2, <2>3
<1> QED BY <1>2, <1>3, <1>4, <1>5 DEF PostAccept, timeVars

LEMMA CloseEffect ==
    ASSUME TypeOK, NEW w \in Workers, CloseHandle(w)
    PROVE  /\ pc[w] = "closesocket" /\ Goto(w, "invalidate")
           /\ UNCHANGED <<slotVars, sysLog, timeVars, running>>
           /\ \/ ~Live(job[w].slot) /\ UNCHANGED kernel
              \/ /\ Live(job[w].slot)
                 /\ owner' = [owner EXCEPT ![sock[job[w].slot]] = Free]
                 /\ \A o \in ops' : o \in ops /\ o.sock # sock[job[w].slot]
                 /\ \A o \in ops : o \notin ops' => Completion(o, FALSE) \in port'
                 /\ port \subseteq port'
                 /\ \A x \in port' : \/ x \in port
                                     \/ \E o \in ops : /\ o.sock = sock[job[w].slot]
                                                       /\ x = Completion(o, FALSE)
<1>1. CASE ~Live(job[w].slot)
  BY <1>1 DEF CloseHandle
<1>2. CASE Live(job[w].slot)
  <2> DEFINE aborted == {o \in ops : o.sock = sock[job[w].slot]}
  <2>1. /\ ops' = ops \ aborted
        /\ port' = port \cup {Completion(o, FALSE) : o \in aborted}
    BY <1>2 DEF CloseHandle
  <2>2. \A o \in ops : o \notin ops' => o \in aborted
    BY <2>1
  <2>3. \A o \in ops : o \notin ops' => Completion(o, FALSE) \in port'
    BY <2>1, <2>2
  <2>4. \A x \in port' : \/ x \in port
                         \/ \E o \in ops : o.sock = sock[job[w].slot] /\ x = Completion(o, FALSE)
    BY <2>1
  <2>5. \A o \in ops' : o \in ops /\ o.sock # sock[job[w].slot]
    BY <2>1
  <2> QED BY <1>2, <2>1, <2>3, <2>4, <2>5 DEF CloseHandle
<1> QED BY <1>1, <1>2

(* Every step keeps the types.                                              *)
LEMMA TypeStep ==
    ASSUME TypeOK, Next \/ UNCHANGED vars
    PROVE  TypeOK'
<1>1. ASSUME ReadClock PROVE TypeOK'
  BY <1>1, SlotsAssumption DEF TypeOK, ReadClock, slotVars, kernel, timeVars
<1>2. ASSUME NEW c \in Slots, LookAt(c) PROVE TypeOK'
  BY <1>2, SlotsAssumption DEF TypeOK, LookAt, slotVars, kernel, timeVars
<1>3. ASSUME Measure PROVE TypeOK'
  BY <1>3, SlotsAssumption DEF TypeOK, Measure, slotVars, kernel, timeVars
<1>4. ASSUME NEW c \in Slots, PostAccept(c) PROVE TypeOK'
  <2>1. ops' \subseteq Operations
    <3>1. UNCHANGED ops \/ \E o \in Operations : ops' = ops \cup {o}
      BY <1>4, AcceptEffect
    <3> QED BY <3>1 DEF TypeOK
  <2>2. owner' \in [Sockets -> {Free} \cup (Slots \X Nat)]
    <3>1. CASE UNCHANGED owner
      BY <3>1 DEF TypeOK
    <3>2. ASSUME NEW s \in Sockets, owner' = [owner EXCEPT ![s] = <<c, gen'[c]>>]
          PROVE  owner' \in [Sockets -> {Free} \cup (Slots \X Nat)]
      <4>1. <<c, gen'[c]>> \in {Free} \cup (Slots \X Nat)
        BY <1>4, AcceptEffect
      <4>2. owner \in [Sockets -> {Free} \cup (Slots \X Nat)]
        BY DEF TypeOK
      <4> QED BY <3>2, <4>1, <4>2, ExceptTyped
    <3> QED BY <1>4, <3>1, <3>2, AcceptEffect
  <2>3. sock' \in [Slots -> Sockets \cup {NoSocket}]
    <3>1. sock \in [Slots -> Sockets \cup {NoSocket}]
      BY DEF TypeOK
    <3> QED BY <1>4, <3>1 DEF PostAccept
  <2>4. acceptFailed' \in [Slots -> BOOLEAN]
    BY <1>4 DEF PostAccept, TypeOK
  <2>5. closedAt' \in [Slots -> Nat \cup {Never}]
    BY <1>4 DEF PostAccept, TypeOK
  <2> QED BY <1>4, <2>1, <2>2, <2>3, <2>4, <2>5, AcceptEffect
      DEF PostAccept, TypeOK, timeVars
<1>5. ASSUME NEW w \in Workers, NEW x \in port, GetCompletion(w, x) PROVE TypeOK'
  <2>1. port' \subseteq Completions
    BY <1>5 DEF GetCompletion, TypeOK
  <2> QED BY <1>5, <2>1, GetEffect DEF GetCompletion, TypeOK, slotVars, timeVars
<1>6. ASSUME NEW w \in Workers, NEW x \in port, FailedAccept(w, x) PROVE TypeOK'
  BY <1>6, SlotsAssumption DEF TypeOK, FailedAccept, slotVars, kernel, timeVars
<1>7. ASSUME NEW w \in Workers, OnConnect(w) PROVE TypeOK'
  <2>1. PICK l \in Labels : pc[w] # "wait" /\ Goto(w, l)
    BY <1>7 DEF OnConnect, Labels
  <2>2. job[w].slot \in Slots
    BY <2>1, JobTyped
  <2>3. ops' \subseteq Operations
    BY <1>7, <2>2, OperationTyped DEF OnConnect, TypeOK, Kinds
  <2> QED BY <1>7, <2>1, <2>2, <2>3, GotoEffect DEF OnConnect, TypeOK, timeVars
<1>8. ASSUME NEW w \in Workers, ReportConnect(w) PROVE TypeOK'
  <2>1. pc[w] # "wait" /\ Goto(w, "wait") /\ "wait" \in Labels
    BY <1>8 DEF ReportConnect, Labels
  <2>2. /\ job[w].slot \in Slots /\ job[w].gen \in Nat
    BY <2>1, JobTyped
  <2>3. sysLog' \in [Slots -> Seq({"connect", "disconnect"} \X Nat)]
    BY <1>8, <2>2 DEF ReportConnect, TypeOK
  <2> QED BY <1>8, <2>1, <2>3, GotoEffect DEF ReportConnect, TypeOK, slotVars, kernel, timeVars
<1>9. ASSUME NEW w \in Workers, Receive(w) PROVE TypeOK'
  <2>1. PICK l \in Labels : pc[w] # "wait" /\ Goto(w, l)
    BY <1>9 DEF Receive, Labels
  <2>2. job[w].slot \in Slots
    BY <2>1, JobTyped
  <2>3. ops' \subseteq Operations
    BY <1>9, <2>2, OperationTyped DEF Receive, TypeOK, Kinds
  <2> QED BY <1>9, <2>1, <2>2, <2>3, GotoEffect DEF Receive, TypeOK, timeVars
<1>10. ASSUME NEW w \in Workers, CheckConnected(w) PROVE TypeOK'
  <2>1. PICK l \in Labels : pc[w] # "wait" /\ Goto(w, l)
    BY <1>10 DEF CheckConnected, Labels
  <2> QED BY <1>10, <2>1, GotoEffect DEF CheckConnected, TypeOK, slotVars, kernel, timeVars
<1>11. ASSUME NEW w \in Workers, ClearConnect(w) PROVE TypeOK'
  <2>1. pc[w] # "wait" /\ Goto(w, "stamp") /\ "stamp" \in Labels
    BY <1>11 DEF ClearConnect, Labels
  <2> QED BY <1>11, <2>1, GotoEffect, JobTyped DEF ClearConnect, TypeOK, slotVars, kernel, timeVars
<1>12. ASSUME NEW w \in Workers, StampClosed(w) PROVE TypeOK'
  <2>1. pc[w] # "wait" /\ Goto(w, "closesocket") /\ "closesocket" \in Labels
    BY <1>12 DEF StampClosed, Labels
  <2> QED BY <1>12, <2>1, GotoEffect, JobTyped DEF StampClosed, TypeOK, slotVars, kernel, timeVars
<1>13. ASSUME NEW w \in Workers, CloseHandle(w) PROVE TypeOK'
  <2>1. pc[w] # "wait" /\ Goto(w, "invalidate") /\ "invalidate" \in Labels
    BY <1>13 DEF CloseHandle, Labels
  <2>2. \A o \in ops : Completion(o, FALSE) \in Completions
    BY CompletionTyped
  <2>3. ops' \subseteq Operations /\ port' \subseteq Completions
    <3>1. CASE UNCHANGED kernel
      BY <3>1 DEF TypeOK, kernel
    <3>2. CASE /\ \A o \in ops' : o \in ops
               /\ \A x \in port' : x \in port \/ \E o \in ops : x = Completion(o, FALSE)
      <4>1. ops \subseteq Operations /\ port \subseteq Completions
        BY DEF TypeOK
      <4> QED BY <2>2, <3>2, <4>1
    <3> QED BY <1>13, <3>1, <3>2, CloseEffect
  <2>4. owner' \in [Sockets -> {Free} \cup (Slots \X Nat)]
    BY <1>13, CloseEffect DEF TypeOK, kernel, Live
  <2> QED BY <1>13, <2>1, <2>3, <2>4, GotoEffect DEF CloseHandle, TypeOK, slotVars, timeVars
<1>14. ASSUME NEW w \in Workers, Invalidate(w) PROVE TypeOK'
  <2>1. pc[w] # "wait" /\ Goto(w, "onclose") /\ "onclose" \in Labels
    BY <1>14 DEF Invalidate, Labels
  <2> QED BY <1>14, <2>1, GotoEffect, JobTyped DEF Invalidate, TypeOK, slotVars, kernel, timeVars
<1>15. ASSUME NEW w \in Workers, ReportClose(w) PROVE TypeOK'
  <2>1. pc[w] # "wait" /\ Goto(w, "wait") /\ "wait" \in Labels
    BY <1>15 DEF ReportClose, Labels
  <2>2. /\ job[w].slot \in Slots /\ job[w].gen \in Nat
    BY <2>1, JobTyped
  <2>3. sysLog' \in [Slots -> Seq({"connect", "disconnect"} \X Nat)]
    BY <1>15, <2>2 DEF ReportClose, TypeOK
  <2> QED BY <1>15, <2>1, <2>3, GotoEffect DEF ReportClose, TypeOK, slotVars, kernel, timeVars
<1>16. ASSUME NEW o \in ops, NEW ok \in BOOLEAN, Complete(o, ok) PROVE TypeOK'
  <2>1. port' \subseteq Completions /\ ops' \subseteq Operations
    BY <1>16, CompletionTyped DEF Complete, TypeOK
  <2> QED BY <1>16, <2>1 DEF Complete, TypeOK, slotVars, timeVars
<1>17. ASSUME NEW c \in Slots, PostSend(c) PROVE TypeOK'
  <2>1. ops' \subseteq Operations
    BY <1>17, OperationTyped DEF PostSend, TypeOK, Kinds
  <2> QED BY <1>17, <2>1 DEF PostSend, TypeOK, slotVars, timeVars
<1>18. ASSUME Tick PROVE TypeOK'
  <2>1. now' = now + 1 /\ now \in Nat /\ accTime \in Nat /\ accTime <= now
    BY <1>18 DEF Tick, TypeOK
  <2>2. now' \in Nat /\ accTime <= now'
    BY <2>1
  <2> QED BY <1>18, <2>2 DEF TypeOK, Tick, slotVars, kernel, accepter
<1>19. CASE UNCHANGED vars
  BY <1>19 DEF TypeOK, vars
<1> QED BY <1>1, <1>2, <1>3, <1>4, <1>5, <1>6, <1>7, <1>8, <1>9, <1>10, <1>11, <1>12, <1>13, <1>14, <1>15, <1>16, <1>17, <1>18, <1>19
       DEF Next, Accepter, Worker, Environment

----------------------------------------------------------------------------
(* What the steps of a handler have in common.                             *)
Handler(w) ==
    \/ OnConnect(w) \/ ReportConnect(w) \/ Receive(w)
    \/ CheckConnected(w) \/ ClearConnect(w) \/ StampClosed(w)
    \/ CloseHandle(w) \/ Invalidate(w) \/ ReportClose(w)

LEMMA HandlerEffect ==
    ASSUME TypeOK, NEW w \in Workers, Handler(w)
    PROVE  /\ pc[w] # "wait"
           /\ job[w].slot \in Slots /\ job[w].gen \in Nat /\ job[w].at \in Nat
           /\ \A v \in Workers : v # w => pc'[v] = pc[v]
           /\ \A v \in Workers : pc'[v] # "wait" => pc[v] # "wait" /\ job'[v] = job[v]
           /\ UNCHANGED <<gen, apc, acand, accTime, now, acceptFailed, running>>
           /\ OnConnect(w) => pc[w] = "accepted" /\ pc'[w] \in {"report", "check"}
           /\ Receive(w) => pc[w] = "receive" /\ pc'[w] = "wait"
           /\ ReportConnect(w) => pc[w] = "report" /\ pc'[w] = "wait"
           /\ ReportClose(w) => pc[w] = "onclose" /\ pc'[w] = "wait"
           /\ CheckConnected(w) => pc[w] = "check" /\ pc'[w] \in {"clear", "wait"}
           /\ ClearConnect(w) => pc[w] = "clear" /\ pc'[w] = "stamp"
           /\ StampClosed(w) => pc[w] = "stamp" /\ pc'[w] = "closesocket"
           /\ CloseHandle(w) => pc[w] = "closesocket" /\ pc'[w] = "invalidate"
           /\ Invalidate(w) => pc[w] = "invalidate" /\ pc'[w] = "onclose"
<1>1. PICK l \in Labels : /\ pc[w] # "wait" /\ Goto(w, l)
                          /\ OnConnect(w) => pc[w] = "accepted" /\ l \in {"report", "check"}
                          /\ ReportConnect(w) => pc[w] = "report" /\ l = "wait"
                          /\ Receive(w) => pc[w] = "receive" /\ l = "wait"
                          /\ CheckConnected(w) => pc[w] = "check" /\ l \in {"clear", "wait"}
                          /\ ClearConnect(w) => pc[w] = "clear" /\ l = "stamp"
                          /\ StampClosed(w) => pc[w] = "stamp" /\ l = "closesocket"
                          /\ CloseHandle(w) => pc[w] = "closesocket" /\ l = "invalidate"
                          /\ Invalidate(w) => pc[w] = "invalidate" /\ l = "onclose"
                          /\ ReportClose(w) => pc[w] = "onclose" /\ l = "wait"
  BY DEF Handler, Labels, OnConnect, ReportConnect, Receive, CheckConnected, ClearConnect, StampClosed, CloseHandle, Invalidate, ReportClose
<1>2. UNCHANGED <<gen, apc, acand, accTime, now, acceptFailed, running>>
  BY DEF Handler, slotVars, timeVars, OnConnect, ReportConnect, Receive, CheckConnected, ClearConnect, StampClosed, CloseHandle, Invalidate, ReportClose
<1> QED BY <1>1, <1>2, GotoEffect, JobTyped

LEMMA LiveOwned ==
    ASSUME TypeOK, Current, NEW o \in ops
    PROVE  Live(o.slot)
<1>1. /\ o.sock \in Sockets /\ o.sock = sock[o.slot]
      /\ owner[o.sock] = <<o.slot, o.gen>>
  BY OpsTyped DEF Current
<1>2. <<o.slot, o.gen>> # Free
  BY DEF Free
<1> QED BY <1>1, <1>2 DEF Live

(* Once the wait is over, nothing is left of the slot's last connection.   *)
LEMMA WaitSuffices ==
    ASSUME IInv, NEW c \in Slots, ~isConnect[c], closedAt[c] # Never, closedAt[c] <= accTime,
           Waited(closedAt[c])
    PROVE  Quiet(c)
<1> USE DEF IInv
<1>1. /\ closedAt[c] \in Nat /\ closedAt[c] # Never
      /\ now > closedAt[c] + ReuseWait
  BY SlotsAssumption DEF TypeOK, Waited
<1>2. MaxDelay \in Nat /\ ReuseWait \in Nat /\ 2 * MaxDelay <= ReuseWait /\ now \in Nat
  BY SlotsAssumption, WaitAssumption DEF TypeOK
<1>3. ASSUME NEW x \in port, x.slot = c PROVE FALSE
  <2>1. x.at \in Nat /\ now <= x.at + MaxDelay
    BY PortTyped DEF Ages
  <2>2. x.at <= closedAt[c] + MaxDelay
    BY <1>1, <1>3 DEF Dated
  <2> QED BY <1>1, <1>2, <2>1, <2>2
<1>4. ASSUME NEW w \in Workers, Busy(w, c) PROVE FALSE
  <2>1. job[w].at \in Nat /\ now <= job[w].at + MaxDelay
    BY <1>4, JobTyped DEF Ages, Working, Busy
  <2>2. job[w].at <= closedAt[c] + MaxDelay
    BY <1>1, <1>4 DEF Dated
  <2> QED BY <1>1, <1>2, <2>1, <2>2
<1>5. ~Live(c)
  BY <1>1, <1>4 DEF Dated
<1>6. \A o \in ops : o.slot # c
  BY <1>5, LiveOwned
<1> QED BY <1>1, <1>3, <1>4, <1>5, <1>6 DEF Quiet

LEMMA NothingLeft ==
    ASSUME IInv, NEW c \in Slots, PostAccept(c)
    PROVE  Quiet(c)
BY DEF IInv, Candidate, PostAccept

(* Nothing grows older than MaxDelay.                                      *)
LEMMA AgesStep ==
    ASSUME TypeOK, Ages, Next \/ UNCHANGED vars
    PROVE  Ages'
<1>1. ASSUME ReadClock PROVE Ages'
  BY <1>1 DEF Ages, ReadClock, slotVars, kernel, timeVars, Working
<1>2. ASSUME NEW c \in Slots, LookAt(c) PROVE Ages'
  BY <1>2 DEF Ages, LookAt, slotVars, kernel, timeVars, Working
<1>3. ASSUME Measure PROVE Ages'
  BY <1>3 DEF Ages, Measure, slotVars, kernel, timeVars, Working
<1>4. ASSUME NEW c \in Slots, PostAccept(c) PROVE Ages'
  BY <1>4, AcceptEffect DEF Ages, Working
<1>5. ASSUME NEW w \in Workers, NEW x \in port, GetCompletion(w, x) PROVE Ages'
  BY <1>5, GetEffect, PortTyped DEF Ages, GetCompletion, slotVars, timeVars, Working
<1>6. ASSUME NEW w \in Workers, NEW x \in port, FailedAccept(w, x) PROVE Ages'
  BY <1>6 DEF Ages, FailedAccept, slotVars, kernel, timeVars, Working
<1>7. ASSUME NEW w \in Workers, OnConnect(w) PROVE Ages'
  BY <1>7, HandlerEffect DEF Ages, Handler, OnConnect, slotVars, kernel, timeVars, Working
<1>8. ASSUME NEW w \in Workers, ReportConnect(w) PROVE Ages'
  BY <1>8, HandlerEffect DEF Ages, Handler, ReportConnect, slotVars, kernel, timeVars, Working
<1>9. ASSUME NEW w \in Workers, Receive(w) PROVE Ages'
  BY <1>9, HandlerEffect DEF Ages, Handler, Receive, slotVars, kernel, timeVars, Working
<1>10. ASSUME NEW w \in Workers, CheckConnected(w) PROVE Ages'
  BY <1>10, HandlerEffect DEF Ages, Handler, CheckConnected, slotVars, kernel, timeVars, Working
<1>11. ASSUME NEW w \in Workers, ClearConnect(w) PROVE Ages'
  BY <1>11, HandlerEffect DEF Ages, Handler, ClearConnect, slotVars, kernel, timeVars, Working
<1>12. ASSUME NEW w \in Workers, StampClosed(w) PROVE Ages'
  BY <1>12, HandlerEffect DEF Ages, Handler, StampClosed, slotVars, kernel, timeVars, Working
<1>13. ASSUME NEW w \in Workers, CloseHandle(w) PROVE Ages'
  <2>1. \A o \in ops : Completion(o, FALSE).at = now
    BY CompletionTyped
  <2>2. now \in Nat /\ now <= now /\ now <= now + MaxDelay
    BY SlotsAssumption DEF TypeOK
  <2>3. \A x \in port' : x \in port \/ x.at = now
    <3>1. \A x \in port' : x \in port \/ \E o \in ops : x = Completion(o, FALSE)
      BY <1>13, CloseEffect DEF kernel
    <3> QED BY <2>1, <3>1
  <2> QED BY <1>13, <2>2, <2>3, HandlerEffect DEF Ages, Working, Handler
<1>14. ASSUME NEW w \in Workers, Invalidate(w) PROVE Ages'
  BY <1>14, HandlerEffect DEF Ages, Handler, Invalidate, slotVars, kernel, timeVars, Working
<1>15. ASSUME NEW w \in Workers, ReportClose(w) PROVE Ages'
  BY <1>15, HandlerEffect DEF Ages, Handler, ReportClose, slotVars, kernel, timeVars, Working
<1>16. ASSUME NEW o \in ops, NEW ok \in BOOLEAN, Complete(o, ok) PROVE Ages'
  <2>1. Completion(o, ok).at = now
    BY CompletionTyped
  <2>2. now \in Nat /\ now <= now /\ now <= now + MaxDelay
    BY SlotsAssumption DEF TypeOK
  <2> QED BY <1>16, <2>1, <2>2 DEF Ages, Working, Complete, timeVars
<1>17. ASSUME NEW c \in Slots, PostSend(c) PROVE Ages'
  BY <1>17 DEF Ages, PostSend, slotVars, kernel, timeVars, Working
<1>18. ASSUME Tick PROVE Ages'
  <2>1. now \in Nat /\ MaxDelay \in Nat /\ now' = now + 1
    BY <1>18, SlotsAssumption DEF Tick, TypeOK
  <2>2. ASSUME NEW x \in port' PROVE x.at <= now' /\ now' <= x.at + MaxDelay
    <3>1. x \in port /\ x.at \in Nat
      BY <1>18, PortTyped DEF Tick, kernel
    <3> QED BY <1>18, <2>1, <3>1 DEF Tick, Ages
  <2>3. ASSUME NEW w \in Workers, Working(w)' PROVE job'[w].at <= now' /\ now' <= job'[w].at + MaxDelay
    <3>1. pc[w] # "wait" /\ job'[w] = job[w] /\ job[w].at \in Nat
      BY <1>18, <2>3, JobTyped DEF Tick, Working
    <3> QED BY <1>18, <2>1, <3>1 DEF Tick, Ages, Working
  <2> QED BY <2>2, <2>3 DEF Ages
<1>19. CASE UNCHANGED vars
  BY <1>19 DEF Ages, vars, Working
<1> QED BY <1>1, <1>2, <1>3, <1>4, <1>5, <1>6, <1>7, <1>8, <1>9, <1>10, <1>11, <1>12, <1>13, <1>14, <1>15, <1>16, <1>17, <1>18, <1>19
       DEF Next, Accepter, Worker, Environment

(* All work of a slot is of its current connection.                        *)
LEMMA CurrentStep ==
    ASSUME IInv, ~HandlesRecycled, Next \/ UNCHANGED vars
    PROVE  Current'
<1> USE DEF IInv
<1>1. ASSUME ReadClock PROVE Current'
  BY <1>1 DEF Current, ReadClock, slotVars, kernel, timeVars, Working
<1>2. ASSUME NEW c \in Slots, LookAt(c) PROVE Current'
  BY <1>2 DEF Current, LookAt, slotVars, kernel, timeVars, Working
<1>3. ASSUME Measure PROVE Current'
  BY <1>3 DEF Current, Measure, slotVars, kernel, timeVars, Working
<1>4. ASSUME NEW c \in Slots, PostAccept(c) PROVE Current'
  <2>1. /\ \A o \in ops : o.slot # c
        /\ \A x \in port : x.slot # c
        /\ \A w \in Workers : ~Busy(w, c)
    BY <1>4, NothingLeft DEF Quiet
  <2>2. ASSUME NEW o \in ops'
        PROVE  /\ o.gen = gen'[o.slot] /\ o.sock = sock'[o.slot]
               /\ owner'[o.sock] = <<o.slot, o.gen>>
    <3>1. CASE o \in ops
      <4>1. /\ o.slot \in Slots /\ o.slot # c /\ o.gen = gen[o.slot] /\ o.sock = sock[o.slot]
            /\ o.sock \in Sockets /\ owner[o.sock] = <<o.slot, o.gen>>
        BY <2>1, <3>1, OpsTyped DEF Current
      <4>2. owner[o.sock] # Free
        BY <4>1 DEF Free
      <4>3. owner'[o.sock] = owner[o.sock]
        <5>1. ASSUME NEW s \in Sockets, Available(s), owner' = [owner EXCEPT ![s] = <<c, gen'[c]>>]
              PROVE  owner'[o.sock] = owner[o.sock]
          BY <4>1, <4>2, <5>1 DEF Available, TypeOK
        <5> QED BY <1>4, <5>1, AcceptEffect
      <4> QED BY <1>4, <4>1, <4>3, AcceptEffect
    <3>2. CASE o \notin ops
      <4>1. PICK s \in Sockets : /\ sock'[c] = s
                                 /\ owner' = [owner EXCEPT ![s] = <<c, gen'[c]>>]
                                 /\ o.slot = c /\ o.gen = gen'[c] /\ o.sock = s
        BY <1>4, <3>2, AcceptEffect
      <4> QED BY <4>1 DEF TypeOK
    <3> QED BY <3>1, <3>2
  <2>3. \A x \in port' : x.gen = gen'[x.slot]
    BY <1>4, <2>1, AcceptEffect, PortTyped DEF Current
  <2>4. ASSUME NEW w \in Workers, Working(w)' PROVE job'[w].gen = gen'[job'[w].slot]
    <3>1. /\ pc[w] # "wait" /\ job'[w] = job[w] /\ job[w].slot \in Slots
          /\ job[w].gen = gen[job[w].slot] /\ job[w].slot # c
      BY <1>4, <2>1, <2>4, AcceptEffect, JobTyped DEF Current, Working, Busy
    <3> QED BY <1>4, <3>1, AcceptEffect
  <2> QED BY <2>2, <2>3, <2>4 DEF Current
<1>5. ASSUME NEW w \in Workers, NEW x \in port, GetCompletion(w, x) PROVE Current'
  <2>1. /\ \A y \in port' : y \in port
        /\ UNCHANGED <<ops, gen, sock, owner>>
    BY <1>5 DEF GetCompletion, slotVars
  <2>2. ASSUME NEW v \in Workers, Working(v)' PROVE job'[v].gen = gen[job'[v].slot]
    <3>1. (job'[v] = job[v] /\ Working(v)) \/ job'[v] = x
      BY <1>5, <2>2, GetEffect DEF Working
    <3> QED BY <3>1 DEF Current
  <2> QED BY <2>1, <2>2 DEF Current
<1>6. ASSUME NEW w \in Workers, NEW x \in port, FailedAccept(w, x) PROVE Current'
  BY <1>6 DEF Current, FailedAccept, slotVars, kernel, timeVars, Working
<1>7. ASSUME NEW w \in Workers, OnConnect(w) PROVE Current'
  <2>1. \A o \in ops' : o \in ops \/ (Live(job[w].slot) /\ o = Operation("recv", job[w].slot))
    BY <1>7 DEF OnConnect
  <2>2. UNCHANGED <<gen, sock, owner, port>>
    BY <1>7 DEF OnConnect
  <2>3. ASSUME NEW o \in ops'
        PROVE  o.gen = gen[o.slot] /\ o.sock = sock[o.slot] /\ owner[o.sock] = <<o.slot, o.gen>>
    <3>1. CASE o \in ops
      BY <3>1 DEF Current
    <3>2. CASE Live(job[w].slot) /\ o = Operation("recv", job[w].slot)
      BY <1>7, <3>2, HandlerEffect DEF OwnHandles, Operation, Handler
    <3> QED BY <2>1, <3>1, <3>2
  <2>4. \A v \in Workers : Working(v)' => job'[v].gen = gen[job'[v].slot]
    BY <1>7, HandlerEffect DEF Current, Working, Handler
  <2> QED BY <2>2, <2>3, <2>4 DEF Current
<1>8. ASSUME NEW w \in Workers, ReportConnect(w) PROVE Current'
  <2>1. UNCHANGED <<gen, sock, owner, ops, port>>
    BY <1>8 DEF ReportConnect, slotVars, kernel
  <2>2. ASSUME NEW v \in Workers, Working(v)' PROVE job'[v].gen = gen[job'[v].slot]
    BY <1>8, <2>2, HandlerEffect DEF Current, Working, Handler
  <2> QED BY <2>1, <2>2 DEF Current
<1>9. ASSUME NEW w \in Workers, Receive(w) PROVE Current'
  <2>1. \A o \in ops' : o \in ops \/ (Live(job[w].slot) /\ o = Operation("recv", job[w].slot))
    BY <1>9 DEF Receive
  <2>2. UNCHANGED <<gen, sock, owner, port>>
    BY <1>9 DEF Receive
  <2>3. ASSUME NEW o \in ops'
        PROVE  o.gen = gen[o.slot] /\ o.sock = sock[o.slot] /\ owner[o.sock] = <<o.slot, o.gen>>
    <3>1. CASE o \in ops
      BY <3>1 DEF Current
    <3>2. CASE Live(job[w].slot) /\ o = Operation("recv", job[w].slot)
      BY <1>9, <3>2, HandlerEffect DEF OwnHandles, Operation, Handler
    <3> QED BY <2>1, <3>1, <3>2
  <2>4. \A v \in Workers : Working(v)' => job'[v].gen = gen[job'[v].slot]
    BY <1>9, HandlerEffect DEF Current, Working, Handler
  <2> QED BY <2>2, <2>3, <2>4 DEF Current
<1>10. ASSUME NEW w \in Workers, CheckConnected(w) PROVE Current'
  BY <1>10, HandlerEffect DEF Current, Handler, CheckConnected, slotVars, kernel, timeVars, Working
<1>11. ASSUME NEW w \in Workers, ClearConnect(w) PROVE Current'
  BY <1>11, HandlerEffect DEF Current, Handler, ClearConnect, slotVars, kernel, timeVars, Working
<1>12. ASSUME NEW w \in Workers, StampClosed(w) PROVE Current'
  BY <1>12, HandlerEffect DEF Current, Handler, StampClosed, slotVars, kernel, timeVars, Working
<1>13. ASSUME NEW w \in Workers, CloseHandle(w) PROVE Current'
  <2>1. UNCHANGED <<gen, sock>>
    BY <1>13, CloseEffect DEF slotVars
  <2>2. \A o \in ops : Completion(o, FALSE).gen = o.gen /\ Completion(o, FALSE).slot = o.slot
    BY CompletionTyped
  <2>3. \A v \in Workers : Working(v)' => job'[v].gen = gen[job'[v].slot]
    BY <1>13, HandlerEffect DEF Current, Working, Handler
  <2>4. ASSUME NEW x \in port' PROVE x.gen = gen[x.slot]
    <3>1. CASE x \in port
      BY <3>1 DEF Current
    <3>2. ASSUME NEW o \in ops, x = Completion(o, FALSE) PROVE x.gen = gen[x.slot]
      BY <2>2, <3>2 DEF Current
    <3>3. x \in port \/ \E o \in ops : x = Completion(o, FALSE)
      BY <1>13, CloseEffect DEF kernel
    <3> QED BY <3>1, <3>2, <3>3
  <2>5. ASSUME NEW o \in ops'
        PROVE  o.gen = gen[o.slot] /\ o.sock = sock[o.slot] /\ owner'[o.sock] = <<o.slot, o.gen>>
    <3>1. CASE UNCHANGED kernel
      BY <2>5, <3>1 DEF Current, kernel
    <3>2. CASE ~UNCHANGED kernel
      <4>1. /\ o \in ops /\ o.sock # sock[job[w].slot]
            /\ owner' = [owner EXCEPT ![sock[job[w].slot]] = Free]
        BY <1>13, <2>5, <3>2, CloseEffect
      <4>2. owner'[o.sock] = owner[o.sock]
        BY <4>1, OpsTyped DEF TypeOK
      <4> QED BY <4>1, <4>2 DEF Current
    <3> QED BY <3>1, <3>2
  <2> QED BY <2>1, <2>3, <2>4, <2>5 DEF Current
<1>14. ASSUME NEW w \in Workers, Invalidate(w) PROVE Current'
  <2>1. ~Live(job[w].slot) /\ job[w].slot \in Slots
    BY <1>14, HandlerEffect DEF ClosedIsDead, Handler, Invalidate
  <2>2. \A o \in ops : o.slot # job[w].slot /\ o.slot \in Slots
    BY <2>1, LiveOwned, OpsTyped
  <2>3. \A d \in Slots : d # job[w].slot => sock'[d] = sock[d]
    BY <1>14 DEF Invalidate, TypeOK
  <2>4. UNCHANGED <<gen, kernel>>
    BY <1>14 DEF Invalidate
  <2> QED BY <1>14, <2>2, <2>3, <2>4, HandlerEffect DEF Current, Working, Handler, kernel
<1>15. ASSUME NEW w \in Workers, ReportClose(w) PROVE Current'
  <2>1. UNCHANGED <<gen, sock, owner, ops, port>>
    BY <1>15 DEF ReportClose, slotVars, kernel
  <2>2. ASSUME NEW v \in Workers, Working(v)' PROVE job'[v].gen = gen[job'[v].slot]
    BY <1>15, <2>2, HandlerEffect DEF Current, Working, Handler
  <2> QED BY <2>1, <2>2 DEF Current
<1>16. ASSUME NEW o \in ops, NEW ok \in BOOLEAN, Complete(o, ok) PROVE Current'
  <2>1. Completion(o, ok).gen = o.gen /\ Completion(o, ok).slot = o.slot
    BY CompletionTyped
  <2> QED BY <1>16, <2>1 DEF Current, Working, Complete, slotVars
<1>17. ASSUME NEW c \in Slots, PostSend(c) PROVE Current'
  <2>1. /\ Operation("send", c).slot = c /\ Operation("send", c).gen = gen[c]
        /\ Operation("send", c).sock = sock[c] /\ owner[sock[c]] = <<c, gen[c]>>
    BY <1>17 DEF Operation, PostSend, OwnHandles
  <2> QED BY <1>17, <2>1 DEF Current, Working, PostSend, slotVars
<1>18. ASSUME Tick PROVE Current'
  BY <1>18 DEF Current, Tick, slotVars, kernel, timeVars, Working
<1>19. CASE UNCHANGED vars
  BY <1>19 DEF Current, vars, Working
<1> QED BY <1>1, <1>2, <1>3, <1>4, <1>5, <1>6, <1>7, <1>8, <1>9, <1>10, <1>11, <1>12, <1>13, <1>14, <1>15, <1>16, <1>17, <1>18, <1>19
       DEF Next, Accepter, Worker, Environment

(* An open handle stored in a slot was opened for its current connection.  *)
LEMMA OwnHandlesStep ==
    ASSUME TypeOK, OwnHandles, ~HandlesRecycled, Next \/ UNCHANGED vars
    PROVE  OwnHandles'
<1>1. ASSUME ReadClock PROVE OwnHandles'
  BY <1>1 DEF OwnHandles, ReadClock, slotVars, kernel, timeVars, Live
<1>2. ASSUME NEW c \in Slots, LookAt(c) PROVE OwnHandles'
  BY <1>2 DEF OwnHandles, LookAt, slotVars, kernel, timeVars, Live
<1>3. ASSUME Measure PROVE OwnHandles'
  BY <1>3 DEF OwnHandles, Measure, slotVars, kernel, timeVars, Live
<1>4. ASSUME NEW c \in Slots, PostAccept(c) PROVE OwnHandles'
  <2>1. ASSUME NEW d \in Slots, Live(d)' PROVE owner'[sock'[d]] = <<d, gen'[d]>>
    <3>1. CASE sock'[c] = NoSocket /\ UNCHANGED <<owner, ops>>
      <4>1. d # c
        BY <2>1, <3>1, SlotsAssumption DEF Live
      <4> QED BY <1>4, <2>1, <3>1, <4>1, AcceptEffect DEF OwnHandles, Live
    <3>2. ASSUME NEW s \in Sockets, Available(s), sock'[c] = s,
                 owner' = [owner EXCEPT ![s] = <<c, gen'[c]>>]
          PROVE  owner'[sock'[d]] = <<d, gen'[d]>>
      <4>1. CASE d = c
        BY <3>2, <4>1 DEF TypeOK
      <4>2. CASE d # c
        <5>1. sock'[d] = sock[d] /\ gen'[d] = gen[d] /\ sock[d] # s
          BY <1>4, <3>2, <4>2, AcceptEffect DEF Available
        <5>2. sock[d] \in Sockets /\ owner'[sock[d]] = owner[sock[d]]
          BY <2>1, <3>2, <5>1 DEF Live, TypeOK
        <5> QED BY <2>1, <5>1, <5>2 DEF OwnHandles, Live
      <4> QED BY <4>1, <4>2
    <3> QED BY <1>4, <3>1, <3>2, AcceptEffect
  <2> QED BY <2>1 DEF OwnHandles
<1>5. ASSUME NEW w \in Workers, NEW x \in port, GetCompletion(w, x) PROVE OwnHandles'
  BY <1>5, GetEffect, PortTyped DEF OwnHandles, GetCompletion, slotVars, timeVars, Live
<1>6. ASSUME NEW w \in Workers, NEW x \in port, FailedAccept(w, x) PROVE OwnHandles'
  BY <1>6 DEF OwnHandles, FailedAccept, slotVars, kernel, timeVars, Live
<1>7. ASSUME NEW w \in Workers, OnConnect(w) PROVE OwnHandles'
  BY <1>7 DEF OwnHandles, Live, OnConnect, slotVars, kernel
<1>8. ASSUME NEW w \in Workers, ReportConnect(w) PROVE OwnHandles'
  BY <1>8 DEF OwnHandles, Live, ReportConnect, slotVars, kernel
<1>9. ASSUME NEW w \in Workers, Receive(w) PROVE OwnHandles'
  BY <1>9 DEF OwnHandles, Live, Receive, slotVars, kernel
<1>10. ASSUME NEW w \in Workers, CheckConnected(w) PROVE OwnHandles'
  BY <1>10 DEF OwnHandles, Live, CheckConnected, slotVars, kernel
<1>11. ASSUME NEW w \in Workers, ClearConnect(w) PROVE OwnHandles'
  BY <1>11 DEF OwnHandles, Live, ClearConnect, slotVars, kernel
<1>12. ASSUME NEW w \in Workers, StampClosed(w) PROVE OwnHandles'
  BY <1>12 DEF OwnHandles, Live, StampClosed, slotVars, kernel
<1>13. ASSUME NEW w \in Workers, CloseHandle(w) PROVE OwnHandles'
  <2>1. UNCHANGED <<gen, sock>>
    BY <1>13, CloseEffect DEF slotVars
  <2>2. CASE UNCHANGED kernel
    BY <2>1, <2>2 DEF OwnHandles, Live, kernel
  <2>3. CASE ~UNCHANGED kernel
    <3>1. owner' = [owner EXCEPT ![sock[job[w].slot]] = Free]
      BY <1>13, <2>3, CloseEffect
    <3>2. \A s \in Sockets : owner'[s] = owner[s] \/ owner'[s] = Free
      BY <3>1 DEF TypeOK
    <3> QED BY <2>1, <3>2 DEF OwnHandles, Live
  <2> QED BY <2>2, <2>3
<1>14. ASSUME NEW w \in Workers, Invalidate(w) PROVE OwnHandles'
  <2>1. /\ sock' = [sock EXCEPT ![job[w].slot] = NoSocket] /\ UNCHANGED <<gen, owner>>
    BY <1>14 DEF Invalidate, kernel
  <2>2. \A d \in Slots : sock'[d] = sock[d] \/ sock'[d] = NoSocket
    BY <2>1 DEF TypeOK
  <2> QED BY <2>1, <2>2, SlotsAssumption DEF OwnHandles, Live
<1>15. ASSUME NEW w \in Workers, ReportClose(w) PROVE OwnHandles'
  BY <1>15 DEF OwnHandles, Live, ReportClose, slotVars, kernel
<1>16. ASSUME NEW o \in ops, NEW ok \in BOOLEAN, Complete(o, ok) PROVE OwnHandles'
  BY <1>16 DEF OwnHandles, Complete, slotVars, kernel, timeVars, Live
<1>17. ASSUME NEW c \in Slots, PostSend(c) PROVE OwnHandles'
  BY <1>17 DEF OwnHandles, PostSend, slotVars, kernel, timeVars, Live
<1>18. ASSUME Tick PROVE OwnHandles'
  BY <1>18 DEF OwnHandles, Tick, slotVars, kernel, timeVars, Live
<1>19. CASE UNCHANGED vars
  BY <1>19 DEF OwnHandles, vars, Live
<1> QED BY <1>1, <1>2, <1>3, <1>4, <1>5, <1>6, <1>7, <1>8, <1>9, <1>10, <1>11, <1>12, <1>13, <1>14, <1>15, <1>16, <1>17, <1>18, <1>19
       DEF Next, Accepter, Worker, Environment

(* A connected slot bears no close time.                                    *)
LEMMA ConnectedStep ==
    ASSUME IInv, Next \/ UNCHANGED vars
    PROVE  ConnectedUndated'
<1> USE DEF IInv
<1>1. ASSUME ReadClock PROVE ConnectedUndated'
  BY <1>1 DEF ConnectedUndated, ReadClock, slotVars, kernel, timeVars
<1>2. ASSUME NEW c \in Slots, LookAt(c) PROVE ConnectedUndated'
  BY <1>2 DEF ConnectedUndated, LookAt, slotVars, kernel, timeVars
<1>3. ASSUME Measure PROVE ConnectedUndated'
  BY <1>3 DEF ConnectedUndated, Measure, slotVars, kernel, timeVars
<1>4. ASSUME NEW c \in Slots, PostAccept(c) PROVE ConnectedUndated'
  BY <1>4, AcceptEffect DEF ConnectedUndated, TypeOK
<1>5. ASSUME NEW w \in Workers, NEW x \in port, GetCompletion(w, x) PROVE ConnectedUndated'
  BY <1>5, GetEffect, PortTyped DEF ConnectedUndated, GetCompletion, slotVars, timeVars
<1>6. ASSUME NEW w \in Workers, NEW x \in port, FailedAccept(w, x) PROVE ConnectedUndated'
  BY <1>6 DEF ConnectedUndated, FailedAccept, slotVars, kernel, timeVars
<1>7. ASSUME NEW w \in Workers, OnConnect(w) PROVE ConnectedUndated'
  <2>1. closedAt[job[w].slot] = Never
    BY <1>7 DEF AcceptAlone, WorkerAlone, Fresh, OnConnect
  <2> QED BY <1>7, <2>1 DEF ConnectedUndated, OnConnect, TypeOK
<1>8. ASSUME NEW w \in Workers, ReportConnect(w) PROVE ConnectedUndated'
  BY <1>8, HandlerEffect DEF ConnectedUndated, Handler, ReportConnect, slotVars, kernel, timeVars
<1>9. ASSUME NEW w \in Workers, Receive(w) PROVE ConnectedUndated'
  BY <1>9, HandlerEffect DEF ConnectedUndated, Handler, Receive, slotVars, kernel, timeVars
<1>10. ASSUME NEW w \in Workers, CheckConnected(w) PROVE ConnectedUndated'
  BY <1>10, HandlerEffect DEF ConnectedUndated, Handler, CheckConnected, slotVars, kernel, timeVars
<1>11. ASSUME NEW w \in Workers, ClearConnect(w) PROVE ConnectedUndated'
  BY <1>11 DEF ConnectedUndated, ClearConnect, TypeOK
<1>12. ASSUME NEW w \in Workers, StampClosed(w) PROVE ConnectedUndated'
  <2>1. ~isConnect[job[w].slot]
    BY <1>12 DEF ClosingIsCleared, StampClosed
  <2> QED BY <1>12, <2>1 DEF ConnectedUndated, StampClosed, TypeOK
<1>13. ASSUME NEW w \in Workers, CloseHandle(w) PROVE ConnectedUndated'
  BY <1>13, HandlerEffect DEF ConnectedUndated, Handler, CloseHandle, slotVars, kernel, timeVars
<1>14. ASSUME NEW w \in Workers, Invalidate(w) PROVE ConnectedUndated'
  BY <1>14, HandlerEffect DEF ConnectedUndated, Handler, Invalidate, slotVars, kernel, timeVars
<1>15. ASSUME NEW w \in Workers, ReportClose(w) PROVE ConnectedUndated'
  BY <1>15, HandlerEffect DEF ConnectedUndated, Handler, ReportClose, slotVars, kernel, timeVars
<1>16. ASSUME NEW o \in ops, NEW ok \in BOOLEAN, Complete(o, ok) PROVE ConnectedUndated'
  BY <1>16 DEF ConnectedUndated, Complete, slotVars, kernel, timeVars
<1>17. ASSUME NEW c \in Slots, PostSend(c) PROVE ConnectedUndated'
  BY <1>17 DEF ConnectedUndated, PostSend, slotVars, kernel, timeVars
<1>18. ASSUME Tick PROVE ConnectedUndated'
  BY <1>18 DEF ConnectedUndated, Tick, slotVars, kernel, timeVars
<1>19. CASE UNCHANGED vars
  BY <1>19 DEF ConnectedUndated, vars
<1> QED BY <1>1, <1>2, <1>3, <1>4, <1>5, <1>6, <1>7, <1>8, <1>9, <1>10, <1>11, <1>12, <1>13, <1>14, <1>15, <1>16, <1>17, <1>18, <1>19
       DEF Next, Accepter, Worker, Environment

(* A slot stays unconnected while a handler closes it.                      *)
LEMMA ClearedStep ==
    ASSUME IInv, Next \/ UNCHANGED vars
    PROVE  ClosingIsCleared'
<1> USE DEF IInv
<1>1. ASSUME ReadClock PROVE ClosingIsCleared'
  BY <1>1 DEF ClosingIsCleared, ReadClock, slotVars, kernel, timeVars
<1>2. ASSUME NEW c \in Slots, LookAt(c) PROVE ClosingIsCleared'
  BY <1>2 DEF ClosingIsCleared, LookAt, slotVars, kernel, timeVars
<1>3. ASSUME Measure PROVE ClosingIsCleared'
  BY <1>3 DEF ClosingIsCleared, Measure, slotVars, kernel, timeVars
<1>4. ASSUME NEW c \in Slots, PostAccept(c) PROVE ClosingIsCleared'
  BY <1>4, AcceptEffect DEF ClosingIsCleared
<1>5. ASSUME NEW w \in Workers, NEW x \in port, GetCompletion(w, x) PROVE ClosingIsCleared'
  BY <1>5, GetEffect, PortTyped DEF ClosingIsCleared, GetCompletion, slotVars, timeVars
<1>6. ASSUME NEW w \in Workers, NEW x \in port, FailedAccept(w, x) PROVE ClosingIsCleared'
  BY <1>6 DEF ClosingIsCleared, FailedAccept, slotVars, kernel, timeVars
<1>7. ASSUME NEW w \in Workers, OnConnect(w) PROVE ClosingIsCleared'
  <2>1. OnlyWorkers(job[w].slot, {w}) /\ job[w].slot \in Slots
    BY <1>7, HandlerEffect DEF AcceptAlone, WorkerAlone, OnConnect, Handler
  <2>2. ASSUME NEW v \in Workers, pc'[v] \in {"stamp", "closesocket", "invalidate", "onclose"}
        PROVE  ~isConnect'[job'[v].slot]
    <3>1. v # w /\ pc'[v] = pc[v] /\ job'[v] = job[v] /\ pc[v] # "wait"
      BY <1>7, <2>2, HandlerEffect DEF Handler
    <3>2. job[v].slot # job[w].slot /\ job[v].slot \in Slots
      BY <2>1, <3>1, JobTyped DEF OnlyWorkers, Busy
    <3>3. isConnect'[job[v].slot] = isConnect[job[v].slot]
      BY <1>7, <2>1, <3>2 DEF OnConnect, TypeOK
    <3> QED BY <2>2, <3>1, <3>3 DEF ClosingIsCleared
  <2> QED BY <2>2 DEF ClosingIsCleared
<1>8. ASSUME NEW w \in Workers, ReportConnect(w) PROVE ClosingIsCleared'
  BY <1>8, HandlerEffect DEF ClosingIsCleared, Handler, ReportConnect, slotVars, kernel, timeVars
<1>9. ASSUME NEW w \in Workers, Receive(w) PROVE ClosingIsCleared'
  BY <1>9, HandlerEffect DEF ClosingIsCleared, Handler, Receive, slotVars, kernel, timeVars
<1>10. ASSUME NEW w \in Workers, CheckConnected(w) PROVE ClosingIsCleared'
  BY <1>10, HandlerEffect DEF ClosingIsCleared, Handler, CheckConnected, slotVars, kernel, timeVars
<1>11. ASSUME NEW w \in Workers, ClearConnect(w) PROVE ClosingIsCleared'
  <2>1. /\ job[w].slot \in Slots
        /\ \A d \in Slots : isConnect'[d] => isConnect[d]
        /\ ~isConnect'[job[w].slot]
    BY <1>11, HandlerEffect DEF ClearConnect, TypeOK, Handler
  <2>2. ASSUME NEW v \in Workers, pc'[v] \in {"stamp", "closesocket", "invalidate", "onclose"}
        PROVE  ~isConnect'[job'[v].slot]
    <3>1. job'[v] = job[v] /\ job[v].slot \in Slots /\ (v # w => pc'[v] = pc[v])
      BY <1>11, <2>2, HandlerEffect, JobTyped DEF Handler
    <3>2. CASE v = w
      BY <2>1, <3>1, <3>2
    <3>3. CASE v # w
      BY <2>1, <2>2, <3>1, <3>3 DEF ClosingIsCleared
    <3> QED BY <3>2, <3>3
  <2> QED BY <2>2 DEF ClosingIsCleared
<1>12. ASSUME NEW w \in Workers, StampClosed(w) PROVE ClosingIsCleared'
  BY <1>12, HandlerEffect DEF ClosingIsCleared, Handler, StampClosed, slotVars, kernel, timeVars
<1>13. ASSUME NEW w \in Workers, CloseHandle(w) PROVE ClosingIsCleared'
  BY <1>13, HandlerEffect DEF ClosingIsCleared, Handler, CloseHandle, slotVars, kernel, timeVars
<1>14. ASSUME NEW w \in Workers, Invalidate(w) PROVE ClosingIsCleared'
  BY <1>14, HandlerEffect DEF ClosingIsCleared, Handler, Invalidate, slotVars, kernel, timeVars
<1>15. ASSUME NEW w \in Workers, ReportClose(w) PROVE ClosingIsCleared'
  BY <1>15, HandlerEffect DEF ClosingIsCleared, Handler, ReportClose, slotVars, kernel, timeVars
<1>16. ASSUME NEW o \in ops, NEW ok \in BOOLEAN, Complete(o, ok) PROVE ClosingIsCleared'
  BY <1>16 DEF ClosingIsCleared, Complete, slotVars, kernel, timeVars
<1>17. ASSUME NEW c \in Slots, PostSend(c) PROVE ClosingIsCleared'
  BY <1>17 DEF ClosingIsCleared, PostSend, slotVars, kernel, timeVars
<1>18. ASSUME Tick PROVE ClosingIsCleared'
  BY <1>18 DEF ClosingIsCleared, Tick, slotVars, kernel, timeVars
<1>19. CASE UNCHANGED vars
  BY <1>19 DEF ClosingIsCleared, vars
<1> QED BY <1>1, <1>2, <1>3, <1>4, <1>5, <1>6, <1>7, <1>8, <1>9, <1>10, <1>11, <1>12, <1>13, <1>14, <1>15, <1>16, <1>17, <1>18, <1>19
       DEF Next, Accepter, Worker, Environment

(* The handle of a slot stays closed until its close is reported.          *)
LEMMA DeadStep ==
    ASSUME IInv, ~HandlesRecycled, Next \/ UNCHANGED vars
    PROVE  ClosedIsDead'
<1> USE DEF IInv
<1>1. ASSUME ReadClock PROVE ClosedIsDead'
  BY <1>1 DEF ClosedIsDead, ReadClock, slotVars, kernel, timeVars, Live
<1>2. ASSUME NEW c \in Slots, LookAt(c) PROVE ClosedIsDead'
  BY <1>2 DEF ClosedIsDead, LookAt, slotVars, kernel, timeVars, Live
<1>3. ASSUME Measure PROVE ClosedIsDead'
  BY <1>3 DEF ClosedIsDead, Measure, slotVars, kernel, timeVars, Live
<1>4. ASSUME NEW c \in Slots, PostAccept(c) PROVE ClosedIsDead'
  <2>1. ASSUME NEW v \in Workers, pc'[v] \in {"invalidate", "onclose"},
               NEW d \in Slots, d = job'[v].slot
        PROVE  ~Live(d)'
    <3>1. pc'[v] = pc[v] /\ job'[v] = job[v] /\ d # c /\ ~Live(d)
      BY <1>4, <2>1, AcceptEffect, NothingLeft DEF ClosedIsDead, Busy, Quiet
    <3>2. sock'[d] = sock[d]
      BY <1>4, <3>1, AcceptEffect
    <3>3. CASE UNCHANGED owner
      BY <3>1, <3>2, <3>3 DEF Live
    <3>4. ASSUME NEW s \in Sockets, Available(s), owner' = [owner EXCEPT ![s] = <<c, gen'[c]>>]
          PROVE  ~Live(d)'
      <4>1. s # sock[d]
        BY <3>1, <3>4 DEF Available
      <4> QED BY <3>1, <3>2, <3>4, <4>1 DEF Live, TypeOK
    <3> QED BY <1>4, <3>3, <3>4, AcceptEffect
  <2>2. \A v \in Workers : pc'[v] # "wait" => job'[v].slot \in Slots
    BY <1>4, AcceptEffect, JobTyped
  <2> QED BY <2>1, <2>2 DEF ClosedIsDead
<1>5. ASSUME NEW w \in Workers, NEW x \in port, GetCompletion(w, x) PROVE ClosedIsDead'
  BY <1>5, GetEffect, PortTyped DEF ClosedIsDead, GetCompletion, slotVars, timeVars, Live
<1>6. ASSUME NEW w \in Workers, NEW x \in port, FailedAccept(w, x) PROVE ClosedIsDead'
  BY <1>6 DEF ClosedIsDead, FailedAccept, slotVars, kernel, timeVars, Live
<1>7. ASSUME NEW w \in Workers, OnConnect(w) PROVE ClosedIsDead'
  BY <1>7, HandlerEffect DEF ClosedIsDead, Handler, OnConnect, slotVars, kernel, timeVars, Live
<1>8. ASSUME NEW w \in Workers, ReportConnect(w) PROVE ClosedIsDead'
  BY <1>8, HandlerEffect DEF ClosedIsDead, Handler, ReportConnect, slotVars, kernel, timeVars, Live
<1>9. ASSUME NEW w \in Workers, Receive(w) PROVE ClosedIsDead'
  BY <1>9, HandlerEffect DEF ClosedIsDead, Handler, Receive, slotVars, kernel, timeVars, Live
<1>10. ASSUME NEW w \in Workers, CheckConnected(w) PROVE ClosedIsDead'
  BY <1>10, HandlerEffect DEF ClosedIsDead, Handler, CheckConnected, slotVars, kernel, timeVars, Live
<1>11. ASSUME NEW w \in Workers, ClearConnect(w) PROVE ClosedIsDead'
  BY <1>11, HandlerEffect DEF ClosedIsDead, Handler, ClearConnect, slotVars, kernel, timeVars, Live
<1>12. ASSUME NEW w \in Workers, StampClosed(w) PROVE ClosedIsDead'
  BY <1>12, HandlerEffect DEF ClosedIsDead, Handler, StampClosed, slotVars, kernel, timeVars, Live
<1>13. ASSUME NEW w \in Workers, CloseHandle(w) PROVE ClosedIsDead'
  <2>1. sock' = sock /\ job[w].slot \in Slots
    BY <1>13, CloseEffect, HandlerEffect DEF slotVars, Handler
  <2>2. ASSUME NEW d \in Slots, Live(d)' PROVE Live(d) /\ d # job[w].slot
    <3>1. CASE ~Live(job[w].slot) /\ UNCHANGED kernel
      BY <2>1, <2>2, <3>1 DEF Live, kernel
    <3>2. CASE owner' = [owner EXCEPT ![sock[job[w].slot]] = Free]
      BY <2>1, <2>2, <3>2 DEF Live, TypeOK
    <3> QED BY <1>13, <3>1, <3>2, CloseEffect
  <2>3. ASSUME NEW v \in Workers, pc'[v] \in {"invalidate", "onclose"},
               NEW d \in Slots, d = job'[v].slot
        PROVE  ~Live(d)'
    <3>1. job'[v] = job[v] /\ (v # w => pc'[v] = pc[v])
      BY <1>13, <2>3, HandlerEffect DEF Handler
    <3> QED BY <2>2, <2>3, <3>1 DEF ClosedIsDead
  <2>4. \A v \in Workers : pc'[v] # "wait" => job'[v].slot \in Slots
    BY <1>13, HandlerEffect, JobTyped DEF Handler
  <2> QED BY <2>3, <2>4 DEF ClosedIsDead
<1>14. ASSUME NEW w \in Workers, Invalidate(w) PROVE ClosedIsDead'
  <2>1. /\ sock' = [sock EXCEPT ![job[w].slot] = NoSocket] /\ UNCHANGED owner
        /\ pc[w] = "invalidate"
    BY <1>14 DEF Invalidate, kernel
  <2>2. \A d \in Slots : Live(d)' => Live(d)
    BY <2>1, SlotsAssumption DEF Live, TypeOK
  <2>3. ASSUME NEW v \in Workers, pc'[v] \in {"invalidate", "onclose"},
               NEW d \in Slots, d = job'[v].slot
        PROVE  ~Live(d)'
    <3>1. job'[v] = job[v] /\ pc[v] \in {"invalidate", "onclose"}
      BY <1>14, <2>1, <2>3, HandlerEffect DEF Handler
    <3> QED BY <2>2, <2>3, <3>1 DEF ClosedIsDead
  <2>4. \A v \in Workers : pc'[v] # "wait" => job'[v].slot \in Slots
    BY <1>14, HandlerEffect, JobTyped DEF Handler
  <2> QED BY <2>3, <2>4 DEF ClosedIsDead
<1>15. ASSUME NEW w \in Workers, ReportClose(w) PROVE ClosedIsDead'
  BY <1>15, HandlerEffect DEF ClosedIsDead, Handler, ReportClose, slotVars, kernel, timeVars, Live
<1>16. ASSUME NEW o \in ops, NEW ok \in BOOLEAN, Complete(o, ok) PROVE ClosedIsDead'
  BY <1>16 DEF ClosedIsDead, Complete, slotVars, kernel, timeVars, Live
<1>17. ASSUME NEW c \in Slots, PostSend(c) PROVE ClosedIsDead'
  BY <1>17 DEF ClosedIsDead, PostSend, slotVars, kernel, timeVars, Live
<1>18. ASSUME Tick PROVE ClosedIsDead'
  BY <1>18 DEF ClosedIsDead, Tick, slotVars, kernel, timeVars, Live
<1>19. CASE UNCHANGED vars
  BY <1>19 DEF ClosedIsDead, vars, Live
<1> QED BY <1>1, <1>2, <1>3, <1>4, <1>5, <1>6, <1>7, <1>8, <1>9, <1>10, <1>11, <1>12, <1>13, <1>14, <1>15, <1>16, <1>17, <1>18, <1>19
       DEF Next, Accepter, Worker, Environment

----------------------------------------------------------------------------
(* A step that touches only slot c leaves the accepts of the other slots   *)
(* alone.                                                                  *)
LEMMA OtherSlots ==
    ASSUME TypeOK, TypeOK', AcceptAlone, NEW c \in Slots,
           \A d \in Slots : d # c => closedAt'[d] = closedAt[d] /\ isConnect'[d] = isConnect[d],
           \A o \in ops' : o \in ops \/ o.slot = c,
           \A x \in port' : x \in port \/ x.slot = c,
           \A w \in Workers : pc'[w] # "wait" =>
               (pc[w] # "wait" /\ job'[w] = job[w] /\ pc'[w] = pc[w]) \/ job'[w].slot = c
    PROVE  /\ \A o \in ops' : o.kind = "accept" /\ o.slot # c => OpAlone(o)'
           /\ \A x \in port' : x.kind = "accept" /\ x.slot # c => PortAlone(x)'
           /\ \A w \in Workers : pc'[w] = "accepted" /\ job'[w].slot # c => WorkerAlone(w)'
<1>1. \A d \in Slots : d # c => (Fresh(d) => Fresh(d)')
  BY DEF Fresh
<1>2. \A d \in Slots : d # c => /\ \A o \in ops' : o.slot = d => o \in ops
                                /\ \A x \in port' : x.slot = d => x \in port
                                /\ \A w \in Workers : Busy(w, d)' => Busy(w, d)
  BY DEF Busy
<1>3. ASSUME NEW o \in ops', o.kind = "accept", o.slot # c PROVE OpAlone(o)'
  <2>1. o \in ops /\ o.slot \in Slots /\ o.slot # c
    BY <1>3, OpsTyped
  <2>2. OpAlone(o)
    BY <1>3, <2>1 DEF AcceptAlone
  <2> QED BY <1>1, <1>2, <2>1, <2>2 DEF OpAlone, OnlyOps, OnlyPort, OnlyWorkers
<1>4. ASSUME NEW x \in port', x.kind = "accept", x.slot # c PROVE PortAlone(x)'
  <2>1. x \in port /\ x.slot \in Slots /\ x.slot # c
    BY <1>4, PortTyped
  <2>2. PortAlone(x)
    BY <1>4, <2>1 DEF AcceptAlone
  <2> QED BY <1>1, <1>2, <2>1, <2>2 DEF PortAlone, OnlyOps, OnlyPort, OnlyWorkers
<1>5. ASSUME NEW w \in Workers, pc'[w] = "accepted", job'[w].slot # c PROVE WorkerAlone(w)'
  <2>1. /\ pc[w] = "accepted" /\ job'[w] = job[w]
        /\ job[w].slot \in Slots /\ job[w].slot # c
    BY <1>5, JobTyped
  <2>2. WorkerAlone(w)
    BY <2>1 DEF AcceptAlone
  <2> QED BY <1>1, <1>2, <2>1, <2>2 DEF WorkerAlone, OnlyOps, OnlyPort, OnlyWorkers
<1> QED BY <1>3, <1>4, <1>5

(* Slot c has no accept in any of the three places.                        *)
NoAccept(c) ==
    /\ \A o \in ops : o.slot = c => o.kind # "accept"
    /\ \A x \in port : x.slot = c => x.kind # "accept"
    /\ \A w \in Workers : Busy(w, c) => pc[w] # "accepted"

LEMMA NoAcceptLeft ==
    ASSUME TypeOK, TypeOK', AcceptAlone, NEW c \in Slots,
           \A d \in Slots : d # c => closedAt'[d] = closedAt[d] /\ isConnect'[d] = isConnect[d],
           \A o \in ops' : o \in ops \/ o.slot = c,
           \A x \in port' : x \in port \/ x.slot = c,
           \A w \in Workers : pc'[w] # "wait" =>
               (pc[w] # "wait" /\ job'[w] = job[w] /\ pc'[w] = pc[w]) \/ job'[w].slot = c,
           NoAccept(c)'
    PROVE  AcceptAlone'
BY OtherSlots DEF AcceptAlone, NoAccept, Busy

(* Beside a handler, a completion or I/O of another kind there is none.    *)
LEMMA NoneBeside ==
    ASSUME TypeOK, AcceptAlone, NEW c \in Slots
    PROVE  /\ \A o \in ops : o.slot = c /\ o.kind # "accept" => NoAccept(c)
           /\ \A x \in port : x.slot = c /\ x.kind # "accept" => NoAccept(c)
           /\ \A w \in Workers : Busy(w, c) /\ pc[w] # "accepted" => NoAccept(c)
           /\ ~Fresh(c) => NoAccept(c)
BY DEF AcceptAlone, OpAlone, PortAlone, WorkerAlone, OnlyOps, OnlyPort, OnlyWorkers,
       NoAccept, Busy

(* What a close aborts belongs to the slot closed.                         *)
LEMMA AbortedOfSlot ==
    ASSUME TypeOK, Current, OwnHandles, NEW c \in Slots, Live(c),
           NEW o \in ops, o.sock = sock[c]
    PROVE  o.slot = c
<1>1. owner[sock[c]] = <<o.slot, o.gen>> /\ owner[sock[c]] = <<c, gen[c]>>
  BY DEF Current, OwnHandles
<1> QED BY <1>1

(* No step puts anything beside an accept.                                  *)
LEMMA AloneStep ==
    ASSUME IInv, ~HandlesRecycled, Next \/ UNCHANGED vars
    PROVE  AcceptAlone'
<1> USE DEF IInv
<1>1. ASSUME ReadClock PROVE AcceptAlone'
  BY <1>1 DEF ReadClock, slotVars, kernel, AcceptAlone, OpAlone, PortAlone, WorkerAlone, Fresh,
         OnlyOps, OnlyPort, OnlyWorkers, Busy
<1>2. ASSUME NEW c \in Slots, LookAt(c) PROVE AcceptAlone'
  BY <1>2 DEF LookAt, slotVars, kernel, AcceptAlone, OpAlone, PortAlone, WorkerAlone, Fresh,
         OnlyOps, OnlyPort, OnlyWorkers, Busy
<1>3. ASSUME Measure PROVE AcceptAlone'
  BY <1>3 DEF Measure, slotVars, kernel, AcceptAlone, OpAlone, PortAlone, WorkerAlone, Fresh,
         OnlyOps, OnlyPort, OnlyWorkers, Busy
<1>4. ASSUME NEW c \in Slots, PostAccept(c) PROVE AcceptAlone'
  <2>1. /\ \A o \in ops : o.slot # c
        /\ \A x \in port : x.slot # c
        /\ \A w \in Workers : ~Busy(w, c)
    BY <1>4, NothingLeft DEF Quiet
  <2>2. /\ \A d \in Slots : d # c => closedAt'[d] = closedAt[d] /\ isConnect'[d] = isConnect[d]
        /\ Fresh(c)'
        /\ UNCHANGED <<port, pc, job>>
    <3>1. ~isConnect[c] /\ closedAt \in [Slots -> Nat \cup {Never}]
      BY <1>4, NothingLeft DEF Quiet, TypeOK
    <3> QED BY <1>4, <3>1, AcceptEffect DEF Fresh
  <2>3. \/ ops' = ops
        \/ \E o \in Operations : ops' = ops \cup {o} /\ o.kind = "accept" /\ o.slot = c
    BY <1>4, AcceptEffect
  <2>4. /\ \A o \in ops' : o.kind = "accept" /\ o.slot # c => OpAlone(o)'
        /\ \A x \in port' : x.kind = "accept" /\ x.slot # c => PortAlone(x)'
        /\ \A w \in Workers : pc'[w] = "accepted" /\ job'[w].slot # c => WorkerAlone(w)'
    BY <2>2, <2>3, OtherSlots, TypeStep
  <2>5. ASSUME NEW o \in ops', o.slot = c PROVE OpAlone(o)'
    <3>1. ops' = ops \cup {o}
      BY <2>1, <2>3, <2>5
    <3> QED BY <2>1, <2>2, <2>5, <3>1 DEF OpAlone, OnlyOps, OnlyPort, OnlyWorkers, Busy
  <2> QED BY <2>1, <2>2, <2>4, <2>5 DEF AcceptAlone, Busy
<1>5. ASSUME NEW w \in Workers, NEW x \in port, GetCompletion(w, x) PROVE AcceptAlone'
  <2>1. /\ x \in port /\ x.slot \in Slots
        /\ UNCHANGED <<closedAt, isConnect, ops>>
        /\ port' = port \ {x}
    BY <1>5, PortTyped DEF GetCompletion, slotVars
  <2>2. \A v \in Workers : pc'[v] # "wait" =>
            \/ v # w /\ pc[v] # "wait" /\ job'[v] = job[v] /\ pc'[v] = pc[v]
            \/ v = w /\ job'[v] = x /\ pc[v] = "wait" /\ (pc'[v] = "accepted" <=> x.kind = "accept")
    BY <1>5, GetEffect
  <2>3. /\ \A o \in ops' : o.kind = "accept" /\ o.slot # x.slot => OpAlone(o)'
        /\ \A y \in port' : y.kind = "accept" /\ y.slot # x.slot => PortAlone(y)'
        /\ \A v \in Workers : pc'[v] = "accepted" /\ job'[v].slot # x.slot => WorkerAlone(v)'
    BY <2>1, <2>2, OtherSlots, TypeStep
  <2>4. CASE x.kind # "accept"
    <3>1. NoAccept(x.slot)
      BY <2>1, <2>4, NoneBeside
    <3>2. NoAccept(x.slot)'
      BY <2>1, <2>2, <2>4, <3>1 DEF NoAccept, Busy
    <3> QED BY <2>1, <2>2, <3>2, NoAcceptLeft, TypeStep
  <2>5. CASE x.kind = "accept"
    <3>1. PortAlone(x)
      BY <2>1, <2>5 DEF AcceptAlone
    <3>2. /\ \A o \in ops' : o.slot # x.slot
          /\ \A y \in port' : y.slot # x.slot
          /\ \A v \in Workers : v # w => ~Busy(v, x.slot)'
      BY <2>1, <2>2, <3>1 DEF PortAlone, OnlyOps, OnlyPort, OnlyWorkers, Busy
    <3>3. Fresh(x.slot)'
      BY <2>1, <3>1 DEF PortAlone, Fresh
    <3>4. ASSUME NEW v \in Workers, pc'[v] = "accepted", job'[v].slot = x.slot
          PROVE  WorkerAlone(v)'
      <4>1. v = w
        BY <3>2, <3>4 DEF Busy
      <4> QED BY <3>2, <3>3, <3>4, <4>1 DEF WorkerAlone, OnlyOps, OnlyPort, OnlyWorkers
    <3> QED BY <2>3, <3>2, <3>4 DEF AcceptAlone
  <2> QED BY <2>4, <2>5
<1>6. ASSUME NEW w \in Workers, NEW x \in port, FailedAccept(w, x) PROVE AcceptAlone'
  BY <1>6 DEF FailedAccept, slotVars, kernel, AcceptAlone, OpAlone, PortAlone, WorkerAlone, Fresh,
         OnlyOps, OnlyPort, OnlyWorkers, Busy
<1>7. ASSUME NEW w \in Workers, OnConnect(w) PROVE AcceptAlone'
  <2>. PICK c \in Slots : c = job[w].slot
    BY <1>7, HandlerEffect DEF Handler
  <2>1. /\ c = job[w].slot /\ pc[w] # "wait" /\ Busy(w, c)
        /\ \A v \in Workers : pc'[v] # "wait" =>
               (pc[v] # "wait" /\ job'[v] = job[v] /\ pc'[v] = pc[v]) \/ job'[v].slot = c
    BY <1>7, HandlerEffect DEF Handler, Busy
  <2>2. /\ \A d \in Slots : d # c => closedAt'[d] = closedAt[d] /\ isConnect'[d] = isConnect[d]
        /\ UNCHANGED port
        /\ \A o \in ops' : o \in ops \/ (o.slot = c /\ o.kind = "recv")
    BY <1>7 DEF OnConnect, Operation, TypeOK
  <2>3. NoAccept(c)'
    <3>1. WorkerAlone(w) /\ pc'[w] # "accepted"
      BY <1>7, HandlerEffect DEF AcceptAlone, OnConnect, Handler
    <3> QED BY <1>7, <2>1, <2>2, <3>1, HandlerEffect
        DEF NoAccept, Busy, Handler, WorkerAlone, OnlyOps, OnlyPort, OnlyWorkers
  <2> QED BY <2>1, <2>2, <2>3, NoAcceptLeft, TypeStep
<1>8. ASSUME NEW w \in Workers, ReportConnect(w) PROVE AcceptAlone'
  <2>. PICK c \in Slots : c = job[w].slot
    BY <1>8, HandlerEffect DEF Handler
  <2>1. /\ c = job[w].slot /\ pc[w] # "wait" /\ Busy(w, c)
        /\ \A v \in Workers : pc'[v] # "wait" =>
               (pc[v] # "wait" /\ job'[v] = job[v] /\ pc'[v] = pc[v]) \/ job'[v].slot = c
    BY <1>8, HandlerEffect DEF Handler, Busy
  <2>2. /\ \A d \in Slots : d # c => closedAt'[d] = closedAt[d] /\ isConnect'[d] = isConnect[d]
        /\ UNCHANGED <<ops, port>>
    BY <1>8 DEF ReportConnect, TypeOK, slotVars, kernel
  <2>3. NoAccept(c)'
    <3>1. NoAccept(c) /\ pc'[w] # "accepted"
      BY <1>8, <2>1, NoneBeside, HandlerEffect DEF Handler
    <3> QED BY <1>8, <2>1, <2>2, <3>1, HandlerEffect DEF NoAccept, Busy, Handler
  <2> QED BY <2>1, <2>2, <2>3, NoAcceptLeft, TypeStep
<1>9. ASSUME NEW w \in Workers, Receive(w) PROVE AcceptAlone'
  <2>. PICK c \in Slots : c = job[w].slot
    BY <1>9, HandlerEffect DEF Handler
  <2>1. /\ c = job[w].slot /\ pc[w] # "wait" /\ Busy(w, c)
        /\ \A v \in Workers : pc'[v] # "wait" =>
               (pc[v] # "wait" /\ job'[v] = job[v] /\ pc'[v] = pc[v]) \/ job'[v].slot = c
    BY <1>9, HandlerEffect DEF Handler, Busy
  <2>2. /\ UNCHANGED <<closedAt, isConnect, port>>
        /\ \A o \in ops' : o \in ops \/ (o.slot = c /\ o.kind = "recv")
    BY <1>9 DEF Receive, Operation
  <2>3. NoAccept(c)'
    <3>1. NoAccept(c) /\ pc'[w] # "accepted"
      BY <1>9, <2>1, NoneBeside, HandlerEffect DEF Handler
    <3> QED BY <1>9, <2>1, <2>2, <3>1, HandlerEffect DEF NoAccept, Busy, Handler
  <2> QED BY <2>1, <2>2, <2>3, NoAcceptLeft, TypeStep
<1>10. ASSUME NEW w \in Workers, CheckConnected(w) PROVE AcceptAlone'
  <2>. PICK c \in Slots : c = job[w].slot
    BY <1>10, HandlerEffect DEF Handler
  <2>1. /\ c = job[w].slot /\ pc[w] # "wait" /\ Busy(w, c)
        /\ \A v \in Workers : pc'[v] # "wait" =>
               (pc[v] # "wait" /\ job'[v] = job[v] /\ pc'[v] = pc[v]) \/ job'[v].slot = c
    BY <1>10, HandlerEffect DEF Handler, Busy
  <2>2. /\ \A d \in Slots : d # c => closedAt'[d] = closedAt[d] /\ isConnect'[d] = isConnect[d]
        /\ UNCHANGED <<ops, port>>
    BY <1>10 DEF CheckConnected, TypeOK, slotVars, kernel
  <2>3. NoAccept(c)'
    <3>1. NoAccept(c) /\ pc'[w] # "accepted"
      BY <1>10, <2>1, NoneBeside, HandlerEffect DEF Handler
    <3> QED BY <1>10, <2>1, <2>2, <3>1, HandlerEffect DEF NoAccept, Busy, Handler
  <2> QED BY <2>1, <2>2, <2>3, NoAcceptLeft, TypeStep
<1>11. ASSUME NEW w \in Workers, ClearConnect(w) PROVE AcceptAlone'
  <2>. PICK c \in Slots : c = job[w].slot
    BY <1>11, HandlerEffect DEF Handler
  <2>1. /\ c = job[w].slot /\ pc[w] # "wait" /\ Busy(w, c)
        /\ \A v \in Workers : pc'[v] # "wait" =>
               (pc[v] # "wait" /\ job'[v] = job[v] /\ pc'[v] = pc[v]) \/ job'[v].slot = c
    BY <1>11, HandlerEffect DEF Handler, Busy
  <2>2. /\ \A d \in Slots : d # c => closedAt'[d] = closedAt[d] /\ isConnect'[d] = isConnect[d]
        /\ UNCHANGED <<ops, port>>
    BY <1>11 DEF ClearConnect, TypeOK, slotVars, kernel
  <2>3. NoAccept(c)'
    <3>1. NoAccept(c) /\ pc'[w] # "accepted"
      BY <1>11, <2>1, NoneBeside, HandlerEffect DEF Handler
    <3> QED BY <1>11, <2>1, <2>2, <3>1, HandlerEffect DEF NoAccept, Busy, Handler
  <2> QED BY <2>1, <2>2, <2>3, NoAcceptLeft, TypeStep
<1>12. ASSUME NEW w \in Workers, StampClosed(w) PROVE AcceptAlone'
  <2>. PICK c \in Slots : c = job[w].slot
    BY <1>12, HandlerEffect DEF Handler
  <2>1. /\ c = job[w].slot /\ pc[w] # "wait" /\ Busy(w, c)
        /\ \A v \in Workers : pc'[v] # "wait" =>
               (pc[v] # "wait" /\ job'[v] = job[v] /\ pc'[v] = pc[v]) \/ job'[v].slot = c
    BY <1>12, HandlerEffect DEF Handler, Busy
  <2>2. /\ \A d \in Slots : d # c => closedAt'[d] = closedAt[d] /\ isConnect'[d] = isConnect[d]
        /\ UNCHANGED <<ops, port>>
    BY <1>12 DEF StampClosed, TypeOK, slotVars, kernel
  <2>3. NoAccept(c)'
    <3>1. NoAccept(c) /\ pc'[w] # "accepted"
      BY <1>12, <2>1, NoneBeside, HandlerEffect DEF Handler
    <3> QED BY <1>12, <2>1, <2>2, <3>1, HandlerEffect DEF NoAccept, Busy, Handler
  <2> QED BY <2>1, <2>2, <2>3, NoAcceptLeft, TypeStep
<1>13. ASSUME NEW w \in Workers, CloseHandle(w) PROVE AcceptAlone'
  <2>. PICK c \in Slots : c = job[w].slot
    BY <1>13, HandlerEffect DEF Handler
  <2>1. /\ c = job[w].slot /\ pc[w] # "wait" /\ Busy(w, c)
        /\ \A v \in Workers : pc'[v] # "wait" =>
               (pc[v] # "wait" /\ job'[v] = job[v] /\ pc'[v] = pc[v]) \/ job'[v].slot = c
    BY <1>13, HandlerEffect DEF Handler, Busy
  <2>2. /\ UNCHANGED <<closedAt, isConnect>>
        /\ \A o \in ops' : o \in ops
        /\ \A x \in port' : x \in port \/ (x.slot = c /\ x.kind # "accept")
    <3>1. NoAccept(c)
      BY <1>13, <2>1, NoneBeside, HandlerEffect DEF Handler
    <3>2. ASSUME Live(c), NEW o \in ops, o.sock = sock[c]
          PROVE  Completion(o, FALSE).slot = c /\ Completion(o, FALSE).kind # "accept"
      <4>1. o.slot = c
        BY <3>2, AbortedOfSlot
      <4>2. o.kind # "accept"
        BY <3>1, <4>1 DEF NoAccept
      <4> QED BY <4>1, <4>2, CompletionTyped
    <3>3. CASE ~Live(c)
      BY <1>13, <2>1, <3>3, CloseEffect DEF slotVars, kernel
    <3>4. CASE Live(c)
      <4>1. UNCHANGED <<closedAt, isConnect>>
        BY <1>13, CloseEffect DEF slotVars
      <4>2. \A o \in ops' : o \in ops
        BY <1>13, <2>1, <3>4, CloseEffect
      <4>3. ASSUME NEW x \in port', x \notin port
            PROVE  x.slot = c /\ x.kind # "accept"
        <5>1. PICK o \in ops : o.sock = sock[job[w].slot] /\ x = Completion(o, FALSE)
          BY <1>13, <4>3, CloseEffect DEF kernel
        <5> QED BY <2>1, <3>2, <3>4, <5>1
      <4> QED BY <3>2, <3>4, <4>1, <4>2, <4>3
    <3> QED BY <3>3, <3>4
  <2>3. NoAccept(c)'
    <3>1. NoAccept(c) /\ pc'[w] # "accepted"
      BY <1>13, <2>1, NoneBeside, HandlerEffect DEF Handler
    <3> QED BY <1>13, <2>1, <2>2, <3>1, HandlerEffect DEF NoAccept, Busy, Handler
  <2> QED BY <2>1, <2>2, <2>3, NoAcceptLeft, TypeStep
<1>14. ASSUME NEW w \in Workers, Invalidate(w) PROVE AcceptAlone'
  <2>. PICK c \in Slots : c = job[w].slot
    BY <1>14, HandlerEffect DEF Handler
  <2>1. /\ c = job[w].slot /\ pc[w] # "wait" /\ Busy(w, c)
        /\ \A v \in Workers : pc'[v] # "wait" =>
               (pc[v] # "wait" /\ job'[v] = job[v] /\ pc'[v] = pc[v]) \/ job'[v].slot = c
    BY <1>14, HandlerEffect DEF Handler, Busy
  <2>2. /\ \A d \in Slots : d # c => closedAt'[d] = closedAt[d] /\ isConnect'[d] = isConnect[d]
        /\ UNCHANGED <<ops, port>>
    BY <1>14 DEF Invalidate, TypeOK, slotVars, kernel
  <2>3. NoAccept(c)'
    <3>1. NoAccept(c) /\ pc'[w] # "accepted"
      BY <1>14, <2>1, NoneBeside, HandlerEffect DEF Handler
    <3> QED BY <1>14, <2>1, <2>2, <3>1, HandlerEffect DEF NoAccept, Busy, Handler
  <2> QED BY <2>1, <2>2, <2>3, NoAcceptLeft, TypeStep
<1>15. ASSUME NEW w \in Workers, ReportClose(w) PROVE AcceptAlone'
  <2>. PICK c \in Slots : c = job[w].slot
    BY <1>15, HandlerEffect DEF Handler
  <2>1. /\ c = job[w].slot /\ pc[w] # "wait" /\ Busy(w, c)
        /\ \A v \in Workers : pc'[v] # "wait" =>
               (pc[v] # "wait" /\ job'[v] = job[v] /\ pc'[v] = pc[v]) \/ job'[v].slot = c
    BY <1>15, HandlerEffect DEF Handler, Busy
  <2>2. /\ \A d \in Slots : d # c => closedAt'[d] = closedAt[d] /\ isConnect'[d] = isConnect[d]
        /\ UNCHANGED <<ops, port>>
    BY <1>15 DEF ReportClose, TypeOK, slotVars, kernel
  <2>3. NoAccept(c)'
    <3>1. NoAccept(c) /\ pc'[w] # "accepted"
      BY <1>15, <2>1, NoneBeside, HandlerEffect DEF Handler
    <3> QED BY <1>15, <2>1, <2>2, <3>1, HandlerEffect DEF NoAccept, Busy, Handler
  <2> QED BY <2>1, <2>2, <2>3, NoAcceptLeft, TypeStep
<1>16. ASSUME NEW o \in ops, NEW ok \in BOOLEAN, Complete(o, ok) PROVE AcceptAlone'
  <2> DEFINE y == Completion(o, ok)
  <2>1. /\ o.slot \in Slots /\ y.slot = o.slot /\ y.kind = o.kind
        /\ UNCHANGED <<closedAt, isConnect, pc, job>>
        /\ ops' = ops \ {o} /\ port' = port \cup {y}
    BY <1>16, OpsTyped, CompletionTyped DEF Complete, slotVars
  <2> HIDE DEF y
  <2>2. /\ \A p \in ops' : p.kind = "accept" /\ p.slot # o.slot => OpAlone(p)'
        /\ \A x \in port' : x.kind = "accept" /\ x.slot # o.slot => PortAlone(x)'
        /\ \A v \in Workers : pc'[v] = "accepted" /\ job'[v].slot # o.slot => WorkerAlone(v)'
    BY <2>1, OtherSlots, TypeStep
  <2>3. CASE o.kind # "accept"
    <3>1. NoAccept(o.slot)
      BY <2>1, <2>3, NoneBeside
    <3>2. NoAccept(o.slot)'
      BY <2>1, <2>3, <3>1 DEF NoAccept, Busy
    <3> QED BY <2>1, <3>2, NoAcceptLeft, TypeStep
  <2>4. CASE o.kind = "accept"
    <3>1. OpAlone(o)
      BY <2>4 DEF AcceptAlone
    <3>2. /\ \A p \in ops' : p.slot # o.slot
          /\ \A x \in port' : x.slot = o.slot => x = y
          /\ \A v \in Workers : ~Busy(v, o.slot)'
      BY <2>1, <3>1 DEF OpAlone, OnlyOps, OnlyPort, OnlyWorkers, Busy
    <3>3. Fresh(o.slot)'
      BY <2>1, <3>1 DEF OpAlone, Fresh
    <3>4. ASSUME NEW x \in port', x.slot = o.slot PROVE PortAlone(x)'
      BY <3>2, <3>3, <3>4 DEF PortAlone, OnlyOps, OnlyPort, OnlyWorkers
    <3> QED BY <2>2, <3>2, <3>4 DEF AcceptAlone, Busy
  <2> QED BY <2>3, <2>4
<1>17. ASSUME NEW c \in Slots, PostSend(c) PROVE AcceptAlone'
  <2>1. /\ UNCHANGED <<closedAt, isConnect, port, pc, job>>
        /\ \A o \in ops' : o \in ops \/ (o.slot = c /\ o.kind = "send")
    BY <1>17 DEF PostSend, slotVars, Operation
  <2>2. NoAccept(c)
    BY <1>17, NoneBeside DEF PostSend, Fresh
  <2>3. NoAccept(c)'
    BY <2>1, <2>2 DEF NoAccept, Busy
  <2> QED BY <2>1, <2>3, NoAcceptLeft, TypeStep
<1>18. ASSUME Tick PROVE AcceptAlone'
  BY <1>18 DEF Tick, slotVars, kernel, AcceptAlone, OpAlone, PortAlone, WorkerAlone, Fresh,
         OnlyOps, OnlyPort, OnlyWorkers, Busy
<1>19. CASE UNCHANGED vars
  BY <1>19 DEF AcceptAlone, OpAlone, PortAlone, WorkerAlone, Fresh, OnlyOps, OnlyPort,
         OnlyWorkers, Busy, vars
<1> QED BY <1>1, <1>2, <1>3, <1>4, <1>5, <1>6, <1>7, <1>8, <1>9, <1>10, <1>11, <1>12, <1>13, <1>14, <1>15, <1>16, <1>17, <1>18, <1>19
       DEF Next, Accepter, Worker, Environment

----------------------------------------------------------------------------
(* What is left of a closed connection is bounded in time.  The statement  *)
(* for one slot:                                                           *)
DatedAt(c) ==
    closedAt[c] # Never =>
        /\ closedAt[c] <= now
        /\ \A x \in port : x.slot = c => x.at <= closedAt[c] + MaxDelay
        /\ \A w \in Workers : Busy(w, c) => job[w].at <= closedAt[c] + MaxDelay
        /\ Live(c) => \E w \in Workers : /\ Busy(w, c) /\ pc[w] = "closesocket"
                                         /\ job[w].at <= closedAt[c]

LEMMA DatedIs == Dated <=> \A c \in Slots : DatedAt(c)
BY DEF Dated, DatedAt

(* It survives where the slot's close time, handle and closers stay, and   *)
(* the completions added are not younger than MaxDelay after the close.    *)
LEMMA DatedStays ==
    ASSUME TypeOK, NEW c \in Slots, DatedAt(c),
           UNCHANGED closedAt \/ closedAt'[c] = closedAt[c],
           now' = now \/ now' = now + 1,
           closedAt[c] # Never => \A x \in port' : x.slot = c =>
               x \in port \/ x.at <= closedAt[c] + MaxDelay,
           \A w \in Workers : Busy(w, c)' =>
               (Busy(w, c) /\ job'[w] = job[w]) \/ job'[w] \in port,
           Live(c)' => /\ Live(c)
                       /\ \A w \in Workers : Busy(w, c) /\ pc[w] = "closesocket" =>
                              pc'[w] = pc[w] /\ job'[w] = job[w]
    PROVE  DatedAt(c)'
<1>1. closedAt'[c] = closedAt[c] /\ closedAt[c] \in Nat \cup {Never} /\ now \in Nat
  BY DEF TypeOK
<1>2. CASE closedAt[c] = Never
  BY <1>1, <1>2 DEF DatedAt
<1>3. CASE closedAt[c] # Never
  <2>1. closedAt[c] <= now'
    BY <1>1, <1>3 DEF DatedAt
  <2>2. \A x \in port' : x.slot = c => x.at <= closedAt[c] + MaxDelay
    BY <1>3 DEF DatedAt
  <2>3. \A w \in Workers : Busy(w, c)' => job'[w].at <= closedAt[c] + MaxDelay
    BY <1>3 DEF DatedAt, Busy
  <2>4. Live(c)' => \E w \in Workers : /\ Busy(w, c)' /\ pc'[w] = "closesocket"
                                       /\ job'[w].at <= closedAt[c]
    BY <1>3 DEF DatedAt, Busy
  <2> QED BY <1>1, <2>1, <2>2, <2>3, <2>4 DEF DatedAt
<1> QED BY <1>2, <1>3

(* I/O of a dated slot is aborted while its closer still runs.             *)
LEMMA YoungCloser ==
    ASSUME TypeOK, Ages, Dated, NEW c \in Slots, closedAt[c] # Never, Live(c)
    PROVE  now <= closedAt[c] + MaxDelay
<1>1. PICK w \in Workers : Busy(w, c) /\ job[w].at <= closedAt[c]
  BY DEF Dated
<1>2. now <= job[w].at + MaxDelay /\ job[w].at \in Nat
  BY <1>1, JobTyped DEF Ages, Working, Busy
<1>3. closedAt[c] \in Nat /\ MaxDelay \in Nat /\ now \in Nat
  BY SlotsAssumption DEF TypeOK
<1> QED BY <1>1, <1>2, <1>3

(* The bound of Dated outlives every step.                                  *)
LEMMA DatedStep ==
    ASSUME IInv, ~HandlesRecycled, Next \/ UNCHANGED vars
    PROVE  Dated'
<1> USE DEF IInv
<1>1. ASSUME ReadClock PROVE Dated'
  <2> SUFFICES ASSUME NEW c \in Slots PROVE DatedAt(c)'
    BY DEF Dated, DatedAt
  <2>1. DatedAt(c)
    BY DatedIs
  <2> QED BY <1>1, <2>1, DatedStays DEF ReadClock, slotVars, kernel, timeVars, Live, Busy
<1>2. ASSUME NEW c \in Slots, LookAt(c) PROVE Dated'
  <2> SUFFICES ASSUME NEW d \in Slots PROVE DatedAt(d)'
    BY DEF Dated, DatedAt
  <2>1. DatedAt(d)
    BY DatedIs
  <2> QED BY <1>2, <2>1, DatedStays DEF LookAt, slotVars, kernel, Live, Busy
<1>3. ASSUME Measure PROVE Dated'
  <2> SUFFICES ASSUME NEW c \in Slots PROVE DatedAt(c)'
    BY DEF Dated, DatedAt
  <2>1. DatedAt(c)
    BY DatedIs
  <2> QED BY <1>3, <2>1, DatedStays DEF Measure, slotVars, kernel, timeVars, Live, Busy
<1>4. ASSUME NEW c \in Slots, PostAccept(c) PROVE Dated'
  <2> SUFFICES ASSUME NEW d \in Slots PROVE DatedAt(d)'
    BY DEF Dated, DatedAt
  <2>1. DatedAt(d)
    BY DatedIs
  <2>2. closedAt'[c] = Never /\ (d # c => closedAt'[d] = closedAt[d])
    BY <1>4, AcceptEffect DEF TypeOK
  <2>3. CASE d = c
    BY <2>2, <2>3 DEF DatedAt
  <2>4. CASE d # c
    <3>1. sock'[d] = sock[d] /\ UNCHANGED <<port, pc, job, now>>
      BY <1>4, <2>4, AcceptEffect
    <3>2. Live(d)' => Live(d)
      <4>1. CASE UNCHANGED owner
        BY <3>1, <4>1 DEF Live
      <4>2. ASSUME NEW s \in Sockets, Available(s), owner' = [owner EXCEPT ![s] = <<c, gen'[c]>>]
            PROVE  Live(d)' => Live(d)
        <5>1. s # sock[d]
          BY <4>2 DEF Available
        <5> QED BY <3>1, <4>2, <5>1 DEF Live, TypeOK
      <4> QED BY <1>4, <4>1, <4>2, AcceptEffect
    <3> QED BY <2>1, <2>2, <2>4, <3>1, <3>2, DatedStays DEF Busy
  <2> QED BY <2>3, <2>4
<1>5. ASSUME NEW w \in Workers, NEW x \in port, GetCompletion(w, x) PROVE Dated'
  <2> SUFFICES ASSUME NEW d \in Slots PROVE DatedAt(d)'
    BY DEF Dated, DatedAt
  <2>1. DatedAt(d)
    BY DatedIs
  <2>2. /\ UNCHANGED <<closedAt, sock, owner, now>>
        /\ \A y \in port' : y \in port
    BY <1>5 DEF GetCompletion, slotVars, timeVars
  <2>3. \A v \in Workers : Busy(v, d)' => (Busy(v, d) /\ job'[v] = job[v]) \/ job'[v] \in port
    BY <1>5, GetEffect DEF Busy
  <2>4. \A v \in Workers : Busy(v, d) => pc'[v] = pc[v] /\ job'[v] = job[v]
    BY <1>5, GetEffect DEF Busy
  <2> QED BY <2>1, <2>2, <2>3, <2>4, DatedStays DEF Live
<1>6. ASSUME NEW w \in Workers, NEW x \in port, FailedAccept(w, x) PROVE Dated'
  <2> SUFFICES ASSUME NEW c \in Slots PROVE DatedAt(c)'
    BY DEF Dated, DatedAt
  <2>1. DatedAt(c)
    BY DatedIs
  <2> QED BY <1>6, <2>1, DatedStays DEF FailedAccept, slotVars, kernel, timeVars, Live, Busy
<1>7. ASSUME NEW w \in Workers, OnConnect(w) PROVE Dated'
  <2> SUFFICES ASSUME NEW d \in Slots PROVE DatedAt(d)'
    BY DEF Dated, DatedAt
  <2>1. DatedAt(d)
    BY DatedIs
  <2>2. /\ \A v \in Workers : Busy(v, d)' => Busy(v, d) /\ job'[v] = job[v]
        /\ \A v \in Workers : v # w /\ pc[v] # "wait" => pc'[v] = pc[v] /\ job'[v] = job[v]
        /\ now' = now
    BY <1>7, HandlerEffect DEF Handler, Busy
  <2>3. UNCHANGED <<closedAt, sock, owner, port>> /\ pc[w] # "closesocket"
    BY <1>7, HandlerEffect DEF OnConnect, slotVars, kernel, Handler
  <2> QED BY <2>1, <2>2, <2>3, DatedStays DEF Live, Busy
<1>8. ASSUME NEW w \in Workers, ReportConnect(w) PROVE Dated'
  <2> SUFFICES ASSUME NEW d \in Slots PROVE DatedAt(d)'
    BY DEF Dated, DatedAt
  <2>1. DatedAt(d)
    BY DatedIs
  <2>2. /\ \A v \in Workers : Busy(v, d)' => Busy(v, d) /\ job'[v] = job[v]
        /\ \A v \in Workers : v # w /\ pc[v] # "wait" => pc'[v] = pc[v] /\ job'[v] = job[v]
        /\ now' = now
    BY <1>8, HandlerEffect DEF Handler, Busy
  <2>3. UNCHANGED <<closedAt, sock, owner, port>> /\ pc[w] # "closesocket"
    BY <1>8, HandlerEffect DEF ReportConnect, slotVars, kernel, Handler
  <2> QED BY <2>1, <2>2, <2>3, DatedStays DEF Live, Busy
<1>9. ASSUME NEW w \in Workers, Receive(w) PROVE Dated'
  <2> SUFFICES ASSUME NEW d \in Slots PROVE DatedAt(d)'
    BY DEF Dated, DatedAt
  <2>1. DatedAt(d)
    BY DatedIs
  <2>2. /\ \A v \in Workers : Busy(v, d)' => Busy(v, d) /\ job'[v] = job[v]
        /\ \A v \in Workers : v # w /\ pc[v] # "wait" => pc'[v] = pc[v] /\ job'[v] = job[v]
        /\ now' = now
    BY <1>9, HandlerEffect DEF Handler, Busy
  <2>3. UNCHANGED <<closedAt, sock, owner, port>> /\ pc[w] # "closesocket"
    BY <1>9, HandlerEffect DEF Receive, slotVars, kernel, Handler
  <2> QED BY <2>1, <2>2, <2>3, DatedStays DEF Live, Busy
<1>10. ASSUME NEW w \in Workers, CheckConnected(w) PROVE Dated'
  <2> SUFFICES ASSUME NEW d \in Slots PROVE DatedAt(d)'
    BY DEF Dated, DatedAt
  <2>1. DatedAt(d)
    BY DatedIs
  <2>2. /\ \A v \in Workers : Busy(v, d)' => Busy(v, d) /\ job'[v] = job[v]
        /\ \A v \in Workers : v # w /\ pc[v] # "wait" => pc'[v] = pc[v] /\ job'[v] = job[v]
        /\ now' = now
    BY <1>10, HandlerEffect DEF Handler, Busy
  <2>3. UNCHANGED <<closedAt, sock, owner, port>> /\ pc[w] # "closesocket"
    BY <1>10, HandlerEffect DEF CheckConnected, slotVars, kernel, Handler
  <2> QED BY <2>1, <2>2, <2>3, DatedStays DEF Live, Busy
<1>11. ASSUME NEW w \in Workers, ClearConnect(w) PROVE Dated'
  <2> SUFFICES ASSUME NEW d \in Slots PROVE DatedAt(d)'
    BY DEF Dated, DatedAt
  <2>1. DatedAt(d)
    BY DatedIs
  <2>2. /\ \A v \in Workers : Busy(v, d)' => Busy(v, d) /\ job'[v] = job[v]
        /\ \A v \in Workers : v # w /\ pc[v] # "wait" => pc'[v] = pc[v] /\ job'[v] = job[v]
        /\ now' = now
    BY <1>11, HandlerEffect DEF Handler, Busy
  <2>3. UNCHANGED <<closedAt, sock, owner, port>> /\ pc[w] # "closesocket"
    BY <1>11, HandlerEffect DEF ClearConnect, slotVars, kernel, Handler
  <2> QED BY <2>1, <2>2, <2>3, DatedStays DEF Live, Busy
<1>12. ASSUME NEW w \in Workers, StampClosed(w) PROVE Dated'
  <2> SUFFICES ASSUME NEW d \in Slots PROVE DatedAt(d)'
    BY DEF Dated, DatedAt
  <2>1. DatedAt(d)
    BY DatedIs
  <2>2. /\ \A v \in Workers : Busy(v, d)' => Busy(v, d) /\ job'[v] = job[v]
        /\ \A v \in Workers : v # w /\ pc[v] # "wait" => pc'[v] = pc[v] /\ job'[v] = job[v]
        /\ now' = now
    BY <1>12, HandlerEffect DEF Handler, Busy
  <2>3. /\ UNCHANGED <<sock, owner, port>> /\ pc[w] = "stamp" /\ pc'[w] = "closesocket"
        /\ job[w].slot \in Slots /\ closedAt' = [closedAt EXCEPT ![job[w].slot] = now]
    BY <1>12, HandlerEffect DEF StampClosed, slotVars, kernel, Handler
  <2>4. CASE d # job[w].slot
    <3>1. closedAt'[d] = closedAt[d]
      BY <2>3, <2>4 DEF TypeOK
    <3> QED BY <2>1, <2>2, <2>3, <2>4, <3>1, DatedStays DEF Live, Busy
  <2>5. CASE d = job[w].slot
    <3>1. closedAt'[d] = now /\ now \in Nat /\ MaxDelay \in Nat /\ now <= now + MaxDelay
      BY <2>3, <2>5, SlotsAssumption DEF TypeOK
    <3>2. \A x \in port : x.at \in Nat /\ x.at <= now
      BY PortTyped DEF Ages
    <3>3. \A v \in Workers : Busy(v, d) => job[v].at \in Nat /\ job[v].at <= now
      BY JobTyped DEF Ages, Working, Busy
    <3>4. Busy(w, d)' /\ job'[w] = job[w]
      BY <1>12, <2>3, <2>5, HandlerEffect DEF Busy, Handler, StampClosed, Goto, TypeOK
    <3>5. \A t \in Nat : t <= now => t <= now + MaxDelay
      BY <3>1
    <3>6. \A x \in port' : x.slot = d => x.at <= now + MaxDelay
      BY <2>3, <3>2, <3>5
    <3>7. \A v \in Workers : Busy(v, d)' => job'[v].at <= now + MaxDelay
      BY <2>2, <3>3, <3>5
    <3>8. Busy(w, d)' /\ pc'[w] = "closesocket" /\ job'[w].at <= now
      BY <2>2, <2>3, <3>3, <3>4
    <3> QED BY <2>2, <3>1, <3>6, <3>7, <3>8 DEF DatedAt
  <2> QED BY <2>4, <2>5
<1>13. ASSUME NEW w \in Workers, CloseHandle(w) PROVE Dated'
  <2> SUFFICES ASSUME NEW d \in Slots PROVE DatedAt(d)'
    BY DEF Dated, DatedAt
  <2>1. DatedAt(d)
    BY DatedIs
  <2>2. /\ \A v \in Workers : Busy(v, d)' => Busy(v, d) /\ job'[v] = job[v]
        /\ \A v \in Workers : v # w /\ pc[v] # "wait" => pc'[v] = pc[v] /\ job'[v] = job[v]
        /\ now' = now
    BY <1>13, HandlerEffect DEF Handler, Busy
  <2>3. UNCHANGED <<closedAt, sock>> /\ job[w].slot \in Slots
    BY <1>13, CloseEffect, HandlerEffect DEF slotVars, Handler
  <2>4. Live(d)' => Live(d) /\ d # job[w].slot
    <3>1. CASE ~Live(job[w].slot) /\ UNCHANGED kernel
      BY <2>3, <3>1 DEF Live, kernel
    <3>2. CASE owner' = [owner EXCEPT ![sock[job[w].slot]] = Free]
      BY <2>3, <3>2 DEF Live, TypeOK
    <3> QED BY <1>13, <3>1, <3>2, CloseEffect
  <2>5. ASSUME closedAt[d] # Never, NEW x \in port', x.slot = d, x \notin port
        PROVE  x.at <= closedAt[d] + MaxDelay
    <3>1. PICK o \in ops : /\ x = Completion(o, FALSE) /\ Live(job[w].slot)
                           /\ o.sock = sock[job[w].slot]
      BY <1>13, <2>5, CloseEffect DEF kernel
    <3>2. x.slot = o.slot /\ x.at = now
      BY <3>1, CompletionTyped
    <3> QED BY <2>5, <3>2, LiveOwned, YoungCloser
  <2> QED BY <2>1, <2>2, <2>3, <2>4, <2>5, DatedStays DEF Busy
<1>14. ASSUME NEW w \in Workers, Invalidate(w) PROVE Dated'
  <2> SUFFICES ASSUME NEW d \in Slots PROVE DatedAt(d)'
    BY DEF Dated, DatedAt
  <2>1. DatedAt(d)
    BY DatedIs
  <2>2. /\ \A v \in Workers : Busy(v, d)' => Busy(v, d) /\ job'[v] = job[v]
        /\ \A v \in Workers : v # w /\ pc[v] # "wait" => pc'[v] = pc[v] /\ job'[v] = job[v]
        /\ now' = now
    BY <1>14, HandlerEffect DEF Handler, Busy
  <2>3. /\ UNCHANGED <<closedAt, owner, port>> /\ pc[w] = "invalidate"
        /\ sock' = [sock EXCEPT ![job[w].slot] = NoSocket]
    BY <1>14 DEF Invalidate, kernel
  <2>4. Live(d)' => Live(d)
    BY <2>3, SlotsAssumption DEF Live, TypeOK
  <2> QED BY <2>1, <2>2, <2>3, <2>4, DatedStays DEF Busy
<1>15. ASSUME NEW w \in Workers, ReportClose(w) PROVE Dated'
  <2> SUFFICES ASSUME NEW d \in Slots PROVE DatedAt(d)'
    BY DEF Dated, DatedAt
  <2>1. DatedAt(d)
    BY DatedIs
  <2>2. /\ \A v \in Workers : Busy(v, d)' => Busy(v, d) /\ job'[v] = job[v]
        /\ \A v \in Workers : v # w /\ pc[v] # "wait" => pc'[v] = pc[v] /\ job'[v] = job[v]
        /\ now' = now
    BY <1>15, HandlerEffect DEF Handler, Busy
  <2>3. UNCHANGED <<closedAt, sock, owner, port>> /\ pc[w] # "closesocket"
    BY <1>15, HandlerEffect DEF ReportClose, slotVars, kernel, Handler
  <2> QED BY <2>1, <2>2, <2>3, DatedStays DEF Live, Busy
<1>16. ASSUME NEW o \in ops, NEW ok \in BOOLEAN, Complete(o, ok) PROVE Dated'
  <2> SUFFICES ASSUME NEW d \in Slots PROVE DatedAt(d)'
    BY DEF Dated, DatedAt
  <2>1. DatedAt(d)
    BY DatedIs
  <2>2. /\ Completion(o, ok).slot = o.slot /\ Completion(o, ok).at = now /\ Live(o.slot)
    BY LiveOwned, CompletionTyped
  <2>3. closedAt[d] # Never => \A x \in port' : x.slot = d =>
            x \in port \/ x.at <= closedAt[d] + MaxDelay
    BY <1>16, <2>2, YoungCloser DEF Complete
  <2> QED BY <1>16, <2>1, <2>3, DatedStays DEF Complete, slotVars, timeVars, Live, Busy
<1>17. ASSUME NEW c \in Slots, PostSend(c) PROVE Dated'
  <2> SUFFICES ASSUME NEW d \in Slots PROVE DatedAt(d)'
    BY DEF Dated, DatedAt
  <2>1. DatedAt(d)
    BY DatedIs
  <2> QED BY <1>17, <2>1, DatedStays DEF PostSend, slotVars, timeVars, Live, Busy
<1>18. ASSUME Tick PROVE Dated'
  <2> SUFFICES ASSUME NEW c \in Slots PROVE DatedAt(c)'
    BY DEF Dated, DatedAt
  <2>1. DatedAt(c)
    BY DatedIs
  <2> QED BY <1>18, <2>1, DatedStays DEF Tick, slotVars, kernel, timeVars, Live, Busy
<1>19. CASE UNCHANGED vars
  <2> SUFFICES ASSUME NEW c \in Slots PROVE DatedAt(c)'
    BY DEF Dated, DatedAt
  <2>1. DatedAt(c)
    BY DatedIs
  <2> QED BY <1>19, <2>1, DatedStays DEF vars, Live, Busy
<1> QED BY <1>1, <1>2, <1>3, <1>4, <1>5, <1>6, <1>7, <1>8, <1>9, <1>10, <1>11, <1>12, <1>13, <1>14, <1>15, <1>16, <1>17, <1>18, <1>19
       DEF Next, Accepter, Worker, Environment

----------------------------------------------------------------------------
(* A slot found quiet stays so until the accepter offers it.               *)
LEMMA QuietStays ==
    ASSUME TypeOK, NEW d \in Slots, Quiet(d),
           closedAt'[d] = closedAt[d], isConnect'[d] = isConnect[d],
           now' = now \/ now' = now + 1,
           \A o \in ops' : o \in ops \/ o.slot # d,
           \A x \in port' : x \in port \/ x.slot # d,
           \A w \in Workers : Busy(w, d)' => Busy(w, d),
           Live(d)' => Live(d)
    PROVE  Quiet(d)'
<1>1. closedAt[d] \in Nat /\ now \in Nat /\ ReuseWait \in Nat
  BY SlotsAssumption DEF TypeOK, Quiet
<1>2. now' > closedAt[d] + ReuseWait
  BY <1>1 DEF Quiet
<1> QED BY <1>2 DEF Quiet

LEMMA CandidateKept ==
    ASSUME TypeOK, Candidate, apc' = apc, acand' = acand,
           \A d \in Slots : Quiet(d) => Quiet(d)'
    PROVE  Candidate'
<1>1. CASE apc = "scan"
  BY <1>1 DEF Candidate
<1>2. CASE apc # "scan"
  <2>1. PICK d \in Slots : d = acand /\ d = acand'
    BY <1>2 DEF TypeOK
  <2>2. apc' = "post" /\ Quiet(d)'
    BY <1>2, <2>1 DEF Candidate
  <2> QED BY <2>1, <2>2 DEF Candidate, Quiet, Busy, Live
<1> QED BY <1>1, <1>2

(* The slot the accepter is about to offer is quiet.                        *)
LEMMA CandidateStep ==
    ASSUME IInv, ~TwoReads, Next \/ UNCHANGED vars
    PROVE  Candidate'
<1> USE DEF IInv
<1>1. ASSUME ReadClock PROVE Candidate'
  BY <1>1 DEF Candidate, ReadClock
<1>2. ASSUME NEW c \in Slots, LookAt(c) PROVE Candidate'
  <2>1. Quiet(c) /\ apc' = "post" /\ acand' = c
    BY <1>2, WaitSuffices DEF LookAt
  <2>2. Quiet(c)'
    BY <1>2, <2>1, QuietStays DEF LookAt, slotVars, kernel, Live, Busy
  <2> QED BY <2>1, <2>2 DEF Candidate, Quiet, Busy, Live
<1>3. ASSUME Measure PROVE Candidate'
  BY <1>3 DEF Candidate, Measure
<1>4. ASSUME NEW c \in Slots, PostAccept(c) PROVE Candidate'
  BY <1>4 DEF Candidate, PostAccept
<1>5. ASSUME NEW w \in Workers, NEW x \in port, GetCompletion(w, x) PROVE Candidate'
  <2>1. apc' = apc /\ acand' = acand
    BY <1>5 DEF GetCompletion, timeVars
  <2>2. ASSUME NEW d \in Slots, Quiet(d) PROVE Quiet(d)'
    <3>1. \A v \in Workers : Busy(v, d)' => Busy(v, d)
      BY <1>5, <2>2, GetEffect DEF Busy, Quiet
    <3> QED BY <1>5, <2>2, <3>1, QuietStays DEF GetCompletion, slotVars, timeVars, Live
  <2> QED BY <2>1, <2>2, CandidateKept
<1>6. ASSUME NEW w \in Workers, NEW x \in port, FailedAccept(w, x) PROVE Candidate'
  BY <1>6 DEF Candidate, Quiet, Live, Busy, FailedAccept, slotVars, kernel, timeVars
<1>7. ASSUME NEW w \in Workers, OnConnect(w) PROVE Candidate'
  <2>1. apc' = apc /\ acand' = acand
    BY <1>7, HandlerEffect DEF OnConnect, timeVars, Handler
  <2>2. ASSUME NEW d \in Slots, Quiet(d) PROVE Quiet(d)'
    <3>1. /\ job[w].slot # d /\ job[w].slot \in Slots /\ now' = now
          /\ \A v \in Workers : Busy(v, d)' => Busy(v, d)
      BY <1>7, <2>2, HandlerEffect DEF Busy, Quiet, Handler
    <3>2. \A o \in ops' : o \in ops \/ o.slot # d
      BY <1>7, <3>1 DEF OnConnect, Operation
    <3>3. closedAt' = closedAt /\ isConnect'[d] = isConnect[d] /\ UNCHANGED <<port, sock, owner>>
      BY <1>7, <3>1 DEF OnConnect, TypeOK
    <3> QED BY <2>2, <3>1, <3>2, <3>3, QuietStays DEF Live
  <2> QED BY <2>1, <2>2, CandidateKept
<1>8. ASSUME NEW w \in Workers, ReportConnect(w) PROVE Candidate'
  <2>1. apc' = apc /\ acand' = acand
    BY <1>8, HandlerEffect DEF ReportConnect, timeVars, Handler
  <2>2. ASSUME NEW d \in Slots, Quiet(d) PROVE Quiet(d)'
    <3>1. /\ job[w].slot # d /\ job[w].slot \in Slots /\ now' = now
          /\ \A v \in Workers : Busy(v, d)' => Busy(v, d)
      BY <1>8, <2>2, HandlerEffect DEF Busy, Quiet, Handler
    <3>2. /\ closedAt'[d] = closedAt[d] /\ isConnect'[d] = isConnect[d] /\ sock'[d] = sock[d]
          /\ UNCHANGED <<ops, port, owner>>
      BY <1>8, <3>1 DEF ReportConnect, TypeOK, slotVars, kernel
    <3> QED BY <2>2, <3>1, <3>2, QuietStays DEF Live
  <2> QED BY <2>1, <2>2, CandidateKept
<1>9. ASSUME NEW w \in Workers, Receive(w) PROVE Candidate'
  <2>1. apc' = apc /\ acand' = acand
    BY <1>9, HandlerEffect DEF Receive, timeVars, Handler
  <2>2. ASSUME NEW d \in Slots, Quiet(d) PROVE Quiet(d)'
    <3>1. /\ job[w].slot # d /\ job[w].slot \in Slots /\ now' = now
          /\ \A v \in Workers : Busy(v, d)' => Busy(v, d)
      BY <1>9, <2>2, HandlerEffect DEF Busy, Quiet, Handler
    <3>2. \A o \in ops' : o \in ops \/ o.slot # d
      BY <1>9, <3>1 DEF Receive, Operation
    <3>3. closedAt' = closedAt /\ isConnect'[d] = isConnect[d] /\ UNCHANGED <<port, sock, owner>>
      BY <1>9, <3>1 DEF Receive, TypeOK
    <3> QED BY <2>2, <3>1, <3>2, <3>3, QuietStays DEF Live
  <2> QED BY <2>1, <2>2, CandidateKept
<1>10. ASSUME NEW w \in Workers, CheckConnected(w) PROVE Candidate'
  <2>1. apc' = apc /\ acand' = acand
    BY <1>10, HandlerEffect DEF CheckConnected, timeVars, Handler
  <2>2. ASSUME NEW d \in Slots, Quiet(d) PROVE Quiet(d)'
    <3>1. /\ job[w].slot # d /\ job[w].slot \in Slots /\ now' = now
          /\ \A v \in Workers : Busy(v, d)' => Busy(v, d)
      BY <1>10, <2>2, HandlerEffect DEF Busy, Quiet, Handler
    <3>2. /\ closedAt'[d] = closedAt[d] /\ isConnect'[d] = isConnect[d] /\ sock'[d] = sock[d]
          /\ UNCHANGED <<ops, port, owner>>
      BY <1>10, <3>1 DEF CheckConnected, TypeOK, slotVars, kernel
    <3> QED BY <2>2, <3>1, <3>2, QuietStays DEF Live
  <2> QED BY <2>1, <2>2, CandidateKept
<1>11. ASSUME NEW w \in Workers, ClearConnect(w) PROVE Candidate'
  <2>1. apc' = apc /\ acand' = acand
    BY <1>11, HandlerEffect DEF ClearConnect, timeVars, Handler
  <2>2. ASSUME NEW d \in Slots, Quiet(d) PROVE Quiet(d)'
    <3>1. /\ job[w].slot # d /\ job[w].slot \in Slots /\ now' = now
          /\ \A v \in Workers : Busy(v, d)' => Busy(v, d)
      BY <1>11, <2>2, HandlerEffect DEF Busy, Quiet, Handler
    <3>2. /\ closedAt'[d] = closedAt[d] /\ isConnect'[d] = isConnect[d] /\ sock'[d] = sock[d]
          /\ UNCHANGED <<ops, port, owner>>
      BY <1>11, <3>1 DEF ClearConnect, TypeOK, slotVars, kernel
    <3> QED BY <2>2, <3>1, <3>2, QuietStays DEF Live
  <2> QED BY <2>1, <2>2, CandidateKept
<1>12. ASSUME NEW w \in Workers, StampClosed(w) PROVE Candidate'
  <2>1. apc' = apc /\ acand' = acand
    BY <1>12, HandlerEffect DEF StampClosed, timeVars, Handler
  <2>2. ASSUME NEW d \in Slots, Quiet(d) PROVE Quiet(d)'
    <3>1. /\ job[w].slot # d /\ job[w].slot \in Slots /\ now' = now
          /\ \A v \in Workers : Busy(v, d)' => Busy(v, d)
      BY <1>12, <2>2, HandlerEffect DEF Busy, Quiet, Handler
    <3>2. /\ closedAt'[d] = closedAt[d] /\ isConnect'[d] = isConnect[d] /\ sock'[d] = sock[d]
          /\ UNCHANGED <<ops, port, owner>>
      BY <1>12, <3>1 DEF StampClosed, TypeOK, slotVars, kernel
    <3> QED BY <2>2, <3>1, <3>2, QuietStays DEF Live
  <2> QED BY <2>1, <2>2, CandidateKept
<1>13. ASSUME NEW w \in Workers, CloseHandle(w) PROVE Candidate'
  <2>1. apc' = apc /\ acand' = acand
    BY <1>13, HandlerEffect DEF CloseHandle, timeVars, Handler
  <2>2. ASSUME NEW d \in Slots, Quiet(d) PROVE Quiet(d)'
    <3>1. /\ job[w].slot # d /\ job[w].slot \in Slots /\ now' = now
          /\ \A v \in Workers : Busy(v, d)' => Busy(v, d)
      BY <1>13, <2>2, HandlerEffect DEF Busy, Quiet, Handler
    <3>2. Live(d)' => Live(d)
      <4>1. CASE UNCHANGED kernel
        BY <1>13, <4>1, CloseEffect DEF Live, kernel, slotVars
      <4>2. CASE owner' = [owner EXCEPT ![sock[job[w].slot]] = Free]
        BY <1>13, <4>2, CloseEffect DEF Live, TypeOK, slotVars
      <4> QED BY <1>13, <4>1, <4>2, CloseEffect
    <3>3. /\ UNCHANGED <<closedAt, isConnect>>
          /\ \A o \in ops' : o \in ops
      BY <1>13, CloseEffect DEF kernel, slotVars
    <3>4. ASSUME NEW x \in port', x \notin port PROVE x.slot # d
      <4>1. PICK o \in ops : x = Completion(o, FALSE)
        BY <1>13, <3>4, CloseEffect DEF kernel
      <4> QED BY <2>2, <4>1, CompletionTyped DEF Quiet
    <3> QED BY <2>2, <3>1, <3>2, <3>3, <3>4, QuietStays
  <2> QED BY <2>1, <2>2, CandidateKept
<1>14. ASSUME NEW w \in Workers, Invalidate(w) PROVE Candidate'
  <2>1. apc' = apc /\ acand' = acand
    BY <1>14, HandlerEffect DEF Invalidate, timeVars, Handler
  <2>2. ASSUME NEW d \in Slots, Quiet(d) PROVE Quiet(d)'
    <3>1. /\ job[w].slot # d /\ job[w].slot \in Slots /\ now' = now
          /\ \A v \in Workers : Busy(v, d)' => Busy(v, d)
      BY <1>14, <2>2, HandlerEffect DEF Busy, Quiet, Handler
    <3>2. /\ closedAt'[d] = closedAt[d] /\ isConnect'[d] = isConnect[d] /\ sock'[d] = sock[d]
          /\ UNCHANGED <<ops, port, owner>>
      BY <1>14, <3>1 DEF Invalidate, TypeOK, slotVars, kernel
    <3> QED BY <2>2, <3>1, <3>2, QuietStays DEF Live
  <2> QED BY <2>1, <2>2, CandidateKept
<1>15. ASSUME NEW w \in Workers, ReportClose(w) PROVE Candidate'
  <2>1. apc' = apc /\ acand' = acand
    BY <1>15, HandlerEffect DEF ReportClose, timeVars, Handler
  <2>2. ASSUME NEW d \in Slots, Quiet(d) PROVE Quiet(d)'
    <3>1. /\ job[w].slot # d /\ job[w].slot \in Slots /\ now' = now
          /\ \A v \in Workers : Busy(v, d)' => Busy(v, d)
      BY <1>15, <2>2, HandlerEffect DEF Busy, Quiet, Handler
    <3>2. /\ closedAt'[d] = closedAt[d] /\ isConnect'[d] = isConnect[d] /\ sock'[d] = sock[d]
          /\ UNCHANGED <<ops, port, owner>>
      BY <1>15, <3>1 DEF ReportClose, TypeOK, slotVars, kernel
    <3> QED BY <2>2, <3>1, <3>2, QuietStays DEF Live
  <2> QED BY <2>1, <2>2, CandidateKept
<1>16. ASSUME NEW o \in ops, NEW ok \in BOOLEAN, Complete(o, ok) PROVE Candidate'
  <2>1. apc' = apc /\ acand' = acand
    BY <1>16 DEF Complete, timeVars
  <2>2. ASSUME NEW d \in Slots, Quiet(d) PROVE Quiet(d)'
    <3>1. o.slot # d /\ Completion(o, ok).slot = o.slot
      BY <2>2, CompletionTyped DEF Quiet
    <3> QED BY <1>16, <2>2, <3>1, QuietStays DEF Complete, slotVars, timeVars, Live, Busy
  <2> QED BY <2>1, <2>2, CandidateKept
<1>17. ASSUME NEW c \in Slots, PostSend(c) PROVE Candidate'
  <2>1. apc' = apc /\ acand' = acand
    BY <1>17 DEF PostSend, timeVars
  <2>2. ASSUME NEW d \in Slots, Quiet(d) PROVE Quiet(d)'
    <3>1. d # c /\ Operation("send", c).slot = c
      BY <1>17, <2>2 DEF Quiet, PostSend, Operation
    <3> QED BY <1>17, <2>2, <3>1, QuietStays DEF PostSend, slotVars, timeVars, Live, Busy
  <2> QED BY <2>1, <2>2, CandidateKept
<1>18. ASSUME Tick PROVE Candidate'
  <2>1. apc' = apc /\ acand' = acand
    BY <1>18 DEF Tick, timeVars, accepter
  <2>2. ASSUME NEW d \in Slots, Quiet(d) PROVE Quiet(d)'
    <3> QED BY <1>18, <2>2, QuietStays DEF Tick, slotVars, kernel, Live, Busy
  <2> QED BY <2>1, <2>2, CandidateKept
<1>19. CASE UNCHANGED vars
  BY <1>19 DEF Candidate, Quiet, Live, Busy, vars
<1> QED BY <1>1, <1>2, <1>3, <1>4, <1>5, <1>6, <1>7, <1>8, <1>9, <1>10, <1>11, <1>12, <1>13, <1>14, <1>15, <1>16, <1>17, <1>18, <1>19
       DEF Next, Accepter, Worker, Environment

----------------------------------------------------------------------------
(* The invariant, and the properties it gives.                             *)
LEMMA IInvInit ==
    ASSUME Init PROVE IInv
<1>1. TypeOK
  <2>1. /\ 0 \in Nat /\ ReuseWait + 1 \in Nat
        /\ \A S : << >> \in Seq(S)
    BY SlotsAssumption
  <2> QED BY <2>1 DEF Init, TypeOK, Free, Labels
<1>2. \A c \in Slots : ~Live(c)
  BY SlotsAssumption DEF Init, Live
<1>3. \A c \in Slots : DatedAt(c)
  <2>1. closedAt = [c \in Slots |-> 0] /\ now \in Nat /\ 0 <= now
    BY <1>1 DEF Init, TypeOK
  <2> QED BY <1>2, <2>1 DEF Init, DatedAt, Busy
<1>4. Dated
  BY <1>3, DatedIs
<1>5. Ages /\ Current /\ OwnHandles /\ ConnectedUndated /\ ClosedIsDead
      /\ ClosingIsCleared /\ AcceptAlone /\ Candidate
  BY <1>2 DEF Init, Ages, Working, Current, OwnHandles, ConnectedUndated, ClosedIsDead,
     ClosingIsCleared, AcceptAlone, Candidate
<1> QED BY <1>1, <1>4, <1>5 DEF IInv

LEMMA IInvStep ==
    ASSUME IInv, ~HandlesRecycled, ~TwoReads, Next \/ UNCHANGED vars PROVE IInv'
<1>1. TypeOK'
  BY TypeStep DEF IInv
<1>2. Ages'
  BY AgesStep DEF IInv
<1>3. Current' /\ ConnectedUndated' /\ ClosedIsDead' /\ ClosingIsCleared'
  BY CurrentStep, ConnectedStep, DeadStep, ClearedStep
<1>4. OwnHandles'
  BY OwnHandlesStep DEF IInv
<1>5. AcceptAlone' /\ Dated'
  BY AloneStep, DatedStep
<1>6. Candidate'
  BY CandidateStep
<1> QED BY <1>1, <1>2, <1>3, <1>4, <1>5, <1>6 DEF IInv

(* Every field of the slots, the threads and the system keeps its type, and*)
(* a worker holds a completion exactly while its handler runs.             *)
THEOREM TypeCorrect == Spec => []TypeOK
<1>1. Init => TypeOK
  BY IInvInit DEF IInv
<1>2. TypeOK /\ [Next]_vars => TypeOK'
  BY TypeStep
<1> QED BY <1>1, <1>2, PTL DEF Spec

LEMMA Invariant == ~HandlesRecycled /\ ~TwoReads => (Spec => []IInv)
<1> SUFFICES ASSUME ~HandlesRecycled, ~TwoReads PROVE Spec => []IInv
  OBVIOUS
<1>1. Init => IInv
  BY IInvInit
<1>2. IInv /\ [Next]_vars => IInv'
  BY IInvStep
<1> QED BY <1>1, <1>2, PTL DEF Spec

(* With the wait of twice the delay, no I/O of an earlier connection is in *)
(* progress on a slot that IOCPServer has offered again.                   *)
THEOREM OneConnectionPerSlot == ~HandlesRecycled /\ ~TwoReads => (Spec => []OutstandingIsCurrent)
<1>1. IInv => OutstandingIsCurrent
  BY DEF IInv, Current, OutstandingIsCurrent
<1> QED BY <1>1, Invariant, PTL

(* stClientInfo::Close closes the socket of the connection it was called   *)
(* for, whatever the workers and the accepter do between its steps.        *)
CloseOwn ==
    \A s \in Sockets : owner[s] # Free /\ owner'[s] = Free =>
        \E w \in Workers : /\ pc[w] = "closesocket" /\ pc'[w] = "invalidate"
                           /\ owner[s] = <<job[w].slot, job[w].gen>>

LEMMA CloseOwnStep ==
    ASSUME IInv, Next \/ UNCHANGED vars PROVE CloseOwn
<1> USE DEF IInv
<1> SUFFICES ASSUME NEW s \in Sockets, owner[s] # Free, owner'[s] = Free
             PROVE  \E w \in Workers : /\ pc[w] = "closesocket" /\ pc'[w] = "invalidate"
                                       /\ owner[s] = <<job[w].slot, job[w].gen>>
  BY DEF CloseOwn
<1>1. ASSUME NEW c \in Slots, PostAccept(c) PROVE FALSE
  <2>1. <<c, gen'[c]>> # Free
    BY DEF Free
  <2>2. UNCHANGED owner \/ \E t \in Sockets : owner' = [owner EXCEPT ![t] = <<c, gen'[c]>>]
    BY <1>1, AcceptEffect
  <2> QED BY <2>1, <2>2 DEF TypeOK
<1>2. ASSUME NEW w \in Workers, CloseHandle(w)
      PROVE  /\ pc[w] = "closesocket" /\ pc'[w] = "invalidate"
             /\ owner[s] = <<job[w].slot, job[w].gen>>
  <2>1. pc[w] = "closesocket" /\ pc'[w] = "invalidate" /\ job[w].slot \in Slots
    BY <1>2, HandlerEffect DEF Handler
  <2>2. Live(job[w].slot) /\ s = sock[job[w].slot]
    BY <1>2, CloseEffect DEF TypeOK, kernel
  <2>3. owner[s] = <<job[w].slot, gen[job[w].slot]>>
    BY <2>1, <2>2 DEF OwnHandles
  <2>4. job[w].gen = gen[job[w].slot]
    BY <2>1 DEF Current, Working
  <2> QED BY <2>1, <2>3, <2>4
<1>3. CASE UNCHANGED owner
  BY <1>3
<1>4. CASE ~UNCHANGED owner
  <2>1. (\E c \in Slots : PostAccept(c)) \/ (\E w \in Workers : CloseHandle(w))
    BY <1>4 DEF Next, Accepter, Worker, Environment, vars, kernel, ReadClock, LookAt, Measure, GetCompletion,
       FailedAccept, OnConnect, ReportConnect, Receive, CheckConnected, ClearConnect,
       StampClosed, Invalidate, ReportClose, Complete, PostSend, Tick
  <2> QED BY <1>1, <1>2, <2>1
<1> QED BY <1>3, <1>4

THEOREM ClosesOnlyItsOwn == ~HandlesRecycled /\ ~TwoReads => (Spec => ClosesOwnSocket)
<1> SUFFICES ASSUME ~HandlesRecycled, ~TwoReads PROVE Spec => ClosesOwnSocket
  OBVIOUS
<1>1. IInv /\ [Next]_vars => [CloseOwn]_vars
  BY CloseOwnStep
<1>2. Spec => []IInv
  BY Invariant
<1>3. ClosesOwnSocket <=> [][CloseOwn]_vars
  BY DEF ClosesOwnSocket, CloseOwn
<1> QED BY <1>1, <1>2, <1>3, PTL DEF Spec

(* The unsynchronised tests of the accepter grant no slot before its wait  *)
(* is over, provided the close time is loaded once.                        *)
Waits == \A c \in Slots : gen'[c] # gen[c] => closedAt[c] # Never /\ now > closedAt[c] + ReuseWait

LEMMA WaitsStep ==
    ASSUME IInv, Next \/ UNCHANGED vars PROVE Waits
<1>1. ASSUME NEW c \in Slots, PostAccept(c) PROVE Waits
  <2>1. \A d \in Slots : d # c => gen'[d] = gen[d]
    BY <1>1, AcceptEffect DEF IInv
  <2> QED BY <1>1, <2>1, NothingLeft DEF Waits, Quiet
<1>2. CASE UNCHANGED gen
  BY <1>2 DEF Waits
<1>3. CASE ~UNCHANGED gen
  <2>1. \E c \in Slots : PostAccept(c)
    BY <1>3 DEF Next, Accepter, Worker, Environment, vars, slotVars, ReadClock, LookAt, Measure,
       GetCompletion, FailedAccept, OnConnect, ReportConnect, Receive, CheckConnected,
       ClearConnect, StampClosed, CloseHandle, Invalidate, ReportClose, Complete, PostSend, Tick
  <2> QED BY <1>1, <2>1
<1> QED BY <1>2, <1>3

THEOREM WaitIsObserved == ~HandlesRecycled /\ ~TwoReads => (Spec => WaitObserved)
<1> SUFFICES ASSUME ~HandlesRecycled, ~TwoReads PROVE Spec => WaitObserved
  OBVIOUS
<1>1. IInv /\ [Next]_vars => [Waits]_vars
  BY WaitsStep
<1>2. Spec => []IInv
  BY Invariant
<1>3. WaitObserved <=> [][Waits]_vars
  BY DEF WaitObserved, Waits
<1> QED BY <1>1, <1>2, <1>3, PTL DEF Spec

(* What SlotNotForgotten asks for a slot neither connected nor dated.      *)
Accounted(c) ==
    \/ acceptFailed[c]
    \/ \E o \in ops \cup port : o.slot = c /\ o.kind = "accept"
    \/ \E w \in Workers : Busy(w, c) /\ pc[w] \in {"accepted", "stamp"}

(* An accept or a close under way is handed on until the slot has a state.  *)
LEMMA NotForgottenStep ==
    ASSUME TypeOK, SlotNotForgotten, Next \/ UNCHANGED vars
    PROVE  SlotNotForgotten'
<1>1. ASSUME ReadClock PROVE SlotNotForgotten'
  BY <1>1 DEF SlotNotForgotten, ReadClock, slotVars, kernel, timeVars, Busy
<1>2. ASSUME NEW c \in Slots, LookAt(c) PROVE SlotNotForgotten'
  BY <1>2 DEF SlotNotForgotten, LookAt, slotVars, kernel, timeVars, Busy
<1>3. ASSUME Measure PROVE SlotNotForgotten'
  BY <1>3 DEF SlotNotForgotten, Measure, slotVars, kernel, timeVars, Busy
<1>4. ASSUME NEW c \in Slots, PostAccept(c) PROVE SlotNotForgotten'
  <2> SUFFICES ASSUME running', NEW d \in Slots, ~isConnect'[d], closedAt'[d] = Never
               PROVE  Accounted(d)'
    BY DEF SlotNotForgotten, Accounted
  <2>1. running /\ ~isConnect[d] /\ UNCHANGED <<port, pc, job>> /\ ops \subseteq ops'
    BY <1>4, AcceptEffect
  <2>2. CASE d = c
    <3>1. acceptFailed'[c] \/ \E o \in ops' : o.kind = "accept" /\ o.slot = c
      BY <1>4, AcceptEffect
    <3> QED BY <2>2, <3>1 DEF Accounted
  <2>3. CASE d # c
    <3>1. closedAt[d] = Never /\ acceptFailed'[d] = acceptFailed[d]
      BY <1>4, <2>3 DEF PostAccept, TypeOK
    <3> QED BY <2>1, <3>1 DEF SlotNotForgotten, Accounted, Busy
  <2> QED BY <2>2, <2>3
<1>5. ASSUME NEW w \in Workers, NEW x \in port, GetCompletion(w, x) PROVE SlotNotForgotten'
  <2> SUFFICES ASSUME running', NEW d \in Slots, ~isConnect'[d], closedAt'[d] = Never
               PROVE  Accounted(d)'
    BY DEF SlotNotForgotten, Accounted
  <2>1. /\ running /\ ~isConnect[d] /\ closedAt[d] = Never
        /\ UNCHANGED <<acceptFailed, ops>> /\ port' = port \ {x}
    BY <1>5 DEF GetCompletion, slotVars
  <2>2. \A v \in Workers : Busy(v, d) => Busy(v, d)' /\ pc'[v] = pc[v]
    BY <1>5, GetEffect DEF Busy
  <2>3. x.slot = d /\ x.kind = "accept" => Busy(w, d)' /\ pc'[w] = "accepted"
    BY <1>5, GetEffect DEF Busy, GetCompletion
  <2> QED BY <2>1, <2>2, <2>3 DEF SlotNotForgotten, Accounted
<1>6. ASSUME NEW w \in Workers, NEW x \in port, FailedAccept(w, x) PROVE SlotNotForgotten'
  BY <1>6 DEF SlotNotForgotten, FailedAccept
<1>7. ASSUME NEW w \in Workers, OnConnect(w) PROVE SlotNotForgotten'
  <2> SUFFICES ASSUME running', NEW d \in Slots, ~isConnect'[d], closedAt'[d] = Never
               PROVE  Accounted(d)'
    BY DEF SlotNotForgotten, Accounted
  <2>1. /\ running /\ UNCHANGED acceptFailed /\ job[w].slot \in Slots
        /\ \A v \in Workers : v # w /\ Busy(v, d) /\ pc[v] \in {"accepted", "stamp"} =>
               Busy(v, d)' /\ pc'[v] = pc[v]
    BY <1>7, HandlerEffect DEF Handler, OnConnect, Busy
  <2>2. /\ d # job[w].slot /\ ~isConnect[d] /\ closedAt[d] = Never
        /\ ops \subseteq ops' /\ port' = port
    BY <1>7, <2>1 DEF OnConnect, TypeOK
  <2> QED BY <2>1, <2>2 DEF SlotNotForgotten, Accounted, Busy
<1>8. ASSUME NEW w \in Workers, ReportConnect(w) PROVE SlotNotForgotten'
  <2> SUFFICES ASSUME running', NEW d \in Slots, ~isConnect'[d], closedAt'[d] = Never
               PROVE  Accounted(d)'
    BY DEF SlotNotForgotten, Accounted
  <2>1. /\ running /\ UNCHANGED acceptFailed /\ job[w].slot \in Slots
        /\ \A v \in Workers : v # w /\ Busy(v, d) /\ pc[v] \in {"accepted", "stamp"} =>
               Busy(v, d)' /\ pc'[v] = pc[v]
    BY <1>8, HandlerEffect DEF Handler, ReportConnect, Busy
  <2>2. /\ ~isConnect[d] /\ closedAt[d] = Never /\ UNCHANGED <<ops, port>>
    BY <1>8 DEF ReportConnect, slotVars, kernel
  <2>3. pc[w] \notin {"accepted", "stamp"}
    BY <1>8 DEF ReportConnect
  <2> QED BY <2>1, <2>2, <2>3 DEF SlotNotForgotten, Accounted, Busy
<1>9. ASSUME NEW w \in Workers, Receive(w) PROVE SlotNotForgotten'
  <2> SUFFICES ASSUME running', NEW d \in Slots, ~isConnect'[d], closedAt'[d] = Never
               PROVE  Accounted(d)'
    BY DEF SlotNotForgotten, Accounted
  <2>1. /\ running /\ UNCHANGED acceptFailed /\ job[w].slot \in Slots
        /\ \A v \in Workers : v # w /\ Busy(v, d) /\ pc[v] \in {"accepted", "stamp"} =>
               Busy(v, d)' /\ pc'[v] = pc[v]
    BY <1>9, HandlerEffect DEF Handler, Receive, Busy
  <2>2. /\ ~isConnect[d] /\ closedAt[d] = Never /\ ops \subseteq ops' /\ port' = port
    BY <1>9 DEF Receive
  <2>3. pc[w] \notin {"accepted", "stamp"}
    BY <1>9 DEF Receive
  <2> QED BY <2>1, <2>2, <2>3 DEF SlotNotForgotten, Accounted, Busy
<1>10. ASSUME NEW w \in Workers, CheckConnected(w) PROVE SlotNotForgotten'
  <2> SUFFICES ASSUME running', NEW d \in Slots, ~isConnect'[d], closedAt'[d] = Never
               PROVE  Accounted(d)'
    BY DEF SlotNotForgotten, Accounted
  <2>1. /\ running /\ UNCHANGED acceptFailed /\ job[w].slot \in Slots
        /\ \A v \in Workers : v # w /\ Busy(v, d) /\ pc[v] \in {"accepted", "stamp"} =>
               Busy(v, d)' /\ pc'[v] = pc[v]
    BY <1>10, HandlerEffect DEF Handler, CheckConnected, Busy
  <2>2. /\ ~isConnect[d] /\ closedAt[d] = Never /\ UNCHANGED <<ops, port>>
    BY <1>10 DEF CheckConnected, slotVars, kernel
  <2>3. pc[w] \notin {"accepted", "stamp"}
    BY <1>10 DEF CheckConnected
  <2> QED BY <2>1, <2>2, <2>3 DEF SlotNotForgotten, Accounted, Busy
<1>11. ASSUME NEW w \in Workers, ClearConnect(w) PROVE SlotNotForgotten'
  <2> SUFFICES ASSUME running', NEW d \in Slots, ~isConnect'[d], closedAt'[d] = Never
               PROVE  Accounted(d)'
    BY DEF SlotNotForgotten, Accounted
  <2>1. /\ running /\ UNCHANGED acceptFailed /\ job[w].slot \in Slots
        /\ \A v \in Workers : v # w /\ Busy(v, d) /\ pc[v] \in {"accepted", "stamp"} =>
               Busy(v, d)' /\ pc'[v] = pc[v]
    BY <1>11, HandlerEffect DEF Handler, ClearConnect, Busy
  <2>2. closedAt[d] = Never /\ (d # job[w].slot => ~isConnect[d]) /\ UNCHANGED <<ops, port>>
    BY <1>11, <2>1 DEF ClearConnect, TypeOK, kernel
  <2>3. pc[w] = "clear" /\ pc'[w] = "stamp" /\ job'[w] = job[w]
    BY <1>11, HandlerEffect DEF Handler, ClearConnect
  <2> QED BY <2>1, <2>2, <2>3 DEF SlotNotForgotten, Accounted, Busy
<1>12. ASSUME NEW w \in Workers, StampClosed(w) PROVE SlotNotForgotten'
  <2> SUFFICES ASSUME running', NEW d \in Slots, ~isConnect'[d], closedAt'[d] = Never
               PROVE  Accounted(d)'
    BY DEF SlotNotForgotten, Accounted
  <2>1. /\ running /\ UNCHANGED acceptFailed /\ job[w].slot \in Slots
        /\ \A v \in Workers : v # w /\ Busy(v, d) /\ pc[v] \in {"accepted", "stamp"} =>
               Busy(v, d)' /\ pc'[v] = pc[v]
    BY <1>12, HandlerEffect DEF Handler, StampClosed, Busy
  <2>2. /\ d # job[w].slot /\ ~isConnect[d] /\ closedAt[d] = Never
        /\ UNCHANGED <<ops, port>>
    BY <1>12, <2>1, SlotsAssumption DEF StampClosed, TypeOK, kernel
  <2> QED BY <2>1, <2>2 DEF SlotNotForgotten, Accounted, Busy
<1>13. ASSUME NEW w \in Workers, CloseHandle(w) PROVE SlotNotForgotten'
  <2> SUFFICES ASSUME running', NEW d \in Slots, ~isConnect'[d], closedAt'[d] = Never
               PROVE  Accounted(d)'
    BY DEF SlotNotForgotten, Accounted
  <2>1. /\ running /\ UNCHANGED acceptFailed /\ job[w].slot \in Slots
        /\ \A v \in Workers : v # w /\ Busy(v, d) /\ pc[v] \in {"accepted", "stamp"} =>
               Busy(v, d)' /\ pc'[v] = pc[v]
    BY <1>13, HandlerEffect DEF Handler, CloseHandle, Busy
  <2>2. ~isConnect[d] /\ closedAt[d] = Never /\ pc[w] = "closesocket"
    BY <1>13, CloseEffect DEF slotVars
  <2>3. \A y \in ops \cup port : y.slot = d /\ y.kind = "accept" =>
            \E z \in ops' \cup port' : z.slot = d /\ z.kind = "accept"
    <3>1. CASE UNCHANGED kernel
      BY <3>1 DEF kernel
    <3>2. CASE ~UNCHANGED kernel
      <4>1. port \subseteq port' /\ \A o \in ops : o \notin ops' => Completion(o, FALSE) \in port'
        BY <1>13, <3>2, CloseEffect
      <4>2. \A o \in ops : Completion(o, FALSE).slot = o.slot /\ Completion(o, FALSE).kind = o.kind
        BY CompletionTyped
      <4> QED BY <4>1, <4>2
    <3> QED BY <3>1, <3>2
  <2> QED BY <2>1, <2>2, <2>3 DEF SlotNotForgotten, Accounted, Busy
<1>14. ASSUME NEW w \in Workers, Invalidate(w) PROVE SlotNotForgotten'
  <2> SUFFICES ASSUME running', NEW d \in Slots, ~isConnect'[d], closedAt'[d] = Never
               PROVE  Accounted(d)'
    BY DEF SlotNotForgotten, Accounted
  <2>1. /\ running /\ UNCHANGED acceptFailed /\ job[w].slot \in Slots
        /\ \A v \in Workers : v # w /\ Busy(v, d) /\ pc[v] \in {"accepted", "stamp"} =>
               Busy(v, d)' /\ pc'[v] = pc[v]
    BY <1>14, HandlerEffect DEF Handler, Invalidate, Busy
  <2>2. /\ ~isConnect[d] /\ closedAt[d] = Never /\ UNCHANGED <<ops, port>>
    BY <1>14 DEF Invalidate, slotVars, kernel
  <2>3. pc[w] \notin {"accepted", "stamp"}
    BY <1>14 DEF Invalidate
  <2> QED BY <2>1, <2>2, <2>3 DEF SlotNotForgotten, Accounted, Busy
<1>15. ASSUME NEW w \in Workers, ReportClose(w) PROVE SlotNotForgotten'
  <2> SUFFICES ASSUME running', NEW d \in Slots, ~isConnect'[d], closedAt'[d] = Never
               PROVE  Accounted(d)'
    BY DEF SlotNotForgotten, Accounted
  <2>1. /\ running /\ UNCHANGED acceptFailed /\ job[w].slot \in Slots
        /\ \A v \in Workers : v # w /\ Busy(v, d) /\ pc[v] \in {"accepted", "stamp"} =>
               Busy(v, d)' /\ pc'[v] = pc[v]
    BY <1>15, HandlerEffect DEF Handler, ReportClose, Busy
  <2>2. /\ ~isConnect[d] /\ closedAt[d] = Never /\ UNCHANGED <<ops, port>>
    BY <1>15 DEF ReportClose, slotVars, kernel
  <2>3. pc[w] \notin {"accepted", "stamp"}
    BY <1>15 DEF ReportClose
  <2> QED BY <2>1, <2>2, <2>3 DEF SlotNotForgotten, Accounted, Busy
<1>16. ASSUME NEW o \in ops, NEW ok \in BOOLEAN, Complete(o, ok) PROVE SlotNotForgotten'
  <2> SUFFICES ASSUME running', NEW d \in Slots, ~isConnect'[d], closedAt'[d] = Never
               PROVE  Accounted(d)'
    BY DEF SlotNotForgotten, Accounted
  <2>1. /\ running /\ ~isConnect[d] /\ closedAt[d] = Never
        /\ UNCHANGED <<acceptFailed, pc, job>>
        /\ ops' = ops \ {o} /\ port' = port \cup {Completion(o, ok)}
    BY <1>16 DEF Complete, slotVars
  <2>2. Completion(o, ok).slot = o.slot /\ Completion(o, ok).kind = o.kind
    BY CompletionTyped
  <2>3. \A y \in ops \cup port : y.slot = d /\ y.kind = "accept" =>
            \E z \in ops' \cup port' : z.slot = d /\ z.kind = "accept"
    BY <2>1, <2>2
  <2> QED BY <2>1, <2>3 DEF SlotNotForgotten, Accounted, Busy
<1>17. ASSUME NEW c \in Slots, PostSend(c) PROVE SlotNotForgotten'
  BY <1>17 DEF SlotNotForgotten, PostSend, slotVars, kernel, timeVars, Busy
<1>18. ASSUME Tick PROVE SlotNotForgotten'
  BY <1>18 DEF SlotNotForgotten, Busy, Tick, slotVars, kernel
<1>19. CASE UNCHANGED vars
  BY <1>19 DEF SlotNotForgotten, Busy, vars
<1> QED BY <1>1, <1>2, <1>3, <1>4, <1>5, <1>6, <1>7, <1>8, <1>9, <1>10, <1>11, <1>12, <1>13, <1>14, <1>15, <1>16, <1>17, <1>18, <1>19
       DEF Next, Accepter, Worker, Environment

(* A slot that waits for a client is on its way to one: the accepter and   *)
(* the workers lose no slot between them.  This needs neither hypothesis.  *)
THEOREM NoSlotLost == Spec => []SlotNotForgotten
<1>1. Init => TypeOK /\ SlotNotForgotten
  <2>1. Init => TypeOK
    BY IInvInit DEF IInv
  <2> QED BY <2>1, SlotsAssumption DEF Init, SlotNotForgotten
<1>2. TypeOK /\ SlotNotForgotten /\ [Next]_vars => (TypeOK /\ SlotNotForgotten)'
  BY TypeStep, NotForgottenStep
<1> QED BY <1>1, <1>2, PTL DEF Spec

(* No report names a connection the slot has not had yet.                   *)
Reported == \A c \in Slots : \A i \in 1..Len(sysLog[c]) : sysLog[c][i][2] <= gen[c]

Reports == Reported /\ ReportsByConnection

(* A report names the connection the slot holds, for a handler that still   *)
(* runs is one of it (Current), so it comes after all the others.           *)
LEMMA ReportStep ==
    ASSUME IInv, Reports, NEW w \in Workers, pc[w] # "wait",
           NEW k \in {"connect", "disconnect"}, UNCHANGED gen,
           sysLog' = [sysLog EXCEPT ![job[w].slot] = Append(@, <<k, job[w].gen>>)]
    PROVE  Reports'
<1> DEFINE a == job[w].slot
           e == <<k, job[w].gen>>
<1>1. /\ a \in Slots /\ job[w].gen = gen[a] /\ gen[a] \in Nat
      /\ e \in {"connect", "disconnect"} \X Nat /\ e[2] = gen[a]
  BY JobTyped DEF IInv, Current, Working, TypeOK
<1>2. ASSUME NEW c \in Slots, c # a PROVE sysLog'[c] = sysLog[c]
  BY <1>1, <1>2 DEF IInv, TypeOK
<1>3. /\ sysLog[a] \in Seq({"connect", "disconnect"} \X Nat)
      /\ sysLog'[a] = Append(sysLog[a], e)
  BY <1>1 DEF IInv, TypeOK
<1> HIDE DEF e
<1>4. /\ Len(sysLog[a]) \in Nat /\ Len(sysLog'[a]) = Len(sysLog[a]) + 1
      /\ \A i \in 1..Len(sysLog[a]) : sysLog'[a][i] = sysLog[a][i]
      /\ sysLog'[a][Len(sysLog[a]) + 1] = e
  BY <1>1, <1>3
<1>5. \A i \in 1..Len(sysLog[a]) : sysLog[a][i][2] \in Nat
  BY <1>3
<1>6. ASSUME NEW c \in Slots, NEW i \in 1..Len(sysLog'[c])
      PROVE  sysLog'[c][i][2] <= gen'[c]
  <2>1. CASE c = a
    BY <1>1, <1>4, <1>6, <2>1 DEF Reports, Reported
  <2>2. CASE c # a
    BY <1>2, <1>6, <2>2 DEF Reports, Reported
  <2> QED BY <2>1, <2>2
<1>7. ASSUME NEW c \in Slots, NEW i \in 1..Len(sysLog'[c]), NEW j \in 1..Len(sysLog'[c]), i < j
      PROVE  sysLog'[c][i][2] <= sysLog'[c][j][2]
  <2>1. CASE c = a /\ j = Len(sysLog[a]) + 1
    BY <1>1, <1>4, <1>6, <2>1
  <2>2. CASE c = a /\ j # Len(sysLog[a]) + 1
    <3>1. i \in 1..Len(sysLog[a]) /\ j \in 1..Len(sysLog[a])
      BY <1>4, <1>7, <2>2
    <3> QED BY <1>1, <1>4, <1>7, <2>2, <3>1 DEF Reports, ReportsByConnection
  <2>3. CASE c # a
    BY <1>2, <1>7, <2>3 DEF Reports, ReportsByConnection
  <2> QED BY <2>1, <2>2, <2>3
<1> QED BY <1>6, <1>7 DEF Reports, Reported, ReportsByConnection

LEMMA ReportsStep ==
    ASSUME IInv, Reports, Next \/ UNCHANGED vars PROVE Reports'
<1>1. ASSUME NEW c \in Slots, PostAccept(c) PROVE Reports'
  <2>1. UNCHANGED sysLog
    BY <1>1 DEF PostAccept
  <2>2. \A d \in Slots : gen[d] \in Nat /\ gen'[d] \in Nat /\ gen[d] <= gen'[d]
    <3>1. TypeOK /\ \A d \in Slots : gen[d] \in Nat
      BY DEF IInv, TypeOK
    <3>2. gen'[c] = gen[c] + 1 /\ \A d \in Slots : d # c => gen'[d] = gen[d]
      BY <1>1, <3>1, AcceptEffect
    <3> QED BY <3>1, <3>2
  <2>3. \A d \in Slots : \A i \in 1..Len(sysLog[d]) : sysLog[d][i][2] \in Nat
    <3>1. \A d \in Slots : sysLog[d] \in Seq({"connect", "disconnect"} \X Nat)
      BY DEF IInv, TypeOK
    <3> QED BY <3>1
  <2>4. ASSUME NEW d \in Slots, NEW i \in 1..Len(sysLog[d])
        PROVE  sysLog[d][i][2] <= gen'[d]
    <3>1. sysLog[d][i][2] \in Nat /\ sysLog[d][i][2] <= gen[d]
      BY <2>3 DEF Reports, Reported
    <3>2. gen[d] \in Nat /\ gen'[d] \in Nat /\ gen[d] <= gen'[d]
      BY <2>2
    <3> QED BY <3>1, <3>2
  <2> QED BY <2>1, <2>4 DEF Reports, Reported, ReportsByConnection
<1>2. ASSUME NEW w \in Workers, ReportConnect(w) \/ ReportClose(w) PROVE Reports'
  <2>1. pc[w] # "wait" /\ UNCHANGED gen
    BY <1>2 DEF ReportConnect, ReportClose, slotVars
  <2>2. PICK k \in {"connect", "disconnect"} :
            sysLog' = [sysLog EXCEPT ![job[w].slot] = Append(@, <<k, job[w].gen>>)]
    BY <1>2 DEF ReportConnect, ReportClose
  <2> QED BY <2>1, <2>2, ReportStep
<1>3. CASE UNCHANGED <<gen, sysLog>>
  BY <1>3 DEF Reports, Reported, ReportsByConnection
<1>4. CASE ~UNCHANGED <<gen, sysLog>>
  <2>1. \/ \E c \in Slots : PostAccept(c)
        \/ \E w \in Workers : ReportConnect(w) \/ ReportClose(w)
    BY <1>4 DEF Next, Accepter, Worker, Environment, vars, slotVars, ReadClock, LookAt, Measure,
       GetCompletion, FailedAccept, OnConnect, Receive, CheckConnected,
       ClearConnect, StampClosed, CloseHandle, Invalidate, Complete, PostSend, Tick
  <2> QED BY <1>1, <1>2, <2>1
<1> QED BY <1>3, <1>4

(* The packet thread learns of the connections of a slot one after the      *)
(* other, although any worker may push the report of any of them.           *)
THEOREM ReportsInOrder == ~HandlesRecycled /\ ~TwoReads => (Spec => []ReportsByConnection)
<1> SUFFICES ASSUME ~HandlesRecycled, ~TwoReads PROVE Spec => []ReportsByConnection
  OBVIOUS
<1>1. Init => Reports
  BY DEF Init, Reports, Reported, ReportsByConnection
<1>2. IInv /\ Reports /\ [Next]_vars => Reports'
  BY ReportsStep
<1>3. Spec => []IInv
  BY Invariant
<1>4. Reports => ReportsByConnection
  BY DEF Reports
<1> QED BY <1>1, <1>2, <1>3, <1>4, PTL DEF Spec

============================================================================
