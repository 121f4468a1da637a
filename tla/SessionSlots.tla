---------------------------- MODULE SessionSlots ----------------------------
(***************************************************************************)
(* The life of the connection slots of the session server: IOCPServer      *)
(* (ServerNetwork/IOCPServer.h) and stClientInfo (ClientInfo.h), with what *)
(* SessionServer::OnConnect and OnClose report to the PacketManager.       *)
(*                                                                         *)
(* A slot is offered to clients by PostAccept, connected by the worker     *)
(* that takes the accept completion, and closed by any worker that takes a *)
(* failed completion of it.  The accepter offers it again when more than   *)
(* RE_USE_SESSION_WAIT_TIMESEC (ReuseWait) seconds have passed since the   *)
(* close.  Nothing else separates two users of a slot: no field is locked, *)
(* a completion names the slot and not the connection, and CloseSocket     *)
(* tests IsConnectd in one step and acts on it in later ones.  So the wait *)
(* must outlast the work left over from the old connection.  MaxDelay is   *)
(* the time, in seconds, within which a completion in the port is taken    *)
(* and its handler has run.                                                *)
(*                                                                         *)
(* gen counts the accepts of a slot.  I/O in progress and completions are  *)
(* tagged with it; the program never sees the tag.  A handle that has been *)
(* closed is given out again; HandlesRecycled says whether that may happen *)
(* while the slot that closed it still stores it.                          *)
(*                                                                         *)
(* The accepter reads the close time for two tests in a row, without a     *)
(* lock.  TwoReads says whether the build loads the field twice or keeps   *)
(* the first value.  PostAccept is one step: when it starts, nothing else  *)
(* can touch the slot, or the properties have already failed.              *)
(*                                                                         *)
(* Left out: sends beyond their completions (SendQueue), the bytes         *)
(* received (LoginService), mClientCnt, which is counted and never read,   *)
(* and shutdown and linger, which change no state of the slot.             *)
(***************************************************************************)
EXTENDS Naturals, Sequences, FiniteSets

CONSTANTS
    Slots,        \* the stClientInfo of mClientInfos
    Workers,      \* the threads of mIOWorkerThreads
    Sockets,      \* socket handles
    NoSocket,     \* INVALID_SOCKET
    Never,        \* the UINT32_MAX that PostAccept stores as close time
    NoJob,        \* a worker waiting in GetQueuedCompletionStatus
    NoSlot,       \* an accepter between two slots
    HandlesRecycled,    \* may a handle some slot still stores be given out?
    TwoReads,     \* does the accepter load the close time for each test?
    ReuseWait,    \* RE_USE_SESSION_WAIT_TIMESEC
    MaxDelay,     \* bound on the age of a completion when its handler ends
    MaxTime,      \* bound on the clock
    MaxGen        \* bound on the accepts of one slot

Kinds == {"accept", "recv", "send"}    \* IOOperation
Operations  == [kind : Kinds, slot : Slots, gen : Nat, sock : Sockets]
Completions == [kind : Kinds, slot : Slots, gen : Nat, ok : BOOLEAN, at : Nat]
Labels      == {"wait", "accepted", "report", "receive", "check", "clear", "stamp",
                "closesocket", "invalidate", "onclose"}

ASSUME SlotsAssumption ==
    /\ NoSocket \notin Sockets /\ Never \notin Nat /\ NoJob \notin Completions
    /\ HandlesRecycled \in BOOLEAN /\ TwoReads \in BOOLEAN /\ NoSlot \notin Slots
    /\ ReuseWait \in Nat /\ MaxDelay \in Nat /\ MaxTime \in Nat /\ MaxGen \in Nat

(* What the wait is for.  The close time is taken before closesocket, so a *)
(* handler may still abort I/O MaxDelay after it, and the completions that *)
(* gives take MaxDelay more.                                               *)
ASSUME WaitAssumption == 2 * MaxDelay <= ReuseWait

VARIABLES
    isConnect,     \* stClientInfo::mIsConnect
    closedAt,      \* stClientInfo::mLatestClosedTimeSec
    sock,          \* stClientInfo::mSocket
    gen,           \* accepts posted on the slot so far
    acceptFailed,  \* the last PostAccept of the slot returned false
    owner,         \* who has the handle: <<slot, gen>>, or none
    ops,           \* I/O in progress
    port,          \* completions waiting in the completion port
    pc, job,       \* where each worker is, and the completion it handles
    sysLog,        \* system packets pushed for the slot
    apc, acand,    \* where the accepter is, and the slot it looks at
    accTime,       \* curTimeSec of the accepter's current pass
    now,           \* steady_clock, in seconds
    running        \* no access through a null stClientInfo has happened

slotVars == <<isConnect, closedAt, sock, gen, acceptFailed>>
kernel   == <<owner, ops, port>>
accepter == <<apc, acand, accTime>>
timeVars == <<apc, acand, accTime, now>>
vars     == <<isConnect, closedAt, sock, gen, acceptFailed, owner, ops,
              port, pc, job, sysLog, apc, acand, accTime, now, running>>

Free == << >>

Init ==
    /\ isConnect = [c \in Slots |-> FALSE]
    /\ closedAt = [c \in Slots |-> 0]
    /\ sock = [c \in Slots |-> NoSocket]
    /\ gen = [c \in Slots |-> 0]
    /\ acceptFailed = [c \in Slots |-> FALSE]
    /\ owner = [s \in Sockets |-> Free]
    /\ ops = {} /\ port = {}
    /\ pc = [w \in Workers |-> "wait"]
    /\ job = [w \in Workers |-> NoJob]
    /\ sysLog = [c \in Slots |-> << >>]
    /\ now = ReuseWait + 1    \* the machine has been up for longer than the wait
    /\ accTime = now /\ apc = "scan" /\ acand = NoSlot
    /\ running = TRUE

\* The slot's handle is one the system knows, whoever opened it.
Live(c) == sock[c] \in Sockets /\ owner[sock[c]] # Free

Operation(kind, c) == [kind |-> kind, slot |-> c, gen |-> gen[c], sock |-> sock[c]]

\* A handle WSASocket may give out.
Available(s) ==
    /\ owner[s] = Free
    /\ HandlesRecycled \/ \A c \in Slots : sock[c] # s

\* The completion of operation o at this moment.
Completion(o, ok) ==
    [kind |-> o.kind, slot |-> o.slot, gen |-> o.gen, ok |-> ok, at |-> now]

----------------------------------------------------------------------------
(* The accepter thread.                                                    *)

\* Variant: the time is read once, before the loop over the passes.
ClockReadOnce ==
    /\ apc = "scan" /\ accTime # now
    /\ UNCHANGED vars

\* auto curTimeSec = ...: read once per pass over the slots.
ReadClock ==
    /\ apc = "scan" /\ accTime # now
    /\ accTime' = now
    /\ UNCHANGED <<slotVars, kernel, pc, job, sysLog, apc, acand, now, running>>

\* Variant: < instead of <= in the comparison with the wait.
WaitedAlmost(t) == t > accTime \/ accTime - t >= ReuseWait

\* Variant: the third test is left out.
NoWait(t) == t <= accTime

\* curTimeSec - t is unsigned: with a close time t after curTimeSec it wraps
\* to more than any wait.
Waited(t) == t > accTime \/ accTime - t > ReuseWait

\* The first two tests.  The third uses the value read here, or reads anew.
LookAt(c) ==
    /\ apc = "scan" /\ gen[c] < MaxGen
    /\ ~isConnect[c] /\ closedAt[c] # Never /\ closedAt[c] <= accTime
    /\ acand' = c
    /\ \/ TwoReads /\ apc' = "measure"
       \/ ~TwoReads /\ Waited(closedAt[c]) /\ apc' = "post"
    /\ UNCHANGED <<slotVars, kernel, pc, job, sysLog, accTime, now, running>>

Measure ==
    /\ apc = "measure"
    /\ IF Waited(closedAt[acand])
       THEN apc' = "post" /\ UNCHANGED acand
       ELSE apc' = "scan" /\ acand' = NoSlot
    /\ UNCHANGED <<slotVars, kernel, pc, job, sysLog, accTime, now, running>>

\* WSASocket may fail, and AcceptEx may fail on the socket it gave.
PostAccept(c) ==
    /\ apc = "post" /\ acand = c
    /\ apc' = "scan" /\ acand' = NoSlot
    /\ closedAt' = [closedAt EXCEPT ![c] = Never]
    /\ gen' = [gen EXCEPT ![c] = @ + 1]
    /\ \/ /\ sock' = [sock EXCEPT ![c] = NoSocket]
          /\ acceptFailed' = [acceptFailed EXCEPT ![c] = TRUE]
          /\ UNCHANGED <<owner, ops>>
       \/ \E s \in Sockets :
              /\ Available(s)
              /\ sock' = [sock EXCEPT ![c] = s]
              /\ owner' = [owner EXCEPT ![s] = <<c, gen[c] + 1>>]
              /\ \/ /\ ops' = ops \cup {[kind |-> "accept", slot |-> c,
                                         gen |-> gen[c] + 1, sock |-> s]}
                    /\ acceptFailed' = [acceptFailed EXCEPT ![c] = FALSE]
                 \/ /\ acceptFailed' = [acceptFailed EXCEPT ![c] = TRUE]
                    /\ UNCHANGED ops
    /\ UNCHANGED <<isConnect, port, pc, job, sysLog, accTime, now, running>>

----------------------------------------------------------------------------
(* The worker threads.                                                     *)

\* A worker whose handler goes on at label l, or has ended at "wait".
Goto(w, l) ==
    /\ pc' = [pc EXCEPT ![w] = l]
    /\ job' = [job EXCEPT ![w] = IF l = "wait" THEN NoJob ELSE @]

\* A send that succeeded changes the send queue only.
GetCompletion(w, x) ==
    /\ pc[w] = "wait" /\ x \in port
    /\ x.ok \/ x.kind # "accept"
    /\ port' = port \ {x}
    /\ IF x.ok /\ x.kind = "send"
       THEN UNCHANGED <<pc, job>>
       ELSE /\ pc' = [pc EXCEPT ![w] = IF ~x.ok THEN "check"
                                       ELSE IF x.kind = "accept" THEN "accepted" ELSE "receive"]
            /\ job' = [job EXCEPT ![w] = x]
    /\ UNCHANGED <<slotVars, owner, ops, sysLog, timeVars, running>>

\* The completion key of the listen socket is 0, so the failure of an accept
\* reaches CloseSocket with a null pClientInfo and IsConnectd reads through it.
FailedAccept(w, x) ==
    /\ pc[w] = "wait" /\ x \in port
    /\ ~x.ok /\ x.kind = "accept"
    /\ running' = FALSE
    /\ UNCHANGED <<slotVars, kernel, pc, job, sysLog, timeVars>>

\* AcceptCompletion, stClientInfo::OnConnect and its BindRecv, which needs an
\* open socket and may fail on one.
OnConnect(w) ==
    LET c == job[w].slot IN
    /\ pc[w] = "accepted"
    /\ isConnect' = [isConnect EXCEPT ![c] = TRUE]
    /\ \/ /\ Live(c)
          /\ ops' = ops \cup {Operation("recv", c)}
          /\ Goto(w, "report")
       \/ /\ Goto(w, "check")
          /\ UNCHANGED ops
    /\ UNCHANGED <<closedAt, sock, gen, acceptFailed, owner, port, sysLog, timeVars, running>>

\* SessionServer::OnConnect.
ReportConnect(w) ==
    LET c == job[w].slot IN
    /\ pc[w] = "report"
    /\ sysLog' = [sysLog EXCEPT ![c] = Append(@, <<"connect", job[w].gen>>)]
    /\ Goto(w, "wait")
    /\ UNCHANGED <<slotVars, kernel, timeVars, running>>

\* OnReceive, then BindRecv, whose result is not looked at.
Receive(w) ==
    LET c == job[w].slot IN
    /\ pc[w] = "receive"
    /\ \/ /\ Live(c)
          /\ ops' = ops \cup {Operation("recv", c)}
       \/ UNCHANGED ops
    /\ Goto(w, "wait")
    /\ UNCHANGED <<isConnect, closedAt, sock, gen, acceptFailed, owner, port, sysLog,
                   timeVars, running>>

\* CloseSocket: the early return.
CheckConnected(w) ==
    /\ pc[w] = "check"
    /\ Goto(w, IF isConnect[job[w].slot] THEN "clear" ELSE "wait")
    /\ UNCHANGED <<slotVars, kernel, sysLog, timeVars, running>>

\* Close: mIsConnect = 0.
ClearConnect(w) ==
    /\ pc[w] = "clear"
    /\ isConnect' = [isConnect EXCEPT ![job[w].slot] = FALSE]
    /\ Goto(w, "stamp")
    /\ UNCHANGED <<closedAt, sock, gen, acceptFailed, kernel, sysLog, timeVars,
                   running>>

\* Close: mLatestClosedTimeSec = now.
StampClosed(w) ==
    /\ pc[w] = "stamp"
    /\ closedAt' = [closedAt EXCEPT ![job[w].slot] = now]
    /\ Goto(w, "closesocket")
    /\ UNCHANGED <<isConnect, sock, gen, acceptFailed, kernel, sysLog, timeVars,
                   running>>

\* Close: closesocket(mSocket).  The I/O in progress on the handle fails.
CloseHandle(w) ==
    LET c == job[w].slot
        aborted == {o \in ops : o.sock = sock[c]}
    IN
    /\ pc[w] = "closesocket"
    /\ IF Live(c)
       THEN /\ owner' = [owner EXCEPT ![sock[c]] = Free]
            /\ ops' = ops \ aborted
            /\ port' = port \cup {Completion(o, FALSE) : o \in aborted}
       ELSE UNCHANGED kernel
    /\ Goto(w, "invalidate")
    /\ UNCHANGED <<slotVars, sysLog, timeVars, running>>

\* Close: mSocket = INVALID_SOCKET.
Invalidate(w) ==
    /\ pc[w] = "invalidate"
    /\ sock' = [sock EXCEPT ![job[w].slot] = NoSocket]
    /\ Goto(w, "onclose")
    /\ UNCHANGED <<isConnect, closedAt, gen, acceptFailed, kernel, sysLog, timeVars,
                   running>>

\* SessionServer::OnClose.
ReportClose(w) ==
    LET c == job[w].slot IN
    /\ pc[w] = "onclose"
    /\ sysLog' = [sysLog EXCEPT ![c] = Append(@, <<"disconnect", job[w].gen>>)]
    /\ Goto(w, "wait")
    /\ UNCHANGED <<slotVars, kernel, timeVars, running>>

----------------------------------------------------------------------------
(* The system around the server.                                           *)

\* A client connects, data arrives, a send finishes; or the peer is gone.
Complete(o, ok) ==
    /\ o \in ops
    /\ ops' = ops \ {o}
    /\ port' = port \cup {Completion(o, ok)}
    /\ UNCHANGED <<slotVars, owner, pc, job, sysLog, timeVars, running>>

\* SendIO on a connected slot: stClientInfo has one send under way at a time.
PostSend(c) ==
    /\ isConnect[c] /\ Live(c)
    /\ \A o \in ops \cup port : ~(o.kind = "send" /\ o.slot = c)
    /\ ops' = ops \cup {Operation("send", c)}
    /\ UNCHANGED <<slotVars, owner, port, pc, job, sysLog, timeVars, running>>

\* Time passes, and nothing waits or runs for longer than MaxDelay.
Tick ==
    /\ now < MaxTime
    /\ \A x \in port : now < x.at + MaxDelay
    /\ \A w \in Workers : pc[w] # "wait" => now < job[w].at + MaxDelay
    /\ now' = now + 1
    /\ UNCHANGED <<slotVars, kernel, pc, job, sysLog, accepter, running>>

----------------------------------------------------------------------------
Accepter == ReadClock \/ Measure \/ \E c \in Slots : LookAt(c) \/ PostAccept(c)

Worker(w) ==
    \/ \E x \in port : GetCompletion(w, x) \/ FailedAccept(w, x)
    \/ OnConnect(w) \/ ReportConnect(w) \/ Receive(w)
    \/ CheckConnected(w) \/ ClearConnect(w) \/ StampClosed(w)
    \/ CloseHandle(w) \/ Invalidate(w) \/ ReportClose(w)

Environment ==
    \/ \E o \in ops, ok \in BOOLEAN : Complete(o, ok)
    \/ \E c \in Slots : PostSend(c)
    \/ Tick

Next == running /\ (Accepter \/ Environment \/ \E w \in Workers : Worker(w))

Spec == Init /\ [][Next]_vars

\* The threads run until the process ends, and time does not stop.  Every pass of
\* the accepter reads the clock and comes to every slot, so neither is kept from
\* happening by the other: SF.
Fairness ==
    /\ \A w \in Workers : WF_vars(running /\ Worker(w))
    /\ SF_vars(running /\ ReadClock)
    /\ WF_vars(running /\ Measure)
    /\ \A c \in Slots : SF_vars(running /\ LookAt(c)) /\ WF_vars(running /\ PostAccept(c))
    /\ WF_vars(running /\ Tick)

FairSpec == Spec /\ Fairness

----------------------------------------------------------------------------
TypeOK ==
    /\ isConnect \in [Slots -> BOOLEAN]
    /\ closedAt \in [Slots -> Nat \cup {Never}]
    /\ sock \in [Slots -> Sockets \cup {NoSocket}]
    /\ gen \in [Slots -> Nat]
    /\ acceptFailed \in [Slots -> BOOLEAN]
    /\ owner \in [Sockets -> {Free} \cup (Slots \X Nat)]
    /\ ops \subseteq Operations /\ port \subseteq Completions
    /\ pc \in [Workers -> Labels]
    /\ job \in [Workers -> Completions \cup {NoJob}]
    /\ \A w \in Workers : pc[w] = "wait" <=> job[w] = NoJob
    /\ sysLog \in [Slots -> Seq({"connect", "disconnect"} \X Nat)]
    /\ apc \in {"scan", "measure", "post"} /\ acand \in Slots \cup {NoSlot}
    /\ apc = "scan" <=> acand = NoSlot
    /\ accTime \in Nat /\ now \in Nat /\ accTime <= now
    /\ running \in BOOLEAN

Busy(w, c) == pc[w] # "wait" /\ job[w].slot = c

(* All I/O in progress belongs to the connection the slot holds now and to *)
(* the socket stored in it: nothing of an earlier connection is left when  *)
(* the slot has been offered again.                                        *)
OutstandingIsCurrent ==
    \A o \in ops : o.gen = gen[o.slot] /\ o.sock = sock[o.slot]

(* A slot that is neither connected nor dated for reuse is on its way to   *)
(* one of them, unless its PostAccept failed: no race of the accepter with *)
(* the workers makes a slot disappear.                                     *)
SlotNotForgotten ==
    running => \A c \in Slots :
        ~isConnect[c] /\ closedAt[c] = Never =>
            \/ acceptFailed[c]
            \/ \E o \in ops \cup port : o.slot = c /\ o.kind = "accept"
            \/ \E w \in Workers : Busy(w, c) /\ pc[w] \in {"accepted", "stamp"}

(* The system packets of a slot reach the queue connection by connection.  *)
(* Within one connection the order is not fixed: a failure may overtake    *)
(* the report of the connect, and be reported twice.                       *)
ReportsByConnection ==
    \A c \in Slots : \A i, j \in 1..Len(sysLog[c]) :
        i < j => sysLog[c][i][2] <= sysLog[c][j][2]

(* A worker that closes a slot closes the socket of the connection whose   *)
(* completion it handles, and never one of a later user or of another slot.*)
ClosesOwnSocket ==
    [][\A s \in Sockets : owner[s] # Free /\ owner'[s] = Free =>
           \E w \in Workers :
               /\ pc[w] = "closesocket" /\ pc'[w] = "invalidate"
               /\ owner[s] = <<job[w].slot, job[w].gen>>]_vars

(* A slot is offered again only when more than RE_USE_SESSION_WAIT_TIMESEC *)
(* seconds have passed since it was last closed, although the tests and    *)
(* the closing of the slot are not synchronised.                           *)
WaitObserved ==
    [][\A c \in Slots : gen'[c] # gen[c] => closedAt[c] # Never /\ now > closedAt[c] + ReuseWait]_vars

(* A closed slot is offered again, as long as the bounds of the model      *)
(* leave time for it.                                                      *)
SlotReoffered ==
    \A c \in Slots :
        /\ gen[c] < MaxGen /\ ~isConnect[c]
        /\ closedAt[c] # Never /\ closedAt[c] + ReuseWait + 1 <= MaxTime
        ~> closedAt[c] = Never \/ closedAt[c] + ReuseWait + 1 > MaxTime \/ ~running
============================================================================
