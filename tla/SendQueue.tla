----------------------------- MODULE SendQueue -----------------------------
(***************************************************************************)
(* The send queue of one connection slot: stClientInfo::SendMsg,           *)
(* SendCompleted and SendIO (ServerNetwork/ClientInfo.h), called by the    *)
(* threads that answer clients and by the worker that takes a send         *)
(* completion in IOCPServer::WokerThread.                                  *)
(*                                                                         *)
(* mSendLock protects the queue.  The message at its head is the one given *)
(* to WSASend; SendCompleted removes it and sends the next.  Close does    *)
(* not take the lock and does not touch the queue, and a WSASend that      *)
(* fails or is aborted is never removed from it: whatever is in the queue  *)
(* then stays there, and so does whatever the next connection of the slot  *)
(* pushes behind it.                                                       *)
(*                                                                         *)
(* A message is its number in the order of the pushes, with gen, the       *)
(* connection of the slot at that moment; the program sees neither.        *)
(* Which connection an answer was meant for is the matter of LoginService. *)
(* The slot is connected again when the work on the old connection is      *)
(* over: SessionSlots says why (OutstandingIsCurrent and the wait).        *)
(***************************************************************************)
EXTENDS Naturals, Sequences

CONSTANTS
    Senders,    \* threads that call SendMsg
    Workers,    \* threads of mIOWorkerThreads
    Nobody,     \* mSendLock is free
    MaxMsg,     \* bound on the messages pushed
    MaxGen      \* bound on the connections of the slot

Threads == Senders \cup Workers
Sends   == [n : Nat, gen : Nat]
Labels  == {"idle", "lock", "sendio", "completed", "close"}

ASSUME ThreadsAssumption ==
    /\ Senders \cap Workers = {} /\ Nobody \notin Threads
    /\ MaxMsg \in Nat /\ MaxGen \in Nat

VARIABLES
    open,       \* mSocket is a connected socket
    gen,        \* connections of the slot so far
    queue,      \* mSendDataqueue
    lock,       \* mSendLock: the thread that holds it
    pc,         \* where each thread is
    ops,        \* WSASends in progress
    port,       \* their completions: [send, ok]
    pushed,     \* number of messages pushed
    wire,       \* sends the system has carried out, in order
    sendFailed, \* a WSASend on this connection returned an error
    cut         \* a WSASend has failed or was aborted, on any connection

slotVars == <<open, gen, sendFailed>>
vars == <<open, gen, queue, lock, pc, ops, port, pushed, wire, sendFailed, cut>>

Completions == [send : Sends, ok : BOOLEAN]

Init ==
    /\ open = FALSE /\ gen = 0
    /\ queue = << >> /\ lock = Nobody
    /\ pc = [t \in Threads |-> "idle"]
    /\ ops = {} /\ port = {}
    /\ pushed = 0 /\ wire = << >>
    /\ sendFailed = FALSE /\ cut = FALSE

Goto(t, l) == pc' = [pc EXCEPT ![t] = l]

----------------------------------------------------------------------------
(* SendMsg.                                                                *)

\* Before the lock: the message is copied.
SendMsg(t) ==
    /\ t \in Senders /\ pc[t] = "idle"
    /\ Goto(t, "lock")
    /\ UNCHANGED <<slotVars, queue, lock, ops, port, pushed, wire, cut>>

\* Variant: the test of the size is left out.
PushAlwaysSending(t) ==
    /\ pc[t] = "lock" /\ lock = Nobody /\ pushed < MaxMsg
    /\ pushed' = pushed + 1
    /\ queue' = Append(queue, [n |-> pushed + 1, gen |-> gen])
    /\ Goto(t, "sendio") /\ lock' = t
    /\ UNCHANGED <<slotVars, ops, port, wire, cut>>

\* The lock is kept if SendIO is called.
Push(t) ==
    /\ pc[t] = "lock" /\ lock = Nobody /\ pushed < MaxMsg
    /\ pushed' = pushed + 1
    /\ queue' = Append(queue, [n |-> pushed + 1, gen |-> gen])
    /\ IF Len(queue') = 1
       THEN Goto(t, "sendio") /\ lock' = t
       ELSE Goto(t, "idle") /\ UNCHANGED lock
    /\ UNCHANGED <<slotVars, ops, port, wire, cut>>

\* Variant: a message whose WSASend failed is removed from the queue.
SendIORemovingFailed(t) ==
    /\ pc[t] = "sendio"
    /\ Goto(t, "idle") /\ lock' = Nobody
    /\ \/ /\ open
          /\ ops' = ops \cup {[n |-> Head(queue).n, gen |-> gen]}
          /\ UNCHANGED <<queue, sendFailed, cut>>
       \/ /\ sendFailed' = open /\ cut' = TRUE
          /\ queue' = Tail(queue)
          /\ UNCHANGED ops
    /\ UNCHANGED <<open, gen, port, pushed, wire>>

\* WSASend on mSocket as it is now; it needs a connected socket and may fail
\* on one.  Nobody looks at the result.
SendIO(t) ==
    /\ pc[t] = "sendio"
    /\ Goto(t, "idle") /\ lock' = Nobody
    /\ \/ /\ open
          /\ ops' = ops \cup {[n |-> Head(queue).n, gen |-> gen]}
          /\ UNCHANGED <<sendFailed, cut>>
       \/ /\ sendFailed' = open /\ cut' = TRUE
          /\ UNCHANGED ops
    /\ UNCHANGED <<open, gen, queue, port, pushed, wire>>

----------------------------------------------------------------------------
(* The workers: WokerThread, SendCompleted, and CloseSocket for a failure. *)

GetCompletion(w, x) ==
    /\ w \in Workers /\ pc[w] = "idle" /\ x \in port
    /\ port' = port \ {x}
    /\ Goto(w, IF x.ok THEN "completed" ELSE "close")
    /\ UNCHANGED <<slotVars, queue, lock, ops, pushed, wire, cut>>

\* Variant: the next send is not started.
SendCompletedStopping(w) ==
    /\ pc[w] = "completed" /\ lock = Nobody
    /\ queue' = Tail(queue)
    /\ Goto(w, "idle") /\ UNCHANGED lock
    /\ UNCHANGED <<slotVars, ops, port, pushed, wire, cut>>

SendCompleted(w) ==
    /\ pc[w] = "completed" /\ lock = Nobody
    /\ queue' = Tail(queue)
    /\ IF queue' # << >>
       THEN Goto(w, "sendio") /\ lock' = w
       ELSE Goto(w, "idle") /\ UNCHANGED lock
    /\ UNCHANGED <<slotVars, ops, port, pushed, wire, cut>>

\* Close: the sends in progress on the socket fail.
Abort ==
    /\ ops' = {}
    /\ port' = port \cup {[send |-> o, ok |-> FALSE] : o \in ops}
    /\ cut' = (cut \/ ops # {})

CloseSocket(w) ==
    /\ pc[w] = "close"
    /\ Goto(w, "idle")
    /\ open' = FALSE
    /\ IF open THEN Abort ELSE UNCHANGED <<ops, port, cut>>
    /\ UNCHANGED <<gen, queue, lock, pushed, wire, sendFailed>>

----------------------------------------------------------------------------
(* The system, and the rest of the server.                                 *)

\* A send is carried out, or the peer is gone.
Complete(o, ok) ==
    /\ o \in ops
    /\ ops' = ops \ {o}
    /\ port' = port \cup {[send |-> o, ok |-> ok]}
    /\ wire' = IF ok THEN Append(wire, o) ELSE wire
    /\ cut' = (cut \/ ~ok)
    /\ UNCHANGED <<slotVars, queue, lock, pc, pushed>>

\* Variant: Close empties the queue.
CloseEmptying ==
    /\ open
    /\ open' = FALSE /\ queue' = << >>
    /\ Abort
    /\ UNCHANGED <<gen, lock, pc, pushed, wire, sendFailed>>

\* The slot is closed for another reason: a failed receive, the peer's close.
Close ==
    /\ open
    /\ open' = FALSE
    /\ Abort
    /\ UNCHANGED <<gen, queue, lock, pc, pushed, wire, sendFailed>>

\* Variant: the slot may be connected while a send handler is at work.
ConnectEarly ==
    /\ ~open /\ gen < MaxGen
    /\ ops = {} /\ port = {}
    /\ open' = TRUE /\ gen' = gen + 1 /\ sendFailed' = FALSE
    /\ UNCHANGED <<queue, lock, pc, ops, port, pushed, wire, cut>>

\* stClientInfo::OnConnect.  Clear is empty: the queue stays as it is.
Connect ==
    /\ ~open /\ gen < MaxGen
    /\ ops = {} /\ port = {}
    /\ \A t \in Threads : pc[t] \in {"idle", "lock"}
    /\ open' = TRUE /\ gen' = gen + 1 /\ sendFailed' = FALSE
    /\ UNCHANGED <<queue, lock, pc, ops, port, pushed, wire, cut>>

----------------------------------------------------------------------------
Next ==
    \/ \E t \in Threads : SendMsg(t) \/ Push(t) \/ SendIO(t)
    \/ \E w \in Workers : SendCompleted(w) \/ CloseSocket(w)
    \/ \E w \in Workers, x \in port : GetCompletion(w, x)
    \/ \E o \in ops, ok \in BOOLEAN : Complete(o, ok)
    \/ Close \/ Connect

Spec == Init /\ [][Next]_vars

\* Threads go on, and a send the system has taken ends one way or the other.
\* Nothing obliges a client to connect or a thread to answer.
Fairness ==
    /\ \A t \in Threads : WF_vars(Push(t)) /\ WF_vars(SendIO(t))
    /\ \A w \in Workers :
           /\ WF_vars(SendCompleted(w)) /\ WF_vars(CloseSocket(w))
           /\ WF_vars(\E x \in port : GetCompletion(w, x))
    /\ WF_vars(\E o \in ops, ok \in BOOLEAN : Complete(o, ok))

FairSpec == Spec /\ Fairness

----------------------------------------------------------------------------
TypeOK ==
    /\ open \in BOOLEAN /\ gen \in Nat
    /\ queue \in Seq(Sends) /\ lock \in Threads \cup {Nobody}
    /\ pc \in [Threads -> Labels]
    /\ ops \subseteq Sends /\ port \subseteq Completions
    /\ pushed \in Nat /\ wire \in Seq(Sends)
    /\ sendFailed \in BOOLEAN /\ cut \in BOOLEAN
    /\ \A t \in Threads : pc[t] = "sendio" <=> lock = t

(* Messages are given to the system one at a time: a thread about to call  *)
(* WSASend finds no send in progress and no completion waiting or handled, *)
(* whichever threads push, complete and close meanwhile.                   *)
OneSendAtATime ==
    \A t \in Threads : pc[t] \in {"sendio", "completed"} =>
        /\ ops = {} /\ \A x \in port : ~x.ok
        /\ \A u \in Threads \ {t} : pc[u] \notin {"sendio", "completed"}

(* The buffer the system reads from is alive: a send in progress is that   *)
(* of the head of the queue, which SendCompleted deletes after it only.    *)
InFlightIsHead ==
    \A o \in ops \cup {x.send : x \in port} : queue # << >> /\ Head(queue).n = o.n

(* A message in the queue is being sent, or will be by the thread that     *)
(* holds the lock or takes the completion - unless a send has failed,      *)
(* after which the slot sends nothing more.                                *)
NoLostWakeup ==
    queue # << >> =>
        \/ cut \/ ops # {} \/ port # {}
        \/ \E t \in Threads : pc[t] \in {"completed", "sendio"}

(* What is left in the queue of a closed connection is never sent on a     *)
(* later connection of the slot.                                           *)
NoForeignMessage ==
    \A o \in ops : queue # << >> => Head(queue).gen = o.gen

(* The messages sent are those pushed, in that order, without a gap.       *)
\* The messages not sent yet, oldest first.
Unsent == [i \in 1..(pushed - Len(wire)) |-> Len(wire) + i]
Link == INSTANCE PacketChannel WITH
            MaxSent <- MaxMsg, accepted <- pushed, inTransit <- Unsent,
            received <- [i \in 1..Len(wire) |-> wire[i].n]
ImplementsLink == Link!Spec

(* As long as no send fails, every message pushed is sent.                 *)
PushedIsSent == \A n \in 1..MaxMsg : pushed >= n ~> Len(wire) >= n \/ cut

============================================================================
