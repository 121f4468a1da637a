---------------------------- MODULE DoubleBuffer ----------------------------
(***************************************************************************)
(* DoubleBuffer (SessionServer/DoubleBuffer.h, DoubleBuffer.cpp): the      *)
(* hand-off between two threads of the session server.  One thread calls   *)
(* EnqueueWritePacket, another one loops on DequeueReadPacket and calls    *)
(* SwapQueue when that returns nullptr (PacketManager::ProcessQueue and    *)
(* DBAgent::ProcessQueue).                                                 *)
(*                                                                         *)
(* SpinLock is taken by SwapQueue only.  The writer merely waits until it  *)
(* sees it free and then pushes, so a push may run inside the reader's     *)
(* locked section.  Two things can happen there.  If the push falls        *)
(* between the swap and the loop that empties WriteQueue, the packet is    *)
(* popped again and lost.  If it overlaps the swap or a pop, two threads   *)
(* modify one std::queue at once: undefined behaviour, recorded in torn;   *)
(* nothing is claimed about what comes after, and the model stops there.   *)
(*                                                                         *)
(* A push and a swap take two steps each (Begin, End), so that they can    *)
(* overlap.  A packet is its number in the order of the pushes.            *)
(***************************************************************************)
EXTENDS Naturals, Sequences

CONSTANT MaxSent    \* bound on the packets pushed
ASSUME MaxSentAssumption == MaxSent \in Nat

VARIABLES
    ReadQueue, WriteQueue,    \* the two std::queue<PacketInfo>
    spinLock,                 \* SpinLock::m_locked
    swapCount,                \* DoubleBuffer::swapCount
    wpc,                      \* where the writing thread is
    rpc,                      \* where the reading thread is
    torn,                     \* two threads were inside one queue at once
    sent,                     \* number of packets pushed
    delivered,                \* packets DequeueReadPacket returned, in order
    dropped                   \* packets popped by SwapQueue and seen by nobody

queues  == <<ReadQueue, WriteQueue>>
history == <<sent, delivered, dropped>>
vars    == <<ReadQueue, WriteQueue, spinLock, swapCount, wpc, rpc, torn,
             sent, delivered, dropped>>

WriterPC == {"idle", "spin", "push", "pushing"}
ReaderPC == {"dequeue", "check", "lock", "swap", "swapping", "drain", "unlock"}

Init ==
    /\ ReadQueue = << >> /\ WriteQueue = << >>
    /\ spinLock = FALSE /\ swapCount = 0
    /\ wpc = "idle" /\ rpc = "dequeue"
    /\ torn = FALSE
    /\ sent = 0 /\ delivered = << >> /\ dropped = << >>

----------------------------------------------------------------------------
(* EnqueueWritePacket, on the writing thread.                              *)

EnqueueWritePacket ==
    /\ wpc = "idle" /\ sent < MaxSent
    /\ wpc' = "spin"
    /\ UNCHANGED <<queues, spinLock, swapCount, rpc, torn, history>>

\* Variant: the push without the wait before it.
PushWithoutWaiting ==
    /\ wpc = "spin"
    /\ wpc' = "push"
    /\ UNCHANGED <<queues, spinLock, swapCount, rpc, torn, history>>

\* while (spinLock.IsLocked()) {}: leaves the loop when the load sees false.
SeeUnlocked ==
    /\ wpc = "spin" /\ ~spinLock
    /\ wpc' = "push"
    /\ UNCHANGED <<queues, spinLock, swapCount, rpc, torn, history>>

PushBegin ==
    /\ wpc = "push"
    /\ wpc' = "pushing"
    /\ torn' = (rpc = "swapping")
    /\ UNCHANGED <<queues, spinLock, swapCount, rpc, history>>

PushEnd ==
    /\ wpc = "pushing"
    /\ wpc' = "idle"
    /\ sent' = sent + 1
    /\ WriteQueue' = Append(WriteQueue, sent + 1)
    /\ UNCHANGED <<ReadQueue, spinLock, swapCount, rpc, torn, delivered, dropped>>

----------------------------------------------------------------------------
(* DequeueReadPacket, and SwapQueue when there was nothing to read.        *)

\* Variant: front() without pop().
DequeueWithoutPop ==
    /\ rpc = "dequeue" /\ ~spinLock
    /\ IF ReadQueue = << >>
       THEN rpc' = "check" /\ UNCHANGED delivered
       ELSE rpc' = rpc /\ delivered' = Append(delivered, Head(ReadQueue))
    /\ UNCHANGED <<queues, spinLock, swapCount, wpc, torn, sent, dropped>>

\* Variant: front() of an empty queue, which is no packet.
DequeueWithoutCheck ==
    /\ rpc = "dequeue" /\ ~spinLock
    /\ rpc' = "check"
    /\ delivered' = Append(delivered, IF ReadQueue = << >> THEN 0 - 1 ELSE Head(ReadQueue))
    /\ UNCHANGED <<queues, spinLock, swapCount, wpc, torn, sent, dropped>>

\* The packet is returned by its address after the pop; the storage is written
\* again only when it has become the write queue, by a later SwapQueue of this
\* same thread, so the consumer sees the packet's contents.
DequeueReadPacket ==
    /\ rpc = "dequeue" /\ ~spinLock
    /\ IF ReadQueue = << >>
       THEN /\ rpc' = "check"
            /\ UNCHANGED <<ReadQueue, delivered>>
       ELSE /\ delivered' = Append(delivered, Head(ReadQueue))
            /\ ReadQueue' = Tail(ReadQueue)
            /\ UNCHANGED rpc
    /\ UNCHANGED <<WriteQueue, spinLock, swapCount, wpc, torn, sent, dropped>>

\* The two early returns of SwapQueue.  A push in progress may or may not be
\* visible in WriteQueue.empty().
SwapReturn ==
    /\ rpc = "check"
    /\ ReadQueue # << >> \/ WriteQueue = << >>
    /\ rpc' = "dequeue"
    /\ UNCHANGED <<queues, spinLock, swapCount, wpc, torn, history>>

SwapProceed ==
    /\ rpc = "check"
    /\ ReadQueue = << >>
    /\ WriteQueue # << >> \/ wpc = "pushing"
    /\ rpc' = "lock"
    /\ UNCHANGED <<queues, spinLock, swapCount, wpc, torn, history>>

Lock ==
    /\ rpc = "lock" /\ ~spinLock
    /\ spinLock' = TRUE
    /\ rpc' = "swap"
    /\ UNCHANGED <<queues, swapCount, wpc, torn, history>>

SwapBegin ==
    /\ rpc = "swap"
    /\ rpc' = "swapping"
    /\ torn' = (wpc = "pushing")
    /\ UNCHANGED <<queues, spinLock, swapCount, wpc, history>>

\* Variant: ReadQueue = WriteQueue, a copy instead of a swap.
CopyEnd ==
    /\ rpc = "swapping"
    /\ rpc' = "drain"
    /\ ReadQueue' = WriteQueue
    /\ UNCHANGED <<WriteQueue, spinLock, swapCount, wpc, torn, history>>

SwapEnd ==
    /\ rpc = "swapping"
    /\ rpc' = "drain"
    /\ ReadQueue' = WriteQueue
    /\ WriteQueue' = ReadQueue
    /\ UNCHANGED <<spinLock, swapCount, wpc, torn, history>>

\* while (!WriteQueue.empty()) WriteQueue.pop();
DrainPop ==
    /\ rpc = "drain"
    /\ \/ /\ wpc = "pushing"
          /\ torn' = TRUE
          /\ UNCHANGED <<WriteQueue, dropped>>
       \/ /\ wpc # "pushing" /\ WriteQueue # << >>
          /\ dropped' = Append(dropped, Head(WriteQueue))
          /\ WriteQueue' = Tail(WriteQueue)
          /\ UNCHANGED torn
    /\ UNCHANGED <<ReadQueue, spinLock, swapCount, wpc, rpc, sent, delivered>>

DrainDone ==
    /\ rpc = "drain" /\ WriteQueue = << >>
    /\ rpc' = "unlock"
    /\ swapCount' = swapCount + 1
    /\ UNCHANGED <<queues, spinLock, wpc, torn, history>>

\* Variant: SwapQueue returns without the store of UnLock.
UnLockForgotten ==
    /\ rpc = "unlock"
    /\ rpc' = "dequeue"
    /\ UNCHANGED <<queues, spinLock, swapCount, wpc, torn, history>>

UnLock ==
    /\ rpc = "unlock"
    /\ spinLock' = FALSE
    /\ rpc' = "dequeue"
    /\ UNCHANGED <<queues, swapCount, wpc, torn, history>>

----------------------------------------------------------------------------
Writer == EnqueueWritePacket \/ SeeUnlocked \/ PushBegin \/ PushEnd
Reader == \/ DequeueReadPacket \/ SwapReturn \/ SwapProceed \/ Lock
          \/ SwapBegin \/ SwapEnd \/ DrainPop \/ DrainDone \/ UnLock

Next == ~torn /\ (Writer \/ Reader)

Spec == Init /\ [][Next]_vars

\* Both threads loop until the process ends and are scheduled by the system.
\* Nothing obliges anyone to call EnqueueWritePacket.
Fairness ==
    /\ WF_vars(~torn /\ Reader)
    /\ WF_vars(~torn /\ (SeeUnlocked \/ PushBegin \/ PushEnd))

FairSpec == Spec /\ Fairness

----------------------------------------------------------------------------
(* The packets still on their way, oldest first.                           *)
Pending == ReadQueue \o WriteQueue

TypeOK ==
    /\ ReadQueue \in Seq(Nat) /\ WriteQueue \in Seq(Nat)
    /\ spinLock \in BOOLEAN /\ swapCount \in Nat
    /\ wpc \in WriterPC /\ rpc \in ReaderPC
    /\ torn \in BOOLEAN
    /\ sent \in Nat
    /\ delivered \in Seq(Nat) /\ dropped \in Seq(Nat)

(* No packet is duplicated or goes missing unseen: each push is delivered, *)
(* pending, or one that SwapQueue popped.                                  *)
NothingUnaccounted ==
    Len(delivered) + Len(ReadQueue) + Len(WriteQueue) + Len(dropped) = sent

(* Packets are delivered in the order of the pushes, whatever was lost in  *)
(* between and however often the queues have changed roles.                *)
DeliveredInOrder ==
    \A i, j \in 1..Len(delivered) : i < j => delivered[i] < delivered[j]

(* One pass through SwapQueue loses at most one packet: the writer tests   *)
(* the lock before each push, so only the push it had already been let     *)
(* into can meet the emptying loop.                                        *)
AtMostOneLossPerSwap ==
    Len(dropped) <= swapCount + (IF rpc = "drain" THEN 1 ELSE 0)

(* A pushed packet does not stay behind: it is delivered or, at worst,     *)
(* dropped by a swap.                                                      *)
PushedIsHandedOver ==
    \A n \in 1..MaxSent :
        sent >= n ~> \/ \E i \in DOMAIN delivered : delivered[i] = n
                     \/ \E i \in DOMAIN dropped : dropped[i] = n
                     \/ torn

(* DoubleBuffer implements the lossy channel.                              *)
Channel == INSTANCE PacketChannel WITH
               accepted <- sent, inTransit <- Pending, received <- delivered
ImplementsChannel == Channel!Spec
============================================================================
