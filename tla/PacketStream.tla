---------------------------- MODULE PacketStream ----------------------------
(***************************************************************************)
(* One client and the session server over TCP, below the level of          *)
(* packets.  The client's packets are a stream that a receive cuts         *)
(* anywhere.  The server collects it in the user's buffer                  *)
(* (User::SetPacketData, on a worker thread) and takes packets out of it   *)
(* (User::GetPacket, on the packet thread) without a lock: every access to *)
(* the two positions is a step of its own.  The client takes each recv for *)
(* one whole answer (AuraSocket::Run).                                     *)
(*                                                                         *)
(* A unit stands for the header of a packet or for a part of its body: a   *)
(* login (71 bytes) is three units, a request for the characters (38) and  *)
(* an answer (39) are two.                                                 *)
(***************************************************************************)
EXTENDS Integers, Sequences, FiniteSets

CONSTANTS MaxLogins,    \* bound: presses of the login button
          BufferSize,   \* PACKET_DATA_BUFFER_SIZE, in units
          MaxReceive    \* MAX_SOCK_RECVBUF, in units

ASSUME SizesAssumption == /\ MaxLogins \in Nat
                          /\ MaxReceive \in Nat \ {0}
                          /\ BufferSize \in Nat /\ BufferSize > MaxReceive

PACKET_HEADER_LENGTH == 1
Length == [LOGIN_REQUEST |-> 3, CHARACTER_INFO_REQUEST |-> 2, LOGIN_RESPONSE |-> 2]
Blank == [packet |-> 0, at |-> 0, length |-> 0]

\* The n-th packet of its direction, unit by unit.
Units(n, id) == [i \in 1..Length[id] |-> [packet |-> n, at |-> i, length |-> Length[id]]]

Results == {1, 2}  \* success, and 2 for the failures 2, 3 and 4, which the client only logs

VARIABLES sent, toServer,                   \* the client's packets; their units under way
          mPakcetDataBuffer, mPakcetDataBufferWPos, mPakcetDataBufferRPos,
          worker, mInComingPacketUserIndex, \* the receive in progress; entries queued
          taker, handled,                   \* the packet thread; the packets it handled
          answers, back,                    \* the server's answers; their units under way
          recvBuffer, results,              \* the client's buffer; the results it acted on
          torn, merged, split               \* history: see Move, Receive and Run

server == <<mPakcetDataBuffer, mPakcetDataBufferWPos, mPakcetDataBufferRPos, worker,
            mInComingPacketUserIndex, taker, handled, torn, merged>>
client == <<recvBuffer, results, split>>
streamVars == <<server, client, sent, toServer, answers, back>>

StreamInit ==
  /\ sent = <<>> /\ toServer = <<>> /\ answers = <<>> /\ back = <<>>
  /\ mPakcetDataBuffer = [i \in 0..BufferSize - 1 |-> Blank]
  /\ mPakcetDataBufferWPos = 0 /\ mPakcetDataBufferRPos = 0
  /\ mInComingPacketUserIndex = 0
  /\ worker = [at |-> "idle", data |-> <<>>]
  /\ taker = [at |-> "idle", ptr |-> 0, size |-> 0]
  /\ handled = <<>> /\ results = <<>>
  /\ recvBuffer = <<Blank, Blank>>
  /\ torn = FALSE /\ merged = 0 /\ split = FALSE

-----------------------------------------------------------------------------
(* The client.                                                             *)

SendData(id) == /\ sent' = Append(sent, id)
                /\ toServer' = toServer \o Units(Len(sent) + 1, id)

SendLoginPacket ==
  /\ Cardinality({i \in DOMAIN sent : sent[i] = "LOGIN_REQUEST"}) < MaxLogins
  /\ SendData("LOGIN_REQUEST")
  /\ UNCHANGED <<server, client, answers, back>>

\* RecvLoginResult: the byte behind the header and the name, whatever it holds.
ResultIn(buffer) == IF buffer[2].at = 2 THEN answers[buffer[2].packet] ELSE 0

\* One turn of AuraSocket::Run.  The n units received overwrite the front of
\* the buffer, the rest is what the last recv left there.
Run(n) ==
  /\ recvBuffer' = [i \in 1..2 |-> IF i <= n THEN back[i] ELSE recvBuffer[i]]
  /\ back' = SubSeq(back, n + 1, Len(back))
  /\ split' = (split \/ n # 2 \/ back[1].at # 1)
  /\ IF recvBuffer'[1].at = 1     \* GetBufferHeader: LOGIN_RESPONSE
       THEN /\ results' = Append(results, ResultIn(recvBuffer'))
            /\ IF ResultIn(recvBuffer') = 1 THEN SendData("CHARACTER_INFO_REQUEST")
                                            ELSE UNCHANGED <<sent, toServer>>
       ELSE UNCHANGED <<results, sent, toServer>>
  /\ UNCHANGED <<server, answers>>

-----------------------------------------------------------------------------
(* The worker: a receive completes, SetPacketData, EnqueuePacketData.      *)

Ends(data) == Cardinality({i \in DOMAIN data : data[i].at = data[i].length})

Receive(n) ==
  /\ worker.at = "idle"
  /\ worker' = [at |-> IF mPakcetDataBufferWPos + n >= BufferSize THEN "move" ELSE "copy",
                data |-> SubSeq(toServer, 1, n)]
  /\ toServer' = SubSeq(toServer, n + 1, Len(toServer))
  /\ merged' = merged + (IF Ends(worker'.data) > 1 THEN Ends(worker'.data) - 1 ELSE 0)
  /\ UNCHANGED <<client, sent, answers, back, mPakcetDataBuffer, mPakcetDataBufferWPos,
                 mPakcetDataBufferRPos, mInComingPacketUserIndex, taker, handled, torn>>

WorkerGoes(to) == worker' = [worker EXCEPT !.at = to]

\* Unread data goes to the front.  A take that is under way is torn.
Move ==
  /\ worker.at = "move" /\ WorkerGoes("rewind")
  /\ LET remain == mPakcetDataBufferWPos - mPakcetDataBufferRPos
     IN /\ mPakcetDataBufferWPos' = IF remain > 0 THEN remain ELSE 0
        /\ mPakcetDataBuffer' =
             [i \in 0..BufferSize - 1 |-> mPakcetDataBuffer[
                IF i < remain THEN mPakcetDataBufferRPos + i ELSE i]]
  /\ torn' = (torn \/ taker.at # "idle")
  /\ UNCHANGED <<client, sent, toServer, answers, back, mPakcetDataBufferRPos,
                 mInComingPacketUserIndex, taker, handled, merged>>

Rewind ==
  /\ worker.at = "rewind" /\ WorkerGoes("copy")
  /\ mPakcetDataBufferRPos' = 0
  /\ UNCHANGED <<client, sent, toServer, answers, back, mPakcetDataBuffer, mPakcetDataBufferWPos,
                 mInComingPacketUserIndex, taker, handled, torn, merged>>

\* Nothing checks the room that is left: without it the copy runs over the
\* end of the buffer, and the program's behaviour from there on is undefined.
Copy ==
  /\ worker.at = "copy" /\ WorkerGoes("advance")
  /\ mPakcetDataBufferWPos + Len(worker.data) <= BufferSize
  /\ mPakcetDataBuffer' =
       [i \in 0..BufferSize - 1 |->
          LET k == i - mPakcetDataBufferWPos + 1
          IN IF k \in DOMAIN worker.data THEN worker.data[k] ELSE mPakcetDataBuffer[i]]
  /\ UNCHANGED <<client, sent, toServer, answers, back, mPakcetDataBufferWPos,
                 mPakcetDataBufferRPos, mInComingPacketUserIndex, taker, handled, torn, merged>>

Advance ==
  /\ worker.at = "advance" /\ WorkerGoes("queue")
  /\ mPakcetDataBufferWPos' = mPakcetDataBufferWPos + Len(worker.data)
  /\ UNCHANGED <<client, sent, toServer, answers, back, mPakcetDataBuffer, mPakcetDataBufferRPos,
                 mInComingPacketUserIndex, taker, handled, torn, merged>>

\* Variant: a client that is queued already is not queued again.
EnqueueOnce ==
  /\ worker.at = "queue" /\ worker' = [at |-> "idle", data |-> <<>>]
  /\ mInComingPacketUserIndex' = 1
  /\ UNCHANGED <<client, sent, toServer, answers, back, mPakcetDataBuffer, mPakcetDataBufferWPos,
                 mPakcetDataBufferRPos, taker, handled, torn, merged>>

EnqueuePacketData ==
  /\ worker.at = "queue" /\ worker' = [at |-> "idle", data |-> <<>>]
  /\ mInComingPacketUserIndex' = mInComingPacketUserIndex + 1
  /\ UNCHANGED <<client, sent, toServer, answers, back, mPakcetDataBuffer, mPakcetDataBufferWPos,
                 mPakcetDataBufferRPos, taker, handled, torn, merged>>

-----------------------------------------------------------------------------
(* The packet thread: DequePacketData, GetPacket, ProcessRecvPacket.       *)

Moving == worker.at \in {"move", "rewind"}

Dequeue ==
  /\ taker.at = "idle" /\ mInComingPacketUserIndex > 0
  /\ mInComingPacketUserIndex' = mInComingPacketUserIndex - 1
  /\ taker' = [taker EXCEPT !.at = "take"]
  /\ torn' = (torn \/ worker.at = "rewind")
  /\ UNCHANGED <<client, sent, toServer, answers, back, mPakcetDataBuffer, mPakcetDataBufferWPos,
                 mPakcetDataBufferRPos, worker, handled, merged>>

\* Variant: the length in the header is not looked at.
IncompleteHeader(R, remain) == remain < PACKET_HEADER_LENGTH

Incomplete(R, remain) ==
  remain < PACKET_HEADER_LENGTH \/ mPakcetDataBuffer[R].length > remain

\* GetPacket up to the read position.
GetPacket ==
  /\ taker.at = "take"
  /\ LET R == mPakcetDataBufferRPos
         length == mPakcetDataBuffer[R].length
     IN taker' = IF Incomplete(R, mPakcetDataBufferWPos - R) THEN [taker EXCEPT !.at = "idle"]
                 ELSE [at |-> "move", ptr |-> R, size |-> length]
  /\ UNCHANGED <<client, sent, toServer, answers, back, mPakcetDataBuffer, mPakcetDataBufferWPos,
                 mPakcetDataBufferRPos, mInComingPacketUserIndex, worker, handled, torn, merged>>

MoveReadPos ==
  /\ taker.at = "move" /\ taker' = [taker EXCEPT !.at = "handle"]
  /\ mPakcetDataBufferRPos' = mPakcetDataBufferRPos + taker.size
  /\ UNCHANGED <<client, sent, toServer, answers, back, mPakcetDataBuffer, mPakcetDataBufferWPos,
                 mInComingPacketUserIndex, worker, handled, torn, merged>>

\* The handler works on the pointer into the buffer.  Only a login of the
\* right size is answered; CHARACTER_INFO_REQUEST has no handler.
ProcessRecvPacket(result) ==
  /\ taker.at = "handle" /\ taker' = [taker EXCEPT !.at = "idle"]
  /\ LET data == [i \in 1..taker.size |-> mPakcetDataBuffer[taker.ptr + i - 1]]
     IN /\ handled' = Append(handled, data)
        /\ IF taker.size = Length["LOGIN_REQUEST"]
             THEN /\ answers' = Append(answers, result)
                  /\ back' = back \o Units(Len(answers) + 1, "LOGIN_RESPONSE")
             ELSE UNCHANGED <<answers, back>>
  /\ UNCHANGED <<client, sent, toServer, mPakcetDataBuffer, mPakcetDataBufferWPos,
                 mPakcetDataBufferRPos, mInComingPacketUserIndex, worker, torn, merged>>

-----------------------------------------------------------------------------
Smaller(m, n) == IF m < n THEN m ELSE n

Step == \/ SendLoginPacket
        \/ \E n \in 1..Smaller(MaxReceive, Len(toServer)) : Receive(n)
        \/ Move \/ Rewind \/ Copy \/ Advance \/ EnqueuePacketData
        \/ Dequeue \/ GetPacket \/ MoveReadPos
        \/ \E result \in Results : ProcessRecvPacket(result)
        \/ \E n \in 1..Len(back) : Run(n)

\* What a take that meets a move of the buffer returns is whatever bytes lie
\* there: the model ends with it, as with the copy over the buffer's end.
StreamNext == ~torn /\ Step

StreamSpec == StreamInit /\ [][StreamNext]_streamVars

-----------------------------------------------------------------------------
(* Both ends read the other's packets as they were sent, one by one and in *)
(* order: the server up to the first take that meets a move of the buffer  *)
(* (User.h:75-126), the client as long as every recv returned one answer   *)
(* (AuraSocket.cpp:81-85).  Nothing in the code makes either sure.         *)
FramesKept ==
  /\ Len(handled) <= Len(sent)
  /\ \A i \in DOMAIN handled : handled[i] = Units(i, sent[i])
  /\ ~split => results = SubSeq(answers, 1, Len(results))

Unread == {i \in mPakcetDataBufferRPos..mPakcetDataBufferWPos - 1 :
             mPakcetDataBuffer[i].at = mPakcetDataBuffer[i].length}
Pending == mInComingPacketUserIndex + (IF worker.at = "queue" THEN 1 ELSE 0)
                                    + (IF taker.at \in {"take", "move"} THEN 1 ELSE 0)

(* A receive queues its client once, whatever it completed                 *)
(* (PacketManager.cpp:54-60): the packets left in the buffer with nobody   *)
(* on the way to take them are at most those that came on top of another   *)
(* in one receive.  They stay there until a later receive.                 *)
OneEntryEach == ~Moving => Cardinality(Unread) <= Pending + merged
=============================================================================
