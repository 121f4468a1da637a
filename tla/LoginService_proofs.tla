------------------------ MODULE LoginService_proofs ------------------------
(***************************************************************************)
(* Proofs about LoginService, for any clients, IDs, buffer size, bounds,   *)
(* and whether or not queues lose packets and clients wait.                *)
(*                                                                         *)
(* Types are divided by owner: connections, users, buffers, ProcessPacket, *)
(* DBAgent, ProcessQueue.  A pointer in a queue outlives the packet it was *)
(* made for, so what it points to must be shown to be SOME packet: places  *)
(* of a buffer that hold a packet hold one for ever (PacketsStay), and     *)
(* Held says that every pointer points to such a place.                    *)
(*                                                                         *)
(* For OnlyVerified the invariant follows a confirmation on its way from   *)
(* the database to the dictionary: Confirmed.                              *)
(*                                                                         *)
(* For ReadsOwnPacket, with patient clients: a packet is stored only when  *)
(* no pointer of its connection is under way, so every pointer still leads *)
(* to the packet it was made for (OwnPackets).                             *)
(*                                                                         *)
(* For AnsweredOnce packets have numbers, and a number is in one place at  *)
(* a time: unread in a buffer, in one of the queues or jobs, or answered   *)
(* (Apart), and there once (UnreadOnce and the like).                      *)
(*                                                                         *)
(* For LoggedInIsListed a connection is marked and listed only with IDs    *)
(* its clients may ask for (Allowed), so that where no ID is asked for     *)
(* from two connections an erased one is nobody else's; and the ID on its  *)
(* way into the dictionary is the user's, or the user is cleared (Marked). *)
(***************************************************************************)
EXTENDS LoginService, SequenceTheorems, TLAPS

Responses == [at : Pointers, id : IDs, result : Results]

ConnType ==
    /\ up \in [Conns -> BOOLEAN] /\ gen \in [Conns -> Nat]
    /\ announced \in [Conns -> BOOLEAN] /\ requests \in Nat

UserType == domain \in [Conns -> BOOLEAN] /\ userID \in [Conns -> IDs \cup {None}]

BufferType ==
    /\ buf \in [Conns -> [0..Cap - 1 -> Requests \cup {None}]]
    /\ WPos \in [Conns -> Nat] /\ RPos \in [Conns -> Nat]
    /\ \A c \in Conns : RPos[c] <= WPos[c]
    /\ running => \A c \in Conns : WPos[c] <= Cap

ProcessType ==
    /\ incoming \in Seq(Conns) /\ system \in Seq({"connect", "disconnect"} \X Conns)
    /\ ppc \in {"packet", "login", "system", "erase", "clear"}
    /\ ppc \in {"packet", "system"} => pjob = None
    /\ ppc = "login" => pjob \in Pointers
    /\ ppc \in {"erase", "clear"} => pjob \in [conn : Conns]

DBType ==
    /\ dbQueue \in Seq(Pointers)
    /\ djob \in {None} \cup [at : Pointers, read : Requests]

ServerType ==
    /\ serverQueue \in Seq(Responses)
    /\ apc \in {"dequeue", "setdomain", "setid", "insert", "inserting", "send"}
    /\ apc = "dequeue" => ajob = None
    /\ apc # "dequeue" => ajob \in Responses

RestType ==
    /\ dict \in [IDs -> Conns \cup {None}]
    /\ answers \subseteq [at : Pointers, id : IDs, result : Results,
                        to : {Nobody} \cup (Conns \X Nat)]
    /\ verified \subseteq IDs /\ running \in BOOLEAN

\* Unread places and the places the queued pointers name hold packets.
Held ==
    /\ running => \A c \in Conns : \A i \in 0..WPos[c] - 1 : buf[c][i] \in Requests
    /\ ppc = "login" => buf[pjob.conn][pjob.pos] \in Requests
    /\ \A i \in 1..Len(dbQueue) : buf[dbQueue[i].conn][dbQueue[i].pos] \in Requests

TInv == /\ ConnType /\ UserType /\ BufferType /\ ProcessType /\ DBType /\ ServerType
        /\ RestType /\ Held

----------------------------------------------------------------------------
LEMMA TypesTogether == TInv => TypeOK
BY DEF TInv, TypeOK, ConnType, UserType, BufferType, ProcessType, DBType, ServerType, RestType,
       Responses

LEMMA InitTypes == Init => TInv
<1> SUFFICES ASSUME Init PROVE TInv
  OBVIOUS
<1>1. ConnType /\ UserType /\ RestType
  BY DEF Init, ConnType, UserType, RestType
<1>2. BufferType
  BY LoginAssumption DEF Init, BufferType
<1>3. ProcessType /\ DBType /\ ServerType
  BY EmptySeq DEF Init, ProcessType, DBType, ServerType
<1>4. Held
  BY EmptySeq DEF Init, Held
<1> QED
  BY <1>1, <1>2, <1>3, <1>4 DEF TInv

\* What an action leaves alone keeps its type.
LEMMA ConnKept == ConnType /\ UNCHANGED conn => ConnType'
BY DEF ConnType, conn
LEMMA UserKept == UserType /\ UNCHANGED user => UserType'
BY DEF UserType, user
LEMMA BufferKept == BufferType /\ UNCHANGED <<buffer, running>> => BufferType'
BY DEF BufferType, buffer
LEMMA ProcessKept == ProcessType /\ UNCHANGED process => ProcessType'
BY DEF ProcessType, process
LEMMA DBKept == DBType /\ UNCHANGED <<dbQueue, djob>> => DBType'
BY DEF DBType
LEMMA ServerKept == ServerType /\ UNCHANGED <<serverQueue, agent>> => ServerType'
BY DEF ServerType, agent
LEMMA RestKept == RestType /\ UNCHANGED <<dict, answers, verified, running>> => RestType'
BY DEF RestType
LEMMA HeldKept ==
    Held /\ UNCHANGED <<buffer, running, ppc, pjob, dbQueue>> => Held'
BY DEF Held, buffer

----------------------------------------------------------------------------
(* Queues.                                                                 *)
LEMMA Taken ==
    ASSUME NEW S, NEW s \in Seq(S), s # << >>
    PROVE  /\ Head(s) \in S /\ Head(s) = s[1] /\ 1 \in 1..Len(s)
           /\ Tail(s) \in Seq(S) /\ Len(Tail(s)) = Len(s) - 1
           /\ \A i \in 1..Len(Tail(s)) : Tail(s)[i] = s[i + 1] /\ i + 1 \in 1..Len(s)
<1>1. Len(s) \in Nat /\ Len(s) # 0
  BY EmptySeq
<1>2. Head(s) \in S /\ Tail(s) \in Seq(S) /\ Len(Tail(s)) = Len(s) - 1
      /\ \A i \in 1..Len(Tail(s)) : Tail(s)[i] = s[i + 1]
  BY HeadTailProperties
<1>3. Head(s) = s[1]
  BY <1>1
<1> QED
  BY <1>1, <1>2, <1>3

LEMMA Shortened ==
    ASSUME NEW S, NEW s \in Seq(S), s # << >>
    PROVE  /\ SubSeq(s, 1, Len(s) - 1) \in Seq(S)
           /\ Len(SubSeq(s, 1, Len(s) - 1)) = Len(s) - 1
           /\ \A i \in 1..Len(s) - 1 :
                  SubSeq(s, 1, Len(s) - 1)[i] = s[i] /\ i \in 1..Len(s)
<1>1. Len(s) \in Nat /\ Len(s) # 0
  BY EmptySeq
<1>2. \A i \in 1..Len(s) - 1 : s[i] \in S
  BY <1>1, ElementOfSeq
<1> DEFINE n == Len(s) - 1
<1>3. n \in Int /\ n >= 0 /\ 1 \in Int
  BY <1>1
<1>4. \A i \in 1..n : s[i] \in S
  BY <1>2
<1> HIDE DEF n
<1>5. /\ SubSeq(s, 1, n) \in Seq(S)
      /\ Len(SubSeq(s, 1, n)) = IF 1 <= n THEN n - 1 + 1 ELSE 0
      /\ \A i \in 1..n - 1 + 1 : SubSeq(s, 1, n)[i] = s[1 + i - 1]
  BY <1>3, <1>4, SubSeqProperties
<1>6. Len(SubSeq(s, 1, n)) = n /\ \A i \in 1..n : SubSeq(s, 1, n)[i] = s[i]
  BY <1>3, <1>5
<1> QED
  BY <1>1, <1>5, <1>6 DEF n
----------------------------------------------------------------------------
(* The I/O workers.                                                        *)
LEMMA ConnectTypes == ASSUME TInv, NEW c \in Conns, Connect(c) PROVE TInv'
<1>1. ConnType'
  BY DEF Connect, TInv, ConnType
<1>2. UserType' /\ BufferType' /\ ProcessType' /\ DBType' /\ ServerType' /\ RestType' /\ Held'
  BY UserKept, BufferKept, ProcessKept, DBKept, ServerKept, RestKept, HeldKept
     DEF Connect, TInv, process
<1> QED
  BY <1>1, <1>2 DEF TInv

LEMMA OnConnectTypes == ASSUME TInv, NEW c \in Conns, OnConnect(c) PROVE TInv'
<1>1. ConnType'
  BY DEF OnConnect, TInv, ConnType
<1>2. <<"connect", c>> \in {"connect", "disconnect"} \X Conns
  OBVIOUS
<1>3. system' \in Seq({"connect", "disconnect"} \X Conns)
  BY <1>2, AppendProperties DEF OnConnect, TInv, ProcessType
<1>4. ProcessType'
  BY <1>3 DEF OnConnect, TInv, ProcessType
<1>5. UserType' /\ BufferType' /\ DBType' /\ ServerType' /\ RestType' /\ Held'
  BY UserKept, BufferKept, DBKept, ServerKept, RestKept, HeldKept DEF OnConnect, TInv
<1> QED
  BY <1>1, <1>4, <1>5 DEF TInv

LEMMA OnCloseTypes == ASSUME TInv, NEW c \in Conns, OnClose(c) PROVE TInv'
<1>1. ConnType'
  BY DEF OnClose, TInv, ConnType
<1> DEFINE d == <<"disconnect", c>>
<1>2. d \in {"connect", "disconnect"} \X Conns
  OBVIOUS
<1>3. system \in Seq({"connect", "disconnect"} \X Conns)
  BY DEF TInv, ProcessType
<1>4. Append(system, d) \in Seq({"connect", "disconnect"} \X Conns)
  BY <1>2, <1>3, AppendProperties
<1>5. Append(Append(system, d), d) \in Seq({"connect", "disconnect"} \X Conns)
  BY <1>2, <1>4, AppendProperties
<1>6. ProcessType'
  BY <1>4, <1>5 DEF OnClose, TInv, ProcessType
<1>7. UserType' /\ BufferType' /\ DBType' /\ ServerType' /\ RestType' /\ Held'
  BY UserKept, BufferKept, DBKept, ServerKept, RestKept, HeldKept DEF OnClose, TInv
<1> QED
  BY <1>1, <1>6, <1>7 DEF TInv

\* Compaction keeps the type of the buffer, the unread packets and every place
\* that holds a packet.
LEMMA CompactedTypes ==
    ASSUME TInv, running, NEW c \in Conns
    PROVE  /\ Compacted(c).w \in Nat /\ Compacted(c).r \in 0..Compacted(c).w
           /\ Compacted(c).w <= Cap
           /\ Compacted(c).b \in [0..Cap - 1 -> Requests \cup {None}]
           /\ \A i \in 0..Compacted(c).w - 1 : Compacted(c).b[i] \in Requests
           /\ \A i \in 0..Cap - 1 : buf[c][i] \in Requests => Compacted(c).b[i] \in Requests
<1> DEFINE w == WPos[c]
           r == RPos[c]
           b == buf[c]
<1>1. /\ w \in Nat /\ r \in Nat /\ r <= w /\ w <= Cap /\ Cap \in Nat
      /\ b \in [0..Cap - 1 -> Requests \cup {None}]
      /\ \A i \in 0..w - 1 : b[i] \in Requests
  BY LoginAssumption DEF TInv, BufferType, Held
<1>2. CASE w + 1 > Cap
  <2> DEFINE m == [i \in 0..Cap - 1 |-> IF i < w - r THEN b[r + i] ELSE b[i]]
  <2>1. Compacted(c) = [b |-> m, w |-> w - r, r |-> 0]
    BY <1>2 DEF Compacted
  <2>2. \A i \in 0..Cap - 1 : i < w - r => r + i \in 0..w - 1 /\ r + i \in 0..Cap - 1
    BY <1>1
  <2>3. \A i \in 0..Cap - 1 : m[i] \in Requests \cup {None}
    BY <1>1, <2>2
  <2>4. m \in [0..Cap - 1 -> Requests \cup {None}]
    BY <2>3
  <2>5. \A i \in 0..(w - r) - 1 : i \in 0..Cap - 1 /\ m[i] \in Requests
    BY <1>1, <2>2
  <2>6. \A i \in 0..Cap - 1 : b[i] \in Requests => m[i] \in Requests
    BY <1>1, <2>2
  <2>7. w - r \in Nat /\ 0 \in 0..(w - r) /\ w - r <= Cap
    BY <1>1
  <2> HIDE DEF m, w, r
  <2>8. /\ Compacted(c).w = w - r /\ Compacted(c).r = 0 /\ Compacted(c).b = m
    BY <2>1
  <2> QED
    BY <2>4, <2>5, <2>6, <2>7, <2>8
<1>3. CASE ~(w + 1 > Cap)
  <2>1. Compacted(c) = [b |-> b, w |-> w, r |-> r]
    BY <1>3 DEF Compacted
  <2> HIDE DEF b, w, r
  <2>2. /\ Compacted(c).w = w /\ Compacted(c).r = r /\ Compacted(c).b = b
    BY <2>1
  <2>3. \A i \in 0..Cap - 1 : b[i] \in Requests => b[i] \in Requests
    OBVIOUS
  <2> QED
    BY <1>1, <2>2, <2>3 DEF b
<1> QED
  BY <1>2, <1>3

LEMMA OnReceiveTypes ==
    ASSUME TInv, NEW c \in Conns, NEW u \in IDs, NEW right \in BOOLEAN, OnReceive(c, u, right)
    PROVE  TInv'
<1> DEFINE q == [conn |-> c, gen |-> gen[c], id |-> u, right |-> right, n |-> requests + 1]
           k == Compacted(c)
<1>0. /\ running /\ requests' = requests + 1
      /\ WPos' = [WPos EXCEPT ![c] = k.w + 1]
      /\ RPos' = [RPos EXCEPT ![c] = k.r]
      /\ incoming' = Append(incoming, c)
      /\ UNCHANGED <<up, gen, announced, user, ppc, pjob, system, dict, dbQueue, djob,
                     serverQueue, agent, answers, verified>>
  BY DEF OnReceive
<1>1. /\ k.w \in Nat /\ k.r \in 0..k.w /\ k.w <= Cap
      /\ k.b \in [0..Cap - 1 -> Requests \cup {None}]
      /\ \A i \in 0..k.w - 1 : k.b[i] \in Requests
      /\ \A i \in 0..Cap - 1 : buf[c][i] \in Requests => k.b[i] \in Requests
  BY <1>0, CompactedTypes
<1>2. q \in Requests
  BY DEF Requests, TInv, ConnType
<1>3. \/ k.w < Cap /\ buf' = [buf EXCEPT ![c] = [k.b EXCEPT ![k.w] = q]] /\ running' = running
      \/ k.w = Cap /\ buf' = [buf EXCEPT ![c] = k.b] /\ running' = FALSE
  <2>1. \/ k.w < Cap /\ buf' = [buf EXCEPT ![c] = [k.b EXCEPT ![k.w] = q]] /\ running' = running
        \/ ~(k.w < Cap) /\ buf' = [buf EXCEPT ![c] = k.b] /\ running' = FALSE
    BY Zenon DEF OnReceive
  <2> HIDE DEF q, k
  <2> QED
    BY <1>1, <2>1, LoginAssumption
<1> HIDE DEF q, k
<1>4. /\ buf' \in [Conns -> [0..Cap - 1 -> Requests \cup {None}]]
      /\ \A d \in Conns, i \in 0..Cap - 1 : buf[d][i] \in Requests => buf'[d][i] \in Requests
  <2>1. buf \in [Conns -> [0..Cap - 1 -> Requests \cup {None}]]
    BY DEF TInv, BufferType
  <2>2. CASE k.w < Cap /\ buf' = [buf EXCEPT ![c] = [k.b EXCEPT ![k.w] = q]]
    <3> DEFINE f == [k.b EXCEPT ![k.w] = q]
    <3>1. f \in [0..Cap - 1 -> Requests \cup {None}]
          /\ \A i \in 0..Cap - 1 : buf[c][i] \in Requests => f[i] \in Requests
      BY <1>1, <1>2
    <3> HIDE DEF f
    <3>2. buf' = [buf EXCEPT ![c] = f]
      BY <2>2 DEF f
    <3> QED
      BY <2>1, <3>1, <3>2
  <2>3. CASE buf' = [buf EXCEPT ![c] = k.b]
    BY <1>1, <2>1, <2>3
  <2> QED
    BY <1>3, <2>2, <2>3
<1>5. /\ WPos' \in [Conns -> Nat] /\ RPos' \in [Conns -> Nat]
      /\ WPos'[c] = k.w + 1 /\ RPos'[c] = k.r
      /\ \A d \in Conns \ {c} : WPos'[d] = WPos[d] /\ RPos'[d] = RPos[d]
  BY <1>0, <1>1 DEF TInv, BufferType
<1>6. \A d \in Conns : RPos'[d] <= WPos'[d]
  <2>1. RPos'[c] <= WPos'[c]
    BY <1>1, <1>5
  <2>2. \A d \in Conns \ {c} : RPos'[d] <= WPos'[d]
    BY <1>5 DEF TInv, BufferType
  <2> QED
    BY <2>1, <2>2
<1>7. running' => \A d \in Conns : WPos'[d] <= Cap
  <2> SUFFICES ASSUME running', NEW d \in Conns PROVE WPos'[d] <= Cap
    OBVIOUS
  <2>1. k.w < Cap
    BY <1>3
  <2>2. CASE d = c
    BY <1>1, <1>5, <2>1, <2>2, LoginAssumption
  <2>3. CASE d # c
    BY <1>0, <1>5, <2>3 DEF TInv, BufferType
  <2> QED
    BY <2>2, <2>3
<1>8. BufferType'
  BY <1>4, <1>5, <1>6, <1>7 DEF BufferType
<1>9. ProcessType'
  <2>1. incoming' \in Seq(Conns)
    BY <1>0, AppendProperties DEF TInv, ProcessType
  <2> QED
    BY <1>0, <2>1 DEF TInv, ProcessType
<1>10. running' => \A d \in Conns : \A i \in 0..WPos'[d] - 1 : buf'[d][i] \in Requests
  <2> SUFFICES ASSUME running', NEW d \in Conns, NEW i \in 0..WPos'[d] - 1
               PROVE  buf'[d][i] \in Requests
    OBVIOUS
  <2>1. k.w < Cap /\ buf' = [buf EXCEPT ![c] = [k.b EXCEPT ![k.w] = q]]
    BY <1>3
  <2>2. buf \in [Conns -> [0..Cap - 1 -> Requests \cup {None}]]
    BY DEF TInv, BufferType
  <2>3. CASE d = c
    <3>1. buf'[c] = [k.b EXCEPT ![k.w] = q]
      BY <2>1, <2>2
    <3>2. i \in 0..k.w /\ i \in 0..Cap - 1
      BY <1>1, <1>5, <2>1, <2>3, LoginAssumption
    <3>3. CASE i = k.w
      <4>1. [k.b EXCEPT ![k.w] = q][i] = q
        BY <1>1, <3>2, <3>3
      <4> QED
        BY <1>2, <2>3, <3>1, <4>1
    <3>4. CASE i # k.w
      <4>1. i \in 0..k.w - 1
        BY <1>1, <3>2, <3>4
      <4>2. [k.b EXCEPT ![k.w] = q][i] = k.b[i]
        BY <1>1, <3>2, <3>4
      <4> QED
        BY <1>1, <2>3, <3>1, <4>1, <4>2
    <3> QED
      BY <3>3, <3>4
  <2>4. CASE d # c
    BY <1>0, <1>5, <2>1, <2>2, <2>4 DEF TInv, Held
  <2> QED
    BY <2>3, <2>4
<1>11. ppc' = "login" => buf'[pjob'.conn][pjob'.pos] \in Requests
  <2> SUFFICES ASSUME ppc = "login" PROVE buf'[pjob.conn][pjob.pos] \in Requests
    BY <1>0
  <2>1. pjob.conn \in Conns /\ pjob.pos \in 0..Cap - 1
    BY DEF TInv, ProcessType, Pointers
  <2>2. buf[pjob.conn][pjob.pos] \in Requests
    BY DEF TInv, Held
  <2> QED
    BY <1>4, <2>1, <2>2
<1>12. \A i \in 1..Len(dbQueue') : buf'[dbQueue'[i].conn][dbQueue'[i].pos] \in Requests
  <2> SUFFICES ASSUME NEW i \in 1..Len(dbQueue)
               PROVE  buf'[dbQueue[i].conn][dbQueue[i].pos] \in Requests
    BY <1>0
  <2>1. dbQueue[i] \in Pointers
    BY ElementOfSeq DEF TInv, DBType
  <2>2. dbQueue[i].conn \in Conns /\ dbQueue[i].pos \in 0..Cap - 1
    BY <2>1 DEF Pointers
  <2>3. buf[dbQueue[i].conn][dbQueue[i].pos] \in Requests
    BY DEF TInv, Held
  <2> QED
    BY <1>4, <2>2, <2>3
<1>13. Held'
  BY <1>10, <1>11, <1>12 DEF Held
<1>14. ConnType'
  BY <1>0 DEF TInv, ConnType
<1>15. RestType'
  BY <1>0, <1>3 DEF TInv, RestType
<1>16. UserType' /\ DBType' /\ ServerType'
  BY <1>0, UserKept, DBKept, ServerKept DEF TInv
<1> QED
  BY <1>8, <1>9, <1>13, <1>14, <1>15, <1>16 DEF TInv

----------------------------------------------------------------------------
(* ProcessPacket.                                                          *)
LEMMA AnswerTypes ==
    ASSUME TInv, NEW at \in Pointers, NEW id \in IDs, NEW result \in Results,
           Answer(at, id, result), UNCHANGED <<dict, verified, running>>
    PROVE  RestType'
<1> DEFINE to == IF up[at.conn] THEN <<at.conn, gen[at.conn]>> ELSE Nobody
<1>1. at.conn \in Conns /\ gen[at.conn] \in Nat
  BY DEF Pointers, TInv, ConnType
<1>2. to \in {Nobody} \cup (Conns \X Nat)
  BY <1>1
<1>3. [at |-> at, id |-> id, result |-> result, to |-> to]
          \in [at : Pointers, id : IDs, result : Results, to : {Nobody} \cup (Conns \X Nat)]
  BY <1>2
<1>4. answers' = answers \cup {[at |-> at, id |-> id, result |-> result, to |-> to]}
  BY DEF Answer
<1> QED
  BY <1>3, <1>4 DEF TInv, RestType

LEMMA DequePacketDataTypes == ASSUME TInv, DequePacketData PROVE TInv'
<1>0. /\ running /\ ppc = "packet" /\ pjob = None
      /\ UNCHANGED <<conn, user, buf, WPos, system, dict, dbQueue, djob, serverQueue, agent,
                     answers, verified, running>>
  BY DEF DequePacketData, TInv, ProcessType
<1>1. ConnType' /\ UserType' /\ DBType' /\ ServerType' /\ RestType'
  BY <1>0, ConnKept, UserKept, DBKept, ServerKept, RestKept DEF TInv
<1>2. CASE incoming = << >>
  <2>1. ppc' = "system" /\ UNCHANGED <<pjob, incoming, RPos>>
    BY <1>2 DEF DequePacketData
  <2>2. ProcessType' /\ BufferType'
    BY <1>0, <2>1 DEF TInv, ProcessType, BufferType
  <2>3. Held'
    BY <1>0, <2>1 DEF TInv, Held
  <2> QED
    BY <1>1, <2>2, <2>3 DEF TInv
<1>3. CASE incoming # << >>
  <2> DEFINE c == Head(incoming)
  <2>1. c \in Conns /\ incoming' = Tail(incoming) /\ Tail(incoming) \in Seq(Conns)
    BY <1>3, Taken DEF DequePacketData, TInv, ProcessType
  <2>2. CASE RPos[c] < WPos[c]
    <3>1. /\ pjob' = [conn |-> c, pos |-> RPos[c], meant |-> buf[c][RPos[c]]]
          /\ RPos' = [RPos EXCEPT ![c] = @ + 1] /\ ppc' = "login"
      BY <1>3, <2>2 DEF DequePacketData
    <3> HIDE DEF c
    <3>2. /\ WPos[c] \in Nat /\ RPos[c] \in Nat /\ WPos[c] <= Cap
          /\ RPos[c] \in 0..WPos[c] - 1 /\ RPos[c] \in 0..Cap - 1
      BY <1>0, <2>1, <2>2, LoginAssumption DEF TInv, BufferType
    <3>3. buf[c][RPos[c]] \in Requests
      BY <1>0, <2>1, <3>2 DEF TInv, Held
    <3>4. pjob' \in Pointers
      BY <2>1, <3>1, <3>2, <3>3 DEF Pointers
    <3>5. ProcessType'
      BY <1>0, <2>1, <3>1, <3>4 DEF TInv, ProcessType
    <3>6. BufferType'
      BY <1>0, <2>1, <3>1, <3>2 DEF TInv, BufferType
    <3>7. pjob'.conn = c /\ pjob'.pos = RPos[c]
      BY <3>1
    <3>8. Held'
      BY <1>0, <3>3, <3>7 DEF TInv, Held
    <3> QED
      BY <1>1, <3>5, <3>6, <3>8 DEF TInv
  <2>3. CASE ~(RPos[c] < WPos[c])
    <3>1. ppc' = "system" /\ UNCHANGED <<pjob, RPos>>
      BY <1>3, <2>3 DEF DequePacketData
    <3> HIDE DEF c
    <3>2. ProcessType' /\ BufferType'
      BY <1>0, <2>1, <3>1 DEF TInv, ProcessType, BufferType
    <3>3. Held'
      BY <1>0, <3>1 DEF TInv, Held
    <3> QED
      BY <1>1, <3>2, <3>3 DEF TInv
  <2> QED
    BY <2>2, <2>3
<1> QED
  BY <1>2, <1>3

LEMMA ProcessLoginTypes == ASSUME TInv, ProcessLogin PROVE TInv'
<1> DEFINE u == buf[pjob.conn][pjob.pos].id
<1>0. /\ running /\ ppc = "login" /\ ppc' = "system" /\ pjob' = None
      /\ UNCHANGED <<conn, user, buffer, incoming, system, dict, djob, serverQueue, agent,
                     verified, running>>
  BY DEF ProcessLogin
<1>1. pjob \in Pointers /\ buf[pjob.conn][pjob.pos] \in Requests
  BY <1>0 DEF TInv, ProcessType, Held
<1>2. u \in IDs
  BY <1>1 DEF Requests
<1>3. ConnType' /\ UserType' /\ BufferType' /\ ServerType'
  BY <1>0, ConnKept, UserKept, BufferKept, ServerKept DEF TInv
<1>4. ProcessType'
  BY <1>0 DEF TInv, ProcessType
<1>5. \/ dbQueue' = Append(dbQueue, pjob) /\ UNCHANGED answers
      \/ Answer(pjob, u, 4) /\ UNCHANGED dbQueue
  BY DEF ProcessLogin
<1> HIDE DEF u
<1>6. CASE dbQueue' = Append(dbQueue, pjob) /\ UNCHANGED answers
  <2>1. /\ dbQueue' \in Seq(Pointers) /\ Len(dbQueue') = Len(dbQueue) + 1
        /\ \A i \in 1..Len(dbQueue) : dbQueue'[i] = dbQueue[i]
        /\ dbQueue'[Len(dbQueue) + 1] = pjob
    BY <1>1, <1>6, AppendProperties DEF TInv, DBType
  <2>2. DBType'
    BY <1>0, <2>1 DEF TInv, DBType
  <2>3. RestType'
    BY <1>0, <1>6, RestKept DEF TInv
  <2>4. Len(dbQueue) \in Nat
    BY LenProperties DEF TInv, DBType
  <2>5. \A i \in 1..Len(dbQueue') : i \in 1..Len(dbQueue) \/ i = Len(dbQueue) + 1
    BY <2>1, <2>4
  <2>6. \A i \in 1..Len(dbQueue') : buf[dbQueue'[i].conn][dbQueue'[i].pos] \in Requests
    BY <1>1, <2>1, <2>5 DEF TInv, Held
  <2>7. Held'
    BY <1>0, <2>6 DEF TInv, Held, buffer
  <2> QED
    BY <1>3, <1>4, <2>2, <2>3, <2>7 DEF TInv
<1>7. CASE Answer(pjob, u, 4) /\ UNCHANGED dbQueue
  <2>1. RestType'
    BY <1>0, <1>1, <1>2, <1>7, AnswerTypes DEF Results
  <2>2. DBType' /\ Held'
    BY <1>0, <1>7, DBKept DEF TInv, Held, buffer
  <2> QED
    BY <1>3, <1>4, <2>1, <2>2 DEF TInv
<1> QED
  BY <1>5, <1>6, <1>7

\* User::Clear keeps the types of users and buffers, and empties the buffer.
LEMMA ClearTypes ==
    ASSUME TInv, NEW c \in Conns, Clear(c), UNCHANGED <<buf, running>>,
           ppc' # "login", UNCHANGED dbQueue
    PROVE  UserType' /\ BufferType' /\ Held'
<1>1. UserType'
  BY DEF Clear, TInv, UserType
<1>2. BufferType'
  BY LoginAssumption DEF Clear, TInv, BufferType
<1>3. \A d \in Conns : WPos'[d] = WPos[d] \/ WPos'[d] = 0
  BY DEF Clear, TInv, BufferType
<1>4. Held'
  BY <1>3 DEF TInv, Held
<1> QED
  BY <1>1, <1>2, <1>4

LEMMA DequeSystemPacketDataTypes == ASSUME TInv, DequeSystemPacketData PROVE TInv'
<1>0. /\ running /\ ppc = "system" /\ pjob = None
      /\ UNCHANGED <<conn, buf, incoming, dict, dbQueue, djob, serverQueue, agent, answers,
                     verified, running>>
  BY DEF DequeSystemPacketData, TInv, ProcessType
<1>1. ConnType' /\ DBType' /\ ServerType' /\ RestType'
  BY <1>0, ConnKept, DBKept, ServerKept, RestKept DEF TInv
<1>2. CASE system = << >>
  <2>1. ppc' = "packet" /\ UNCHANGED <<pjob, system, user, WPos, RPos>>
    BY <1>2 DEF DequeSystemPacketData
  <2>2. UserType' /\ BufferType' /\ ProcessType' /\ Held'
    BY <1>0, <2>1, UserKept DEF TInv, BufferType, ProcessType, Held
  <2> QED
    BY <1>1, <2>2 DEF TInv
<1>3. CASE system # << >>
  <2> DEFINE c == Head(system)[2]
  <2>1. /\ Head(system) \in {"connect", "disconnect"} \X Conns
        /\ Tail(system) \in Seq({"connect", "disconnect"} \X Conns)
    BY <1>3, Taken DEF TInv, ProcessType
  <2>2. c \in Conns
    BY <2>1
  <2>3. system' = Tail(system)
    BY <1>3 DEF DequeSystemPacketData
  <2>4. CASE Head(system)[1] = "connect"
    <3>1. Clear(c) /\ ppc' = "packet" /\ UNCHANGED pjob
      BY <1>3, <2>4 DEF DequeSystemPacketData
    <3> HIDE DEF c
    <3>2. UserType' /\ BufferType' /\ Held'
      BY <1>0, <2>2, <3>1, ClearTypes
    <3>3. ProcessType'
      BY <1>0, <2>1, <2>3, <3>1 DEF TInv, ProcessType
    <3> QED
      BY <1>1, <3>2, <3>3 DEF TInv
  <2>5. CASE Head(system)[1] # "connect"
    <3>1. /\ \/ ppc' = "erase" /\ pjob' = [conn |-> c]
             \/ ppc' = "packet" /\ UNCHANGED pjob
          /\ UNCHANGED <<user, WPos, RPos>>
      BY <1>3, <2>5 DEF DequeSystemPacketData
    <3> HIDE DEF c
    <3>2. ProcessType'
      BY <1>0, <2>1, <2>2, <2>3, <3>1 DEF TInv, ProcessType
    <3>3. UserType' /\ BufferType' /\ Held'
      BY <1>0, <3>1, UserKept DEF TInv, BufferType, Held
    <3> QED
      BY <1>1, <3>2, <3>3 DEF TInv
  <2> QED
    BY <2>4, <2>5
<1> QED
  BY <1>2, <1>3

LEMMA EraseUserIDTypes == ASSUME TInv, EraseUserID PROVE TInv'
<1>1. ProcessType'
  BY DEF EraseUserID, TInv, ProcessType
<1>2. RestType'
  BY DEF EraseUserID, TInv, RestType
<1>3. Held'
  BY DEF EraseUserID, TInv, Held, buffer
<1>4. ConnType' /\ UserType' /\ BufferType' /\ DBType' /\ ServerType'
  BY ConnKept, UserKept, BufferKept, DBKept, ServerKept DEF EraseUserID, TInv
<1> QED
  BY <1>1, <1>2, <1>3, <1>4 DEF TInv

LEMMA ClearUserTypes == ASSUME TInv, ClearUser PROVE TInv'
<1>1. pjob.conn \in Conns
  BY DEF ClearUser, TInv, ProcessType
<1>2. UserType' /\ BufferType' /\ Held'
  BY <1>1, ClearTypes DEF ClearUser
<1>3. ProcessType'
  BY DEF ClearUser, TInv, ProcessType
<1>4. ConnType' /\ DBType' /\ ServerType' /\ RestType'
  BY ConnKept, DBKept, ServerKept, RestKept DEF ClearUser, TInv
<1> QED
  BY <1>2, <1>3, <1>4 DEF TInv

\* Steps after which nothing follows change nothing but running.
LEMMA StopTypes ==
    ASSUME TInv, running' = FALSE,
           UNCHANGED <<conn, user, buffer, process, dict, dbQueue, djob, serverQueue, agent,
                       answers, verified>>
    PROVE  TInv'
<1>1. ConnType' /\ UserType' /\ ProcessType' /\ DBType' /\ ServerType'
  BY ConnKept, UserKept, ProcessKept, DBKept, ServerKept DEF TInv
<1>2. BufferType' /\ RestType'
  BY DEF TInv, BufferType, RestType, buffer
<1>3. Held'
  BY DEF TInv, Held, buffer, process
<1> QED
  BY <1>1, <1>2, <1>3 DEF TInv

----------------------------------------------------------------------------
(* DBAgent and the queues.                                                 *)
LEMMA ReadCredentialsTypes == ASSUME TInv, ReadCredentials PROVE TInv'
<1>0. /\ dbQueue # << >> /\ dbQueue' = Tail(dbQueue)
      /\ djob' = [at |-> Head(dbQueue), read |-> buf[Head(dbQueue).conn][Head(dbQueue).pos]]
      /\ UNCHANGED <<conn, user, buffer, process, dict, serverQueue, agent, answers,
                     verified, running>>
  BY DEF ReadCredentials
<1>1. /\ Head(dbQueue) \in Pointers /\ Head(dbQueue) = dbQueue[1] /\ 1 \in 1..Len(dbQueue)
      /\ Tail(dbQueue) \in Seq(Pointers)
      /\ \A i \in 1..Len(Tail(dbQueue)) :
             Tail(dbQueue)[i] = dbQueue[i + 1] /\ i + 1 \in 1..Len(dbQueue)
  BY <1>0, Taken DEF TInv, DBType
<1>2. buf[Head(dbQueue).conn][Head(dbQueue).pos] \in Requests
  BY <1>1 DEF TInv, Held
<1>3. DBType'
  BY <1>0, <1>1, <1>2 DEF DBType
<1>4. \A i \in 1..Len(Tail(dbQueue)) :
          buf[Tail(dbQueue)[i].conn][Tail(dbQueue)[i].pos] \in Requests
  BY <1>1 DEF TInv, Held
<1>5. Held'
  BY <1>0, <1>4 DEF TInv, Held, buffer, process
<1>6. ConnType' /\ UserType' /\ BufferType' /\ ProcessType' /\ ServerType' /\ RestType'
  BY <1>0, ConnKept, UserKept, BufferKept, ProcessKept, ServerKept, RestKept DEF TInv
<1> QED
  BY <1>3, <1>5, <1>6 DEF TInv

LEMMA RespondTypes == ASSUME TInv, Respond PROVE TInv'
<1>0. /\ running /\ djob # None /\ djob' = None /\ running' \in BOOLEAN
      /\ UNCHANGED <<conn, user, buffer, process, dict, dbQueue, agent, answers>>
  BY DEF Respond
<1>1. djob.at \in Pointers /\ djob.read \in Requests /\ djob.read.id \in IDs
  BY <1>0 DEF TInv, DBType, Requests
<1>2. PICK result \in {IF djob.read.right THEN 1 ELSE 2, 3} :
          /\ serverQueue' = Append(serverQueue, [at |-> djob.at, id |-> djob.read.id,
                                                 result |-> result])
          /\ verified' = IF result = 1 THEN verified \cup {djob.read.id} ELSE verified
  BY DEF Respond
<1> DEFINE e == [at |-> djob.at, id |-> djob.read.id, result |-> result]
<1>3. e \in Responses
  BY <1>1 DEF Responses, Results
<1>4. ServerType'
  <2>1. serverQueue \in Seq(Responses)
    BY DEF TInv, ServerType
  <2>2. serverQueue' \in Seq(Responses)
    BY <1>2, <1>3, <2>1, AppendProperties
  <2> QED
    BY <1>0, <2>2 DEF TInv, ServerType, agent
<1>5. verified' \subseteq IDs
  BY <1>1, <1>2 DEF TInv, RestType
<1>6. RestType'
  BY <1>0, <1>5, LoginAssumption DEF TInv, RestType
<1>7. DBType'
  BY <1>0 DEF TInv, DBType
<1>8. BufferType' /\ Held'
  BY <1>0 DEF TInv, BufferType, Held, buffer, process
<1>9. ConnType' /\ UserType' /\ ProcessType'
  BY <1>0, ConnKept, UserKept, ProcessKept DEF TInv
<1> QED
  BY <1>4, <1>6, <1>7, <1>8, <1>9 DEF TInv

LEMMA LosePacketTypes == ASSUME TInv, LosePacket PROVE TInv'
<1>0. /\ UNCHANGED <<conn, user, buffer, process, dict, djob, agent, answers, verified, running>>
      /\ \/ /\ dbQueue # << >> /\ dbQueue' = SubSeq(dbQueue, 1, Len(dbQueue) - 1)
            /\ UNCHANGED serverQueue
         \/ /\ serverQueue # << >> /\ serverQueue' = SubSeq(serverQueue, 1, Len(serverQueue) - 1)
            /\ UNCHANGED dbQueue
  BY DEF LosePacket
<1>1. ConnType' /\ UserType' /\ BufferType' /\ ProcessType' /\ RestType'
  BY <1>0, ConnKept, UserKept, BufferKept, ProcessKept, RestKept DEF TInv
<1>2. CASE /\ dbQueue # << >> /\ dbQueue' = SubSeq(dbQueue, 1, Len(dbQueue) - 1)
           /\ UNCHANGED serverQueue
  <2>1. /\ dbQueue' \in Seq(Pointers) /\ Len(dbQueue') = Len(dbQueue) - 1
        /\ \A i \in 1..Len(dbQueue) - 1 : dbQueue'[i] = dbQueue[i] /\ i \in 1..Len(dbQueue)
    BY <1>2, Shortened DEF TInv, DBType
  <2>2. DBType' /\ ServerType'
    BY <1>0, <1>2, <2>1, ServerKept DEF TInv, DBType
  <2>3. \A i \in 1..Len(dbQueue') : buf[dbQueue'[i].conn][dbQueue'[i].pos] \in Requests
    BY <2>1 DEF TInv, Held
  <2>4. Held'
    BY <1>0, <2>3 DEF TInv, Held, buffer, process
  <2> QED
    BY <1>1, <2>2, <2>4 DEF TInv
<1>3. CASE /\ serverQueue # << >>
           /\ serverQueue' = SubSeq(serverQueue, 1, Len(serverQueue) - 1)
           /\ UNCHANGED dbQueue
  <2>1. serverQueue' \in Seq(Responses)
    BY <1>3, Shortened DEF TInv, ServerType
  <2>2. DBType' /\ ServerType' /\ Held'
    BY <1>0, <1>3, <2>1, DBKept DEF TInv, ServerType, Held, buffer, process, agent
  <2> QED
    BY <1>1, <2>2 DEF TInv
<1> QED
  BY <1>0, <1>2, <1>3

----------------------------------------------------------------------------
(* ProcessQueue.                                                           *)
LEMMA DequeueReadPacketTypes == ASSUME TInv, DequeueReadPacket PROVE TInv'
<1>1. Head(serverQueue) \in Responses /\ Tail(serverQueue) \in Seq(Responses)
  BY Taken DEF DequeueReadPacket, TInv, ServerType
<1>2. ServerType'
  BY <1>1 DEF DequeueReadPacket, ServerType
<1>3. ConnType' /\ UserType' /\ BufferType' /\ ProcessType' /\ DBType' /\ RestType' /\ Held'
  BY ConnKept, UserKept, BufferKept, ProcessKept, DBKept, RestKept, HeldKept
     DEF DequeueReadPacket, TInv, process
<1> QED
  BY <1>2, <1>3 DEF TInv

LEMMA ResponseType ==
    ASSUME TInv, apc # "dequeue"
    PROVE  /\ ajob \in Responses /\ ajob.at \in Pointers /\ ajob.at.conn \in Conns
           /\ ajob.id \in IDs /\ ajob.result \in Results
BY DEF TInv, ServerType, Responses, Pointers

LEMMA SetDomainTypes == ASSUME TInv, SetDomain PROVE TInv'
<1>1. UserType' /\ ServerType'
  BY ResponseType DEF SetDomain, TInv, UserType, ServerType
<1>2. ConnType' /\ BufferType' /\ ProcessType' /\ DBType' /\ RestType' /\ Held'
  BY ConnKept, BufferKept, ProcessKept, DBKept, RestKept, HeldKept DEF SetDomain, TInv, process
<1> QED
  BY <1>1, <1>2 DEF TInv

LEMMA SetIDTypes == ASSUME TInv, SetID PROVE TInv'
<1>1. ajob.at.conn \in Conns /\ ajob.id \in IDs
  BY ResponseType DEF SetID
<1>2. UserType' /\ ServerType'
  BY <1>1 DEF SetID, TInv, UserType, ServerType
<1>3. ConnType' /\ BufferType' /\ ProcessType' /\ DBType' /\ RestType' /\ Held'
  BY ConnKept, BufferKept, ProcessKept, DBKept, RestKept, HeldKept DEF SetID, TInv, process
<1> QED
  BY <1>2, <1>3 DEF TInv

LEMMA InsertBeginTypes == ASSUME TInv, InsertBegin PROVE TInv'
<1>1. ServerType'
  BY DEF InsertBegin, TInv, ServerType
<1>2. ConnType' /\ UserType' /\ BufferType' /\ ProcessType' /\ DBType' /\ RestType' /\ Held'
  BY ConnKept, UserKept, BufferKept, ProcessKept, DBKept, RestKept, HeldKept
     DEF InsertBegin, TInv, process
<1> QED
  BY <1>1, <1>2 DEF TInv

LEMMA InsertEndTypes == ASSUME TInv, InsertEnd PROVE TInv'
<1>1. ajob.at.conn \in Conns /\ ajob.id \in IDs
  BY ResponseType DEF InsertEnd
<1>2. RestType' /\ ServerType'
  BY <1>1 DEF InsertEnd, TInv, RestType, ServerType
<1>3. ConnType' /\ UserType' /\ BufferType' /\ ProcessType' /\ DBType' /\ Held'
  BY ConnKept, UserKept, BufferKept, ProcessKept, DBKept, HeldKept DEF InsertEnd, TInv, process
<1> QED
  BY <1>2, <1>3 DEF TInv

LEMMA SendResponseTypes == ASSUME TInv, SendResponse PROVE TInv'
<1>1. ajob.at \in Pointers /\ ajob.id \in IDs /\ ajob.result \in Results
  BY ResponseType DEF SendResponse
<1>2. RestType'
  BY <1>1, AnswerTypes DEF SendResponse
<1>3. ServerType'
  BY DEF SendResponse, TInv, ServerType
<1>4. ConnType' /\ UserType' /\ BufferType' /\ ProcessType' /\ DBType' /\ Held'
  BY ConnKept, UserKept, BufferKept, ProcessKept, DBKept, HeldKept
     DEF SendResponse, TInv, process
<1> QED
  BY <1>2, <1>3, <1>4 DEF TInv

----------------------------------------------------------------------------
LEMMA NextTypes == TInv /\ [Next]_vars => TInv'
<1> SUFFICES ASSUME TInv, [Next]_vars PROVE TInv'
  OBVIOUS
<1>1. CASE \E c \in Conns : Connect(c) \/ OnConnect(c) \/ OnClose(c)
  BY <1>1, ConnectTypes, OnConnectTypes, OnCloseTypes
<1>2. CASE \E c \in Conns, u \in IDs, right \in BOOLEAN : OnReceive(c, u, right)
  BY <1>2, OnReceiveTypes
<1>3. CASE ProcessPacket
  <2>1. CASE TornAccess
    BY <2>1, StopTypes DEF TornAccess
  <2> QED
    BY <1>3, <2>1, DequePacketDataTypes, ProcessLoginTypes, DequeSystemPacketDataTypes,
       EraseUserIDTypes, ClearUserTypes DEF ProcessPacket
<1>4. CASE DBAgent
  <2>1. CASE IdlePoll
    BY <2>1, StopTypes DEF IdlePoll
  <2> QED
    BY <1>4, <2>1, ReadCredentialsTypes, RespondTypes DEF DBAgent
<1>5. CASE ProcessQueue
  BY <1>5, DequeueReadPacketTypes, SetDomainTypes, SetIDTypes, InsertBeginTypes,
     InsertEndTypes, SendResponseTypes DEF ProcessQueue
<1>6. CASE LosePacket
  BY <1>6, LosePacketTypes
<1>7. CASE UNCHANGED vars
  BY <1>7, ConnKept, UserKept, BufferKept, ProcessKept, DBKept, ServerKept, RestKept, HeldKept
     DEF vars, conn, user, buffer, process, agent, TInv
<1> QED
  BY <1>1, <1>2, <1>3, <1>4, <1>5, <1>6, <1>7 DEF Next

(* All variables keep their types, and read positions stay within what was *)
(* written, for any buffer size and any interleaving of the four kinds of  *)
(* threads.                                                                *)
THEOREM TypeCorrect == Spec => []TypeOK
<1>1. Spec => []TInv
  BY InitTypes, NextTypes, PTL DEF Spec
<1> QED
  BY <1>1, TypesTogether, PTL

----------------------------------------------------------------------------
(* Only IDs the database has found are listed.                             *)
Confirmed ==
    /\ \A i \in 1..Len(serverQueue) : serverQueue[i].result = 1 => serverQueue[i].id \in verified
    /\ apc \in {"setdomain", "setid", "insert", "inserting"} => ajob.id \in verified

VInv == TInv /\ OnlyVerified /\ Confirmed

LEMMA InitVerified == Init => OnlyVerified /\ Confirmed
BY EmptySeq DEF Init, OnlyVerified, Confirmed

\* Steps that touch neither users nor confirmations.
LEMMA VerifiedKept ==
    ASSUME OnlyVerified, Confirmed, UNCHANGED <<userID, dict, verified, serverQueue, agent>>
    PROVE  OnlyVerified' /\ Confirmed'
BY DEF OnlyVerified, Confirmed, agent

\* Clearing a user or erasing an entry only removes IDs.
LEMMA ClearVerified ==
    ASSUME VInv, NEW c \in Conns, Clear(c), UNCHANGED <<dict, verified, serverQueue, agent>>
    PROVE  OnlyVerified' /\ Confirmed'
<1>1. \A d \in Conns : userID'[d] = None \/ userID'[d] = userID[d]
  BY DEF Clear, VInv, TInv, UserType
<1> QED
  BY <1>1 DEF VInv, OnlyVerified, Confirmed, agent

LEMMA DequeSystemPacketDataVerified ==
    ASSUME VInv, DequeSystemPacketData PROVE OnlyVerified' /\ Confirmed'
<1>1. CASE UNCHANGED user
  BY <1>1, VerifiedKept DEF DequeSystemPacketData, VInv, user
<1>2. CASE ~UNCHANGED user
  <2>1. system # << >> /\ Clear(Head(system)[2])
    BY <1>2 DEF DequeSystemPacketData
  <2>2. Head(system)[2] \in Conns
    <3>1. Head(system) \in {"connect", "disconnect"} \X Conns
      BY <2>1, Taken DEF VInv, TInv, ProcessType
    <3> QED
      BY <3>1
  <2> QED
    BY <2>1, <2>2, ClearVerified DEF DequeSystemPacketData
<1> QED
  BY <1>1, <1>2

LEMMA EraseUserIDVerified == ASSUME VInv, EraseUserID PROVE OnlyVerified' /\ Confirmed'
<1>1. \A u \in IDs : dict'[u] = None \/ dict'[u] = dict[u]
  BY DEF EraseUserID
<1> QED
  BY <1>1 DEF EraseUserID, VInv, OnlyVerified, Confirmed, user, agent

LEMMA ClearUserVerified == ASSUME VInv, ClearUser PROVE OnlyVerified' /\ Confirmed'
<1>1. pjob.conn \in Conns
  BY DEF ClearUser, VInv, TInv, ProcessType
<1> QED
  BY <1>1, ClearVerified DEF ClearUser

LEMMA RespondVerified == ASSUME VInv, Respond PROVE OnlyVerified' /\ Confirmed'
<1>0. djob # None /\ UNCHANGED <<user, dict, agent>>
  BY DEF Respond
<1>1. PICK result \in {IF djob.read.right THEN 1 ELSE 2, 3} :
          /\ serverQueue' = Append(serverQueue, [at |-> djob.at, id |-> djob.read.id,
                                                 result |-> result])
          /\ verified' = IF result = 1 THEN verified \cup {djob.read.id} ELSE verified
  BY DEF Respond
<1>2. djob.at \in Pointers /\ djob.read.id \in IDs
  BY <1>0 DEF VInv, TInv, DBType, Requests
<1> DEFINE e == [at |-> djob.at, id |-> djob.read.id, result |-> result]
<1>3. e \in Responses /\ serverQueue \in Seq(Responses) /\ Len(serverQueue) \in Nat
  BY <1>2, LenProperties DEF VInv, TInv, ServerType, Responses, Results
<1>4. /\ Len(serverQueue') = Len(serverQueue) + 1
      /\ \A i \in 1..Len(serverQueue) : serverQueue'[i] = serverQueue[i]
      /\ serverQueue'[Len(serverQueue) + 1] = e
  BY <1>1, <1>3, AppendProperties
<1>5. verified \subseteq verified' /\ (e.result = 1 => e.id \in verified')
  BY <1>1
<1>6. OnlyVerified'
  BY <1>0, <1>5 DEF VInv, OnlyVerified, user
<1>7. \A i \in 1..Len(serverQueue') : i \in 1..Len(serverQueue) \/ i = Len(serverQueue) + 1
  BY <1>3, <1>4
<1> HIDE DEF e
<1>8. \A i \in 1..Len(serverQueue') : serverQueue'[i].result = 1 => serverQueue'[i].id \in verified'
  BY <1>4, <1>5, <1>7 DEF VInv, Confirmed
<1>9. Confirmed'
  BY <1>0, <1>5, <1>8 DEF VInv, Confirmed, agent
<1> QED
  BY <1>6, <1>9

LEMMA LosePacketVerified == ASSUME VInv, LosePacket PROVE OnlyVerified' /\ Confirmed'
<1>0. UNCHANGED <<user, dict, agent, verified>>
  BY DEF LosePacket
<1>1. CASE UNCHANGED serverQueue
  BY <1>0, <1>1, VerifiedKept DEF VInv, user
<1>2. CASE serverQueue # << >> /\ serverQueue' = SubSeq(serverQueue, 1, Len(serverQueue) - 1)
  <2>1. /\ Len(serverQueue') = Len(serverQueue) - 1
        /\ \A i \in 1..Len(serverQueue) - 1 :
               serverQueue'[i] = serverQueue[i] /\ i \in 1..Len(serverQueue)
    BY <1>2, Shortened DEF VInv, TInv, ServerType
  <2> QED
    BY <1>0, <2>1 DEF VInv, OnlyVerified, Confirmed, user, agent
<1> QED
  BY <1>1, <1>2 DEF LosePacket

LEMMA DequeueReadPacketVerified ==
    ASSUME VInv, DequeueReadPacket PROVE OnlyVerified' /\ Confirmed'
<1>1. /\ serverQueue # << >> /\ serverQueue' = Tail(serverQueue) /\ ajob' = Head(serverQueue)
      /\ apc' = IF Head(serverQueue).result = 1 THEN "setdomain" ELSE "send"
      /\ UNCHANGED <<user, dict, verified>>
  BY DEF DequeueReadPacket
<1>2. /\ Head(serverQueue) = serverQueue[1] /\ 1 \in 1..Len(serverQueue)
      /\ \A i \in 1..Len(Tail(serverQueue)) :
             Tail(serverQueue)[i] = serverQueue[i + 1] /\ i + 1 \in 1..Len(serverQueue)
  BY <1>1, Taken DEF VInv, TInv, ServerType
<1>3. OnlyVerified'
  BY <1>1 DEF VInv, OnlyVerified, user
<1>4. \A i \in 1..Len(serverQueue') : serverQueue'[i].result = 1 => serverQueue'[i].id \in verified
  BY <1>1, <1>2 DEF VInv, Confirmed
<1>5. Head(serverQueue).result = 1 => Head(serverQueue).id \in verified
  BY <1>2 DEF VInv, Confirmed
<1>6. Confirmed'
  BY <1>1, <1>4, <1>5 DEF Confirmed
<1> QED
  BY <1>3, <1>6

LEMMA SetIDVerified == ASSUME VInv, SetID PROVE OnlyVerified' /\ Confirmed'
<1>1. ajob.id \in verified /\ \A c \in Conns : userID'[c] = userID[c] \/ userID'[c] = ajob.id
  BY DEF SetID, VInv, TInv, UserType, Confirmed
<1> QED
  BY <1>1 DEF SetID, VInv, OnlyVerified, Confirmed

LEMMA InsertEndVerified == ASSUME VInv, InsertEnd PROVE OnlyVerified' /\ Confirmed'
<1>1. ajob.id \in verified /\ \A u \in IDs : dict'[u] = dict[u] \/ u = ajob.id
  BY DEF InsertEnd, VInv, TInv, RestType, Confirmed
<1> QED
  BY <1>1 DEF InsertEnd, VInv, OnlyVerified, Confirmed, user

LEMMA NextVerified == VInv /\ [Next]_vars => VInv'
<1> SUFFICES ASSUME VInv, [Next]_vars PROVE OnlyVerified' /\ Confirmed'
  BY NextTypes DEF VInv
<1> USE DEF VInv
<1>1. CASE \E c \in Conns : Connect(c) \/ OnConnect(c) \/ OnClose(c)
  BY <1>1, VerifiedKept DEF Connect, OnConnect, OnClose, user
<1>2. CASE \E c \in Conns, u \in IDs, right \in BOOLEAN : OnReceive(c, u, right)
  BY <1>2, VerifiedKept DEF OnReceive, user
<1>3. CASE ProcessPacket
  <2>1. CASE DequePacketData \/ ProcessLogin \/ TornAccess
    BY <2>1, VerifiedKept DEF DequePacketData, ProcessLogin, TornAccess, user
  <2> QED
    BY <1>3, <2>1, DequeSystemPacketDataVerified, EraseUserIDVerified, ClearUserVerified
       DEF ProcessPacket
<1>4. CASE DBAgent
  <2>1. CASE IdlePoll \/ ReadCredentials
    BY <2>1, VerifiedKept DEF IdlePoll, ReadCredentials, user
  <2> QED
    BY <1>4, <2>1, RespondVerified DEF DBAgent
<1>5. CASE ProcessQueue
  <2>1. CASE SetDomain \/ InsertBegin \/ SendResponse
    BY <2>1 DEF SetDomain, InsertBegin, SendResponse, OnlyVerified, Confirmed, user
  <2> QED
    BY <1>5, <2>1, DequeueReadPacketVerified, SetIDVerified, InsertEndVerified DEF ProcessQueue
<1>6. CASE LosePacket
  BY <1>6, LosePacketVerified
<1>7. CASE UNCHANGED vars
  BY <1>7, VerifiedKept DEF vars, agent
<1> QED
  BY <1>1, <1>2, <1>3, <1>4, <1>5, <1>6, <1>7 DEF Next

(* Nobody is listed or marked as logged in whose ID and password the       *)
(* database has not found, although the pointers it is queried through may *)
(* show it another packet than the one that was queued.                    *)
THEOREM Verified == Spec => []OnlyVerified
<1>1. Spec => []VInv
  <2>1. Init => VInv
    BY InitTypes, InitVerified DEF VInv
  <2> QED
    BY <2>1, NextVerified, PTL DEF Spec
<1>2. VInv => OnlyVerified
  BY DEF VInv
<1> QED
  BY <1>1, <1>2, PTL

----------------------------------------------------------------------------
(* With patient clients a pointer never outlives its packet.               *)
OwnPackets ==
    /\ ppc = "login" => buf[pjob.conn][pjob.pos] = pjob.meant
    /\ \A i \in 1..Len(dbQueue) : buf[dbQueue[i].conn][dbQueue[i].pos] = dbQueue[i].meant
    /\ ReadsOwnPacket

PInv == TInv /\ OwnPackets

\* Steps that touch neither buffers nor pointers.
LEMMA OwnKept ==
    ASSUME OwnPackets, UNCHANGED <<buf, ppc, pjob, dbQueue, djob>>
    PROVE  OwnPackets'
BY DEF OwnPackets, ReadsOwnPacket

\* A packet is stored only when nothing of its connection is under way.
LEMMA OnReceiveOwn ==
    ASSUME Patient, PInv, NEW c \in Conns, NEW u \in IDs, NEW right \in BOOLEAN,
           OnReceive(c, u, right)
    PROVE  OwnPackets'
<1>1. /\ ~Busy(c) /\ UNCHANGED <<ppc, pjob, dbQueue, djob>>
  BY DEF OnReceive
<1>2. \A d \in Conns \ {c} : buf'[d] = buf[d]
  BY DEF OnReceive, PInv, TInv, BufferType
<1>3. ppc = "login" => pjob.conn \in Conns \ {c}
  <2> SUFFICES ASSUME ppc = "login" PROVE pjob.conn \in Conns \ {c}
    OBVIOUS
  <2>1. pjob \in Pointers /\ pjob # None
    BY NoneAssumption DEF PInv, TInv, ProcessType
  <2> QED
    BY <1>1, <2>1 DEF Busy, Pointers
<1>4. \A i \in 1..Len(dbQueue) : dbQueue[i].conn \in Conns \ {c}
  <2> SUFFICES ASSUME NEW i \in 1..Len(dbQueue) PROVE dbQueue[i].conn \in Conns \ {c}
    OBVIOUS
  <2>1. dbQueue[i] \in Pointers
    BY ElementOfSeq DEF PInv, TInv, DBType
  <2> QED
    BY <1>1, <2>1 DEF Busy, Pointers
<1> QED
  BY <1>1, <1>2, <1>3, <1>4 DEF PInv, OwnPackets, ReadsOwnPacket

LEMMA DequePacketDataOwn == ASSUME PInv, DequePacketData PROVE OwnPackets'
<1>1. UNCHANGED <<buf, dbQueue, djob>> /\ ppc = "packet"
  BY DEF DequePacketData
<1>2. ppc' = "login" => buf[pjob'.conn][pjob'.pos] = pjob'.meant
  BY <1>1 DEF DequePacketData
<1> QED
  BY <1>1, <1>2 DEF PInv, OwnPackets, ReadsOwnPacket

LEMMA ProcessLoginOwn == ASSUME PInv, ProcessLogin PROVE OwnPackets'
<1>1. /\ ppc = "login" /\ ppc' = "system" /\ UNCHANGED <<buf, djob>>
      /\ dbQueue' = dbQueue \/ dbQueue' = Append(dbQueue, pjob)
  BY DEF ProcessLogin, buffer
<1>2. pjob \in Pointers /\ dbQueue \in Seq(Pointers)
  BY <1>1 DEF PInv, TInv, ProcessType, DBType
<1>3. CASE dbQueue' = Append(dbQueue, pjob)
  <2>1. /\ Len(dbQueue') = Len(dbQueue) + 1 /\ Len(dbQueue) \in Nat
        /\ \A i \in 1..Len(dbQueue) : dbQueue'[i] = dbQueue[i]
        /\ dbQueue'[Len(dbQueue) + 1] = pjob
    BY <1>2, <1>3, AppendProperties, LenProperties
  <2>2. \A i \in 1..Len(dbQueue') : i \in 1..Len(dbQueue) \/ i = Len(dbQueue) + 1
    BY <2>1
  <2> QED
    BY <1>1, <2>1, <2>2 DEF PInv, OwnPackets, ReadsOwnPacket
<1> QED
  BY <1>1, <1>3 DEF PInv, OwnPackets, ReadsOwnPacket

LEMMA ReadCredentialsOwn == ASSUME PInv, ReadCredentials PROVE OwnPackets'
<1>1. /\ dbQueue # << >> /\ dbQueue' = Tail(dbQueue) /\ UNCHANGED <<buf, ppc, pjob>>
      /\ djob' = [at |-> Head(dbQueue), read |-> buf[Head(dbQueue).conn][Head(dbQueue).pos]]
  BY DEF ReadCredentials, buffer, process
<1>2. /\ Head(dbQueue) = dbQueue[1] /\ 1 \in 1..Len(dbQueue)
      /\ \A i \in 1..Len(Tail(dbQueue)) :
             Tail(dbQueue)[i] = dbQueue[i + 1] /\ i + 1 \in 1..Len(dbQueue)
  BY <1>1, Taken DEF PInv, TInv, DBType
<1> QED
  BY <1>1, <1>2 DEF PInv, OwnPackets, ReadsOwnPacket

LEMMA LosePacketOwn == ASSUME PInv, LosePacket PROVE OwnPackets'
<1>1. UNCHANGED <<buf, ppc, pjob, djob>>
  BY DEF LosePacket, buffer, process
<1>2. CASE UNCHANGED dbQueue
  BY <1>1, <1>2, OwnKept DEF PInv
<1>3. CASE dbQueue # << >> /\ dbQueue' = SubSeq(dbQueue, 1, Len(dbQueue) - 1)
  <2>1. /\ Len(dbQueue') = Len(dbQueue) - 1
        /\ \A i \in 1..Len(dbQueue) - 1 : dbQueue'[i] = dbQueue[i] /\ i \in 1..Len(dbQueue)
    BY <1>3, Shortened DEF PInv, TInv, DBType
  <2> QED
    BY <1>1, <2>1 DEF PInv, OwnPackets, ReadsOwnPacket
<1> QED
  BY <1>2, <1>3 DEF LosePacket

LEMMA NextOwn == ASSUME Patient, PInv, [Next]_vars PROVE PInv'
<1>0. TInv' /\ OwnPackets
  BY NextTypes DEF PInv
<1> SUFFICES OwnPackets'
  BY <1>0 DEF PInv
<1>1. CASE \E c \in Conns : Connect(c) \/ OnConnect(c) \/ OnClose(c)
  BY <1>0, <1>1, OwnKept DEF Connect, OnConnect, OnClose, buffer, process
<1>2. CASE \E c \in Conns, u \in IDs, right \in BOOLEAN : OnReceive(c, u, right)
  BY <1>2, OnReceiveOwn
<1>3. CASE ProcessPacket
  <2>1. CASE DequeSystemPacketData \/ EraseUserID \/ ClearUser
    BY <1>0, <2>1 DEF DequeSystemPacketData, EraseUserID, ClearUser, OwnPackets, ReadsOwnPacket, buffer
  <2>2. CASE TornAccess
    BY <1>0, <2>2, OwnKept DEF TornAccess, buffer, process
  <2> QED
    BY <1>3, <2>1, <2>2, DequePacketDataOwn, ProcessLoginOwn DEF ProcessPacket
<1>4. CASE DBAgent
  <2>1. CASE Respond
    BY <1>0, <2>1 DEF Respond, OwnPackets, ReadsOwnPacket, buffer, process
  <2>2. CASE IdlePoll
    BY <1>0, <2>2, OwnKept DEF IdlePoll, buffer, process
  <2> QED
    BY <1>4, <2>1, <2>2, ReadCredentialsOwn DEF DBAgent
<1>5. CASE ProcessQueue
  BY <1>0, <1>5, OwnKept DEF ProcessQueue, DequeueReadPacket, SetDomain, SetID, InsertBegin, InsertEnd,
                        SendResponse, buffer, process
<1>6. CASE LosePacket
  BY <1>6, LosePacketOwn
<1>7. CASE UNCHANGED vars
  BY <1>0, <1>7, OwnKept DEF vars
<1> QED
  BY <1>1, <1>2, <1>3, <1>4, <1>5, <1>6, <1>7 DEF Next

(* If clients wait for their answer and slots for the work of their last   *)
(* connection, the database checks the packet that was queued, however     *)
(* small the buffer and however many packets are lost.                     *)
THEOREM PatientReadsOwn == ASSUME Patient PROVE Spec => []ReadsOwnPacket
<1>1. Init => PInv
  BY InitTypes, EmptySeq DEF PInv, OwnPackets, ReadsOwnPacket, Init
<1>2. PInv /\ [Next]_vars => PInv'
  BY NextOwn
<1>3. PInv => ReadsOwnPacket
  BY DEF PInv, OwnPackets
<1> QED
  BY <1>1, <1>2, <1>3, PTL DEF Spec

----------------------------------------------------------------------------
(* One packet is answered once: its number is in one place at a time.      *)
Window == [c \in Conns |-> RPos[c]..WPos[c] - 1]

Unread   == {n \in 1..requests : running /\ \E c \in Conns : \E i \in Window[c] : buf[c][i].n = n}
InLogin  == IF ppc = "login" THEN {pjob.meant.n} ELSE {}
InDB     == {dbQueue[i].meant.n : i \in 1..Len(dbQueue)}
InQuery  == IF djob # None THEN {djob.at.meant.n} ELSE {}
InServer == {serverQueue[i].at.meant.n : i \in 1..Len(serverQueue)}
InAnswer == IF apc # "dequeue" THEN {ajob.at.meant.n} ELSE {}
Answered == {a.at.meant.n : a \in answers}

\* No number is in two places ...
Apart ==
    /\ Unread   \cap (InLogin \cup InDB \cup InQuery \cup InServer \cup InAnswer \cup Answered) = {}
    /\ InLogin  \cap (InDB \cup InQuery \cup InServer \cup InAnswer \cup Answered) = {}
    /\ InDB     \cap (InQuery \cup InServer \cup InAnswer \cup Answered) = {}
    /\ InQuery  \cap (InServer \cup InAnswer \cup Answered) = {}
    /\ InServer \cap (InAnswer \cup Answered) = {}
    /\ InAnswer \cap Answered = {}

\* ... nor twice in one place ...
UnreadOnce ==
    running => \A c, d \in Conns : \A i \in Window[c], j \in Window[d] :
        buf[c][i].n = buf[d][j].n => c = d /\ i = j
DBOnce == \A i, j \in 1..Len(dbQueue) : dbQueue[i].meant.n = dbQueue[j].meant.n => i = j
ServerOnce ==
    \A i, j \in 1..Len(serverQueue) : serverQueue[i].at.meant.n = serverQueue[j].at.meant.n => i = j
NumberOnce == \A a, b \in answers : a.at.meant.n = b.at.meant.n => a = b

\* ... and the numbers to come are nowhere.
Given ==
    /\ running => \A c \in Conns : \A i \in Window[c] : buf[c][i].n \in 1..requests
    /\ InLogin \cup InDB \cup InQuery \cup InServer \cup InAnswer \cup Answered \subseteq 1..requests

Once == Apart /\ UnreadOnce /\ DBOnce /\ ServerOnce /\ NumberOnce /\ Given

OInv == TInv /\ Once

LEMMA InitOnce == Init => Once
<1> SUFFICES ASSUME Init PROVE Once
  OBVIOUS
<1>1. /\ \A c \in Conns : Window[c] = {}
      /\ Len(dbQueue) = 0 /\ Len(serverQueue) = 0 /\ answers = {}
  BY EmptySeq DEF Init, Window
<1>2. /\ InLogin = {} /\ InDB = {} /\ InQuery = {} /\ InServer = {} /\ InAnswer = {} /\ Answered = {}
  BY <1>1 DEF Init, InLogin, InDB, InQuery, InServer, InAnswer, Answered
<1>3. Apart
  BY <1>2 DEF Apart
<1> QED
  BY <1>1, <1>2, <1>3 DEF Once, UnreadOnce, DBOnce, ServerOnce, NumberOnce, Given

\* Reading, clearing and stopping only shrink what is unread.
LEMMA WindowShrinks ==
    ASSUME OInv, UNCHANGED <<buf, requests>>, running' => running,
           running' => \A c \in Conns : Window'[c] \subseteq Window[c]
    PROVE  Unread' \subseteq Unread /\ UnreadOnce'
           /\ (running' => \A c \in Conns : \A i \in Window'[c] : buf'[c][i].n \in 1..requests')
<1>1. Unread' \subseteq Unread
  BY DEF Unread
<1>2. UnreadOnce'
  BY DEF OInv, Once, UnreadOnce
<1>3. running' => \A c \in Conns : \A i \in Window'[c] : buf'[c][i].n \in 1..requests'
  BY DEF OInv, Once, Given
<1> QED
  BY <1>1, <1>2, <1>3

\* What an action leaves alone stays where it is.
LEMMA LoginPlace == UNCHANGED <<ppc, pjob>> => InLogin' = InLogin
BY DEF InLogin
LEMMA DBPlace == UNCHANGED dbQueue => InDB' = InDB /\ (DBOnce => DBOnce')
BY DEF InDB, DBOnce
LEMMA QueryPlace == UNCHANGED djob => InQuery' = InQuery
BY DEF InQuery
LEMMA ServerPlace == UNCHANGED serverQueue => InServer' = InServer /\ (ServerOnce => ServerOnce')
BY DEF InServer, ServerOnce
LEMMA AnswerPlace == UNCHANGED agent => InAnswer' = InAnswer
BY DEF InAnswer, agent
LEMMA AnsweredPlace == UNCHANGED answers => Answered' = Answered /\ (NumberOnce => NumberOnce')
BY DEF Answered, NumberOnce

\* Steps by which numbers at most vanish from the buffers.
LEMMA OnceKept ==
    ASSUME OInv, UNCHANGED <<buf, requests, dbQueue, djob, serverQueue, agent, answers>>,
           InLogin' = InLogin, running' => running,
           running' => \A c \in Conns : Window'[c] \subseteq Window[c]
    PROVE  Once'
<1>1. /\ Unread' \subseteq Unread /\ UnreadOnce'
      /\ running' => \A c \in Conns : \A i \in Window'[c] : buf'[c][i].n \in 1..requests'
  BY WindowShrinks
<1>2. /\ InDB' = InDB /\ InQuery' = InQuery /\ InServer' = InServer /\ InAnswer' = InAnswer
      /\ Answered' = Answered /\ DBOnce' /\ ServerOnce' /\ NumberOnce'
  BY DBPlace, QueryPlace, ServerPlace, AnswerPlace, AnsweredPlace DEF OInv, Once
<1>3. Apart'
  BY <1>1, <1>2 DEF OInv, Once, Apart
<1>4. Given'
  BY <1>1, <1>2 DEF OInv, Once, Given
<1> QED
  BY <1>1, <1>2, <1>3, <1>4 DEF Once

LEMMA SameWindow == UNCHANGED <<WPos, RPos>> => \A c \in Conns : Window'[c] = Window[c]
BY DEF Window

\* Compaction moves what is unread, and nothing else into its place.
LEMMA CompactedWindow ==
    ASSUME TInv, running, NEW c \in Conns
    PROVE  \E s \in Nat : \A i \in Compacted(c).r..Compacted(c).w - 1 :
               i + s \in Window[c] /\ Compacted(c).b[i] = buf[c][i + s]
<1> DEFINE w == WPos[c]
           r == RPos[c]
           b == buf[c]
<1>1. w \in Nat /\ r \in Nat /\ r <= w /\ w <= Cap /\ Cap \in Nat
  BY LoginAssumption DEF TInv, BufferType
<1>2. CASE w + 1 > Cap
  <2> DEFINE m == [i \in 0..Cap - 1 |-> IF i < w - r THEN b[r + i] ELSE b[i]]
  <2>1. Compacted(c) = [b |-> m, w |-> w - r, r |-> 0]
    BY <1>2 DEF Compacted
  <2>2. \A i \in 0..(w - r) - 1 :
            i \in 0..Cap - 1 /\ i < w - r /\ i + r \in r..w - 1 /\ r + i = i + r
    BY <1>1
  <2>3. \A i \in 0..(w - r) - 1 : m[i] = b[i + r]
    <3> SUFFICES ASSUME NEW i \in 0..(w - r) - 1 PROVE m[i] = b[i + r]
      OBVIOUS
    <3>1. i \in 0..Cap - 1 /\ i < w - r /\ r + i = i + r
      BY <2>2
    <3>2. m[i] = b[r + i]
      BY <3>1
    <3> HIDE DEF m, b, w, r
    <3> QED
      BY <3>1, <3>2
  <2> HIDE DEF m, w, r
  <2>4. Compacted(c).w = w - r /\ Compacted(c).r = 0 /\ Compacted(c).b = m
    BY <2>1
  <2>5. Window[c] = r..w - 1
    BY DEF Window, r, w
  <2> QED
    BY <1>1, <2>2, <2>3, <2>4, <2>5
<1>3. CASE ~(w + 1 > Cap)
  <2>1. Compacted(c) = [b |-> b, w |-> w, r |-> r]
    BY <1>3 DEF Compacted
  <2> HIDE DEF b, w, r
  <2>2. Compacted(c).w = w /\ Compacted(c).r = r /\ Compacted(c).b = b
    BY <2>1
  <2>3. \A i \in r..w - 1 : i + 0 = i
    BY <1>1
  <2>4. Window[c] = r..w - 1 /\ b = buf[c]
    BY DEF Window, r, w, b
  <2> QED
    BY <1>1, <2>2, <2>3, <2>4
<1> QED
  BY <1>2, <1>3

LEMMA OnReceiveOnce ==
    ASSUME OInv, NEW c \in Conns, NEW u \in IDs, NEW right \in BOOLEAN, OnReceive(c, u, right)
    PROVE  Once'
<1> DEFINE q == [conn |-> c, gen |-> gen[c], id |-> u, right |-> right, n |-> requests + 1]
           k == Compacted(c)
           new == requests + 1
<1>0. /\ running /\ requests' = new /\ requests \in Nat
      /\ WPos' = [WPos EXCEPT ![c] = k.w + 1]
      /\ RPos' = [RPos EXCEPT ![c] = k.r]
      /\ UNCHANGED <<ppc, pjob, dbQueue, djob, serverQueue, agent, answers>>
  BY DEF OnReceive, OInv, TInv, ConnType
<1>1. /\ k.w \in Nat /\ k.r \in 0..k.w
      /\ k.b \in [0..Cap - 1 -> Requests \cup {None}]
  BY <1>0, CompactedTypes DEF OInv
<1>2. PICK s \in Nat : \A i \in k.r..k.w - 1 : i + s \in Window[c] /\ k.b[i] = buf[c][i + s]
  BY <1>0, CompactedWindow DEF OInv
<1>3. running' => k.w < Cap /\ buf' = [buf EXCEPT ![c] = [k.b EXCEPT ![k.w] = q]]
  <2>1. \/ k.w < Cap /\ buf' = [buf EXCEPT ![c] = [k.b EXCEPT ![k.w] = q]]
        \/ running' = FALSE
    BY Zenon DEF OnReceive
  <2> QED
    BY <2>1
<1>4. q.n = new
  OBVIOUS
<1> HIDE DEF q, k, new
<1>5. /\ buf \in [Conns -> [0..Cap - 1 -> Requests \cup {None}]]
      /\ WPos \in [Conns -> Nat] /\ RPos \in [Conns -> Nat] /\ Cap \in Nat
  BY LoginAssumption DEF OInv, TInv, BufferType
<1>6. Window'[c] = k.r..k.w /\ \A d \in Conns \ {c} : Window'[d] = Window[d]
  BY <1>0, <1>1, <1>5 DEF Window
\* Where the packet at place i of c's new window was before.
<1>7. running' => /\ \A d \in Conns \ {c} : buf'[d] = buf[d]
                  /\ buf'[c][k.w] = q
                  /\ \A i \in k.r..k.w - 1 : buf'[c][i] = buf[c][i + s] /\ i + s \in Window[c]
  <2> SUFFICES ASSUME running'
               PROVE  /\ \A d \in Conns \ {c} : buf'[d] = buf[d]
                      /\ buf'[c][k.w] = q
                      /\ \A i \in k.r..k.w - 1 : buf'[c][i] = buf[c][i + s] /\ i + s \in Window[c]
    OBVIOUS
  <2>1. buf'[c] = [k.b EXCEPT ![k.w] = q] /\ \A d \in Conns \ {c} : buf'[d] = buf[d]
    BY <1>3, <1>5
  <2>2. k.w \in 0..Cap - 1 /\ \A i \in k.r..k.w - 1 : i \in 0..Cap - 1 /\ i # k.w
    BY <1>1, <1>3, <1>5
  <2> QED
    BY <1>1, <1>2, <2>1, <2>2
<1>8. /\ \A d \in Conns : \A i \in Window[d] : buf[d][i].n \in 1..requests
      /\ \A d, e \in Conns : \A i \in Window[d], j \in Window[e] :
             buf[d][i].n = buf[e][j].n => d = e /\ i = j
  BY <1>0 DEF OInv, Once, Given, UnreadOnce
<1>9. new \notin 1..requests /\ 1..new = 1..requests \cup {new} /\ new \in Nat
  BY <1>0 DEF new
\* The new window, packet by packet: the new packet, or an unread one.
<1>10. running' => \A d \in Conns : \A i \in Window'[d] :
           \/ d = c /\ i = k.w /\ buf'[d][i].n = new
           \/ d = c /\ i \in k.r..k.w - 1 /\ i + s \in Window[c] /\ buf'[d][i].n = buf[c][i + s].n
           \/ d # c /\ i \in Window[d] /\ buf'[d][i].n = buf[d][i].n
  <2> SUFFICES ASSUME running', NEW d \in Conns, NEW i \in Window'[d]
               PROVE \/ d = c /\ i = k.w /\ buf'[d][i].n = new
                     \/ d = c /\ i \in k.r..k.w - 1 /\ i + s \in Window[c]
                        /\ buf'[d][i].n = buf[c][i + s].n
                     \/ d # c /\ i \in Window[d] /\ buf'[d][i].n = buf[d][i].n
    OBVIOUS
  <2>1. CASE d = c
    <3>1. i = k.w \/ i \in k.r..k.w - 1
      BY <1>1, <1>6, <2>1
    <3> QED
      BY <1>4, <1>7, <2>1, <3>1
  <2>2. CASE d # c
    BY <1>6, <1>7, <2>2
  <2> QED
    BY <2>1, <2>2
<1>11. running' => \A d \in Conns : \A i \in Window'[d] : buf'[d][i].n \in 1..requests'
  BY <1>0, <1>8, <1>9, <1>10
<1>12. UnreadOnce'
  <2> SUFFICES ASSUME running', NEW d \in Conns, NEW e \in Conns,
                      NEW i \in Window'[d], NEW j \in Window'[e], buf'[d][i].n = buf'[e][j].n
               PROVE  d = e /\ i = j
    BY DEF UnreadOnce
  <2>1. \/ d = c /\ i = k.w /\ buf'[d][i].n = new
        \/ d = c /\ i \in k.r..k.w - 1 /\ i + s \in Window[c] /\ buf'[d][i].n = buf[c][i + s].n
        \/ d # c /\ i \in Window[d] /\ buf'[d][i].n = buf[d][i].n
    BY <1>10
  <2>2. \/ e = c /\ j = k.w /\ buf'[e][j].n = new
        \/ e = c /\ j \in k.r..k.w - 1 /\ j + s \in Window[c] /\ buf'[e][j].n = buf[c][j + s].n
        \/ e # c /\ j \in Window[e] /\ buf'[e][j].n = buf[e][j].n
    BY <1>10
  <2>3. \A f \in Conns : \A l \in Window[f] : buf[f][l].n # new
    BY <1>8, <1>9
  <2>4. CASE buf'[d][i].n = new
    <3>1. d = c /\ i = k.w
      BY <2>1, <2>3, <2>4
    <3>2. e = c /\ j = k.w
      BY <2>2, <2>3, <2>4
    <3> QED
      BY <3>1, <3>2
  <2>5. CASE buf'[d][i].n # new
    <3>2. CASE d = c /\ e = c
      <4>1. /\ i \in k.r..k.w - 1 /\ i + s \in Window[c] /\ buf'[d][i].n = buf[c][i + s].n
            /\ j \in k.r..k.w - 1 /\ j + s \in Window[c] /\ buf'[e][j].n = buf[c][j + s].n
        BY <2>1, <2>2, <2>5, <3>2
      <4> DEFINE x == i + s
                 y == j + s
      <4>2. x \in Window[c] /\ y \in Window[c] /\ buf[c][x].n = buf[c][y].n
        BY <4>1
      <4> HIDE DEF x, y
      <4>3. \A l, m \in Window[c] : buf[c][l].n = buf[c][m].n => l = m
        BY <1>8
      <4>4. x = y
        BY <4>2, <4>3
      <4> QED
        BY <1>1, <1>2, <3>2, <4>1, <4>4 DEF x, y
    <3>3. CASE d = c /\ e # c
      BY <1>8, <2>1, <2>2, <2>5, <3>3
    <3>4. CASE d # c /\ e = c
      BY <1>8, <2>1, <2>2, <2>5, <3>4
    <3>5. CASE d # c /\ e # c
      BY <1>8, <2>1, <2>2, <3>5
    <3> QED
      BY <3>2, <3>3, <3>4, <3>5
  <2> QED
    BY <2>4, <2>5
<1>13. Unread' \subseteq Unread \cup {new}
  <2> SUFFICES ASSUME NEW n \in Unread', n # new PROVE n \in Unread
    OBVIOUS
  <2>1. running' /\ n \in 1..requests
    BY <1>0, <1>9 DEF Unread
  <2>2. PICK d \in Conns : \E i \in Window'[d] : buf'[d][i].n = n
    BY DEF Unread
  <2>3. \E i \in Window[d] : buf[d][i].n = n
    BY <1>10, <2>1, <2>2
  <2> QED
    BY <1>0, <2>1, <2>3 DEF Unread
<1>14. /\ InLogin' = InLogin /\ InDB' = InDB /\ InQuery' = InQuery /\ InServer' = InServer
       /\ InAnswer' = InAnswer /\ Answered' = Answered /\ DBOnce' /\ ServerOnce' /\ NumberOnce'
  BY <1>0, LoginPlace, DBPlace, QueryPlace, ServerPlace, AnswerPlace, AnsweredPlace DEF OInv, Once
<1>15. InLogin \cup InDB \cup InQuery \cup InServer \cup InAnswer \cup Answered \subseteq 1..requests
  BY DEF OInv, Once, Given
<1>16. Apart'
  BY <1>9, <1>13, <1>14, <1>15 DEF OInv, Once, Apart
<1>17. Given'
  BY <1>0, <1>9, <1>11, <1>14, <1>15 DEF Given
<1> QED
  BY <1>12, <1>14, <1>16, <1>17 DEF Once

LEMMA DequePacketDataOnce == ASSUME OInv, DequePacketData PROVE Once'
<1>0. /\ running /\ running' = running /\ ppc = "packet"
      /\ UNCHANGED <<buf, WPos, requests, dbQueue, djob, serverQueue, agent, answers>>
  BY DEF DequePacketData, conn
<1>1. CASE UNCHANGED RPos
  <2>1. ppc' = "system"
    <3>1. WPos \in [Conns -> Nat] /\ RPos \in [Conns -> Nat]
      BY DEF OInv, TInv, BufferType
    <3>2. incoming # << >> => Head(incoming) \in Conns
      BY Taken DEF OInv, TInv, ProcessType
    <3>3. incoming # << >> => ~(RPos' = [RPos EXCEPT ![Head(incoming)] = @ + 1])
      BY <1>1, <3>1, <3>2
    <3> QED
      BY <3>3 DEF DequePacketData
  <2>2. InLogin' = InLogin
    BY <1>0, <2>1 DEF InLogin
  <2> QED
    BY <1>0, <1>1, <2>2, SameWindow, OnceKept
<1>2. CASE ~UNCHANGED RPos
  <2> DEFINE c == Head(incoming)
             n == buf[c][RPos[c]].n
  <2>1. /\ incoming # << >> /\ RPos[c] < WPos[c]
        /\ pjob' = [conn |-> c, pos |-> RPos[c], meant |-> buf[c][RPos[c]]]
        /\ RPos' = [RPos EXCEPT ![c] = @ + 1] /\ ppc' = "login"
    BY <1>2 DEF DequePacketData
  <2>2. c \in Conns
    BY <2>1, Taken DEF OInv, TInv, ProcessType
  <2>3. WPos \in [Conns -> Nat] /\ RPos \in [Conns -> Nat]
    BY DEF OInv, TInv, BufferType
  <2>4. InLogin' = {n} /\ InLogin = {}
    BY <1>0, <2>1 DEF InLogin
  <2> HIDE DEF c
  <2>5. /\ RPos[c] \in Window[c] /\ Window'[c] = Window[c] \ {RPos[c]}
        /\ \A d \in Conns \ {c} : Window'[d] = Window[d]
    <3>1. /\ RPos'[c] = RPos[c] + 1 /\ RPos[c] \in Nat /\ WPos[c] \in Nat
          /\ \A d \in Conns \ {c} : RPos'[d] = RPos[d]
      BY <2>1, <2>2, <2>3
    <3>2. RPos[c]..WPos[c] - 1 = {RPos[c]} \cup (RPos[c] + 1..WPos[c] - 1)
      BY <2>1, <3>1
    <3>3. RPos[c] \notin RPos[c] + 1..WPos[c] - 1
      BY <3>1
    <3>4. /\ Window[c] = RPos[c]..WPos[c] - 1
          /\ Window'[c] = RPos[c] + 1..WPos[c] - 1
          /\ \A d \in Conns \ {c} : Window'[d] = Window[d]
      BY <1>0, <2>2, <3>1 DEF Window
    <3>5. RPos[c] \in Window[c] /\ Window'[c] = Window[c] \ {RPos[c]}
      BY <3>2, <3>3, <3>4
    <3> QED
      BY <3>4, <3>5
  <2>6. n \in 1..requests
    BY <1>0, <2>2, <2>5 DEF OInv, Once, Given
  <2>7. n \in Unread
    <3>1. \E d \in Conns : \E i \in Window[d] : buf[d][i].n = n
      BY Zenon, <2>2, <2>5
    <3> HIDE DEF n
    <3> QED
      BY <1>0, <2>6, <3>1 DEF Unread
  <2>8. \A d \in Conns : Window'[d] \subseteq Window[d]
    BY Zenon, <2>5
  <2>9. /\ Unread' \subseteq Unread /\ UnreadOnce'
        /\ running' => \A d \in Conns : \A i \in Window'[d] : buf'[d][i].n \in 1..requests'
    BY <1>0, <2>8, WindowShrinks
  <2>10. n \notin Unread'
    <3> SUFFICES ASSUME NEW d \in Conns, NEW i \in Window'[d], buf'[d][i].n = n PROVE FALSE
      BY DEF Unread
    <3>1. i \in Window[d] /\ buf[d][i].n = buf[c][RPos[c]].n
      BY <1>0, <2>8
    <3>2. \A k \in Window[d], j \in Window[c] : buf[d][k].n = buf[c][j].n => d = c /\ k = j
      BY <1>0, <2>2 DEF OInv, Once, UnreadOnce
    <3>3. d = c /\ i = RPos[c]
      BY <2>5, <3>1, <3>2
    <3> QED
      BY <2>5, <3>3
  <2> HIDE DEF n
  <2>11. /\ InDB' = InDB /\ InQuery' = InQuery /\ InServer' = InServer /\ InAnswer' = InAnswer
         /\ Answered' = Answered /\ DBOnce' /\ ServerOnce' /\ NumberOnce'
    BY <1>0, DBPlace, QueryPlace, ServerPlace, AnswerPlace, AnsweredPlace DEF OInv, Once
  <2>12. Apart'
    BY <2>4, <2>7, <2>9, <2>10, <2>11 DEF OInv, Once, Apart
  <2>13. Given'
    BY <1>0, <2>4, <2>6, <2>9, <2>11 DEF OInv, Once, Given
  <2> QED
    BY <2>9, <2>11, <2>12, <2>13 DEF Once
<1> QED
  BY <1>1, <1>2

\* The places of numbers after an answer.
LEMMA AnswerOnce ==
    ASSUME OInv, NEW at, NEW id, NEW result, Answer(at, id, result), at.meant.n \notin Answered
    PROVE  Answered' = Answered \cup {at.meant.n} /\ NumberOnce'
<1> DEFINE e == [at |-> at, id |-> id, result |-> result,
                 to |-> IF up[at.conn] THEN <<at.conn, gen[at.conn]>> ELSE Nobody]
<1>1. answers' = answers \cup {e}
  BY DEF Answer
<1>2. e.at = at
  OBVIOUS
<1> HIDE DEF e
<1>3. Answered' = Answered \cup {at.meant.n}
  BY <1>1, <1>2 DEF Answered
<1>4. \A a \in answers : a.at.meant.n # e.at.meant.n
  BY <1>2 DEF Answered
<1>5. NumberOnce'
  BY <1>1, <1>4 DEF OInv, Once, NumberOnce
<1> QED
  BY <1>3, <1>5

LEMMA ProcessLoginOnce == ASSUME OInv, ProcessLogin PROVE Once'
<1> DEFINE u == buf[pjob.conn][pjob.pos].id
           n == pjob.meant.n
<1>0. /\ running' = running /\ ppc = "login" /\ ppc' = "system"
      /\ UNCHANGED <<buf, WPos, RPos, requests, djob, serverQueue, agent>>
  BY DEF ProcessLogin, conn, buffer
<1>1. InLogin = {n} /\ InLogin' = {}
  BY <1>0 DEF InLogin
<1>2. n \notin InDB /\ n \notin Answered /\ n \in 1..requests
  BY <1>1 DEF OInv, Once, Apart, Given
<1>3. /\ Unread' \subseteq Unread /\ UnreadOnce'
      /\ running' => \A c \in Conns : \A i \in Window'[c] : buf'[c][i].n \in 1..requests'
  BY <1>0, SameWindow, WindowShrinks
<1>4. /\ InQuery' = InQuery /\ InServer' = InServer /\ InAnswer' = InAnswer /\ ServerOnce'
  BY <1>0, QueryPlace, ServerPlace, AnswerPlace DEF OInv, Once
<1>5. \/ dbQueue' = Append(dbQueue, pjob) /\ UNCHANGED answers
      \/ Answer(pjob, u, 4) /\ UNCHANGED dbQueue
  BY DEF ProcessLogin
<1> HIDE DEF u
<1>6. CASE dbQueue' = Append(dbQueue, pjob) /\ UNCHANGED answers
  <2>1. pjob \in Pointers /\ dbQueue \in Seq(Pointers)
    BY <1>0 DEF OInv, TInv, ProcessType, DBType
  <2>2. /\ Len(dbQueue) \in Nat /\ Len(dbQueue') = Len(dbQueue) + 1
        /\ \A i \in 1..Len(dbQueue) : dbQueue'[i] = dbQueue[i]
        /\ dbQueue'[Len(dbQueue) + 1] = pjob
    BY <1>6, <2>1, AppendProperties, LenProperties
  <2>3. \A i \in 1..Len(dbQueue') :
            \/ i \in 1..Len(dbQueue) /\ dbQueue'[i].meant.n = dbQueue[i].meant.n
               /\ dbQueue'[i].meant.n \in InDB
            \/ i = Len(dbQueue) + 1 /\ dbQueue'[i].meant.n = n
    BY <2>2 DEF InDB
  <2> HIDE DEF n
  <2>4. InDB' \subseteq InDB \cup {n}
    BY <2>3 DEF InDB
  <2>5. DBOnce'
    BY <1>2, <2>3 DEF OInv, Once, DBOnce
  <2>6. Answered' = Answered /\ NumberOnce'
    BY <1>6, AnsweredPlace DEF OInv, Once
  <2>7. Apart'
    BY <1>1, <1>3, <1>4, <2>4, <2>6 DEF OInv, Once, Apart
  <2>8. Given'
    BY <1>0, <1>1, <1>2, <1>3, <1>4, <2>4, <2>6 DEF OInv, Once, Given
  <2> QED
    BY <1>3, <1>4, <2>5, <2>6, <2>7, <2>8 DEF Once
<1>7. CASE Answer(pjob, u, 4) /\ UNCHANGED dbQueue
  <2>1. Answered' = Answered \cup {n} /\ NumberOnce'
    BY <1>2, <1>7, AnswerOnce
  <2>2. InDB' = InDB /\ DBOnce'
    BY <1>7, DBPlace DEF OInv, Once
  <2> HIDE DEF n
  <2>3. Apart'
    BY <1>1, <1>3, <1>4, <2>1, <2>2 DEF OInv, Once, Apart
  <2>4. Given'
    BY <1>0, <1>1, <1>2, <1>3, <1>4, <2>1, <2>2 DEF OInv, Once, Given
  <2> QED
    BY <1>3, <1>4, <2>1, <2>2, <2>3, <2>4 DEF Once
<1> QED
  BY <1>5, <1>6, <1>7

\* A cleared buffer has nothing unread.
LEMMA ClearedWindow ==
    ASSUME OInv, NEW c \in Conns, Clear(c)
    PROVE  \A d \in Conns : Window'[d] \subseteq Window[d]
<1>1. WPos \in [Conns -> Nat] /\ RPos \in [Conns -> Nat]
  BY DEF OInv, TInv, BufferType
<1>2. Window'[c] = {} /\ \A d \in Conns \ {c} : Window'[d] = Window[d]
  BY <1>1 DEF Clear, Window
<1> QED
  BY <1>2

LEMMA SystemOnce ==
    ASSUME OInv, DequeSystemPacketData \/ EraseUserID \/ ClearUser PROVE Once'
<1>0. /\ running' = running /\ ppc # "login" /\ ppc' # "login"
      /\ UNCHANGED <<buf, requests, dbQueue, djob, serverQueue, agent, answers>>
  BY DEF DequeSystemPacketData, EraseUserID, ClearUser, conn, buffer
<1>1. InLogin' = InLogin
  BY <1>0 DEF InLogin
<1>2. \A d \in Conns : Window'[d] \subseteq Window[d]
  <2>1. CASE UNCHANGED <<WPos, RPos>>
    BY <2>1, SameWindow
  <2>2. CASE ~UNCHANGED <<WPos, RPos>>
    <3>1. CASE DequeSystemPacketData
      <4>1. system # << >> /\ Clear(Head(system)[2])
        BY <2>2, <3>1 DEF DequeSystemPacketData
      <4>2. Head(system) \in {"connect", "disconnect"} \X Conns
        BY <4>1, Taken DEF OInv, TInv, ProcessType
      <4>3. Head(system)[2] \in Conns
        BY <4>2
      <4> QED
        BY <4>1, <4>3, ClearedWindow
    <3>2. CASE ClearUser
      <4>1. pjob.conn \in Conns /\ Clear(pjob.conn)
        BY <3>2 DEF ClearUser, OInv, TInv, ProcessType
      <4> QED
        BY <4>1, ClearedWindow
    <3>3. CASE EraseUserID
      BY <2>2, <3>3 DEF EraseUserID, buffer
    <3> QED
      BY <3>1, <3>2, <3>3
  <2> QED
    BY <2>1, <2>2
<1> QED
  BY <1>0, <1>1, <1>2, OnceKept

\* The program stops.
LEMMA StopOnce ==
    ASSUME OInv, running' = FALSE,
           UNCHANGED <<conn, buffer, process, dbQueue, djob, serverQueue, agent, answers>>
    PROVE  Once'
<1>1. InLogin' = InLogin
  BY LoginPlace DEF process
<1> QED
  BY <1>1, OnceKept DEF conn, buffer

LEMMA ReadCredentialsOnce == ASSUME OInv, ReadCredentials PROVE Once'
<1> DEFINE n == Head(dbQueue).meant.n
<1>0. /\ running' = running /\ dbQueue # << >> /\ dbQueue' = Tail(dbQueue) /\ djob = None
      /\ djob' = [at |-> Head(dbQueue), read |-> buf[Head(dbQueue).conn][Head(dbQueue).pos]]
      /\ UNCHANGED <<buf, WPos, RPos, requests, ppc, pjob, serverQueue, agent, answers>>
  BY DEF ReadCredentials, conn, buffer, process
<1>1. /\ Head(dbQueue) = dbQueue[1] /\ 1 \in 1..Len(dbQueue)
      /\ \A i \in 1..Len(Tail(dbQueue)) :
             Tail(dbQueue)[i] = dbQueue[i + 1] /\ i + 1 \in 1..Len(dbQueue)
  BY <1>0, Taken DEF OInv, TInv, DBType
<1>2. n \in InDB /\ InQuery = {}
  BY <1>0, <1>1 DEF InDB, InQuery
<1>3. InQuery' = {n}
  <2>1. djob' # None
    <3>1. djob' \in [at : Pointers, read : Requests]
      <4>1. Head(dbQueue) \in Pointers
        BY <1>0, Taken DEF OInv, TInv, DBType
      <4>2. buf[Head(dbQueue).conn][Head(dbQueue).pos] \in Requests
        BY <1>1 DEF OInv, TInv, Held
      <4> DEFINE h == Head(dbQueue)
                 b == buf[h.conn][h.pos]
      <4>3. djob' = [at |-> h, read |-> b] /\ h \in Pointers /\ b \in Requests
        BY <1>0, <4>1, <4>2
      <4> HIDE DEF h, b
      <4> QED
        BY <4>3
    <3> QED
      BY <3>1, NoneAssumption
  <2> QED
    BY <1>0, <2>1 DEF InQuery
<1>4. \A i \in 1..Len(dbQueue') :
          /\ i + 1 \in 1..Len(dbQueue) /\ i + 1 # 1
          /\ dbQueue'[i].meant.n = dbQueue[i + 1].meant.n
  BY <1>0, <1>1
<1>5. InDB' \subseteq InDB \ {n} /\ DBOnce'
  <2>1. \A i \in 1..Len(dbQueue') : dbQueue'[i].meant.n \in InDB \ {n}
    BY <1>1, <1>4 DEF InDB, OInv, Once, DBOnce
  <2>2. InDB' \subseteq InDB \ {n}
    BY <2>1 DEF InDB
  <2>3. DBOnce'
    <3> SUFFICES ASSUME NEW i \in 1..Len(dbQueue'), NEW j \in 1..Len(dbQueue'),
                        dbQueue'[i].meant.n = dbQueue'[j].meant.n
                 PROVE  i = j
      BY DEF DBOnce
    <3>1. i + 1 = j + 1
      BY <1>4 DEF OInv, Once, DBOnce
    <3> QED
      BY <3>1
  <2> QED
    BY <2>2, <2>3
<1>6. /\ Unread' \subseteq Unread /\ UnreadOnce'
      /\ running' => \A c \in Conns : \A i \in Window'[c] : buf'[c][i].n \in 1..requests'
  BY <1>0, SameWindow, WindowShrinks
<1>7. /\ InLogin' = InLogin /\ InServer' = InServer /\ InAnswer' = InAnswer
      /\ Answered' = Answered /\ ServerOnce' /\ NumberOnce'
  BY <1>0, LoginPlace, ServerPlace, AnswerPlace, AnsweredPlace DEF OInv, Once
<1> HIDE DEF n
<1>8. Apart'
  BY <1>2, <1>3, <1>5, <1>6, <1>7 DEF OInv, Once, Apart
<1>9. Given'
  BY <1>0, <1>2, <1>3, <1>5, <1>6, <1>7 DEF OInv, Once, Given
<1> QED
  BY <1>5, <1>6, <1>7, <1>8, <1>9 DEF Once

LEMMA RespondOnce == ASSUME OInv, Respond PROVE Once'
<1> DEFINE n == djob.at.meant.n
<1>0. /\ running /\ djob # None /\ djob' = None
      /\ UNCHANGED <<buf, WPos, RPos, requests, ppc, pjob, dbQueue, agent, answers>>
  BY DEF Respond, conn, buffer, process
<1>1. PICK result \in {IF djob.read.right THEN 1 ELSE 2, 3} :
          serverQueue' = Append(serverQueue, [at |-> djob.at, id |-> djob.read.id,
                                              result |-> result])
  BY DEF Respond
<1> DEFINE e == [at |-> djob.at, id |-> djob.read.id, result |-> result]
<1>2. e \in Responses /\ e.at.meant.n = n /\ serverQueue \in Seq(Responses)
  <2>1. djob.at \in Pointers /\ djob.read \in Requests /\ djob.read.id \in IDs
    BY <1>0 DEF OInv, TInv, DBType, Requests
  <2> QED
    BY <2>1 DEF OInv, TInv, ServerType, Responses, Results
<1> HIDE DEF e
<1>3. /\ Len(serverQueue) \in Nat /\ Len(serverQueue') = Len(serverQueue) + 1
      /\ \A i \in 1..Len(serverQueue) : serverQueue'[i] = serverQueue[i]
      /\ serverQueue'[Len(serverQueue) + 1] = e
  BY <1>1, <1>2, AppendProperties, LenProperties DEF e
<1>4. InQuery = {n} /\ InQuery' = {}
  BY <1>0 DEF InQuery
<1>5. n \notin InServer /\ n \in 1..requests
  BY <1>4 DEF OInv, Once, Apart, Given
<1> HIDE DEF n
<1>6. \A i \in 1..Len(serverQueue') :
          \/ /\ i \in 1..Len(serverQueue) /\ serverQueue'[i].at.meant.n = serverQueue[i].at.meant.n
             /\ serverQueue'[i].at.meant.n \in InServer
          \/ i = Len(serverQueue) + 1 /\ serverQueue'[i].at.meant.n = n
  BY <1>2, <1>3 DEF InServer
<1>7. InServer' \subseteq InServer \cup {n}
  BY <1>6 DEF InServer
<1>8. ServerOnce'
  BY <1>5, <1>6 DEF OInv, Once, ServerOnce
<1>9. /\ Unread' \subseteq Unread /\ UnreadOnce'
      /\ running' => \A c \in Conns : \A i \in Window'[c] : buf'[c][i].n \in 1..requests'
  BY <1>0, SameWindow, WindowShrinks
<1>10. /\ InLogin' = InLogin /\ InDB' = InDB /\ InAnswer' = InAnswer
       /\ Answered' = Answered /\ DBOnce' /\ NumberOnce'
  BY <1>0, LoginPlace, DBPlace, AnswerPlace, AnsweredPlace DEF OInv, Once
<1>11. Apart'
  BY <1>4, <1>7, <1>9, <1>10 DEF OInv, Once, Apart
<1>12. Given'
  BY <1>0, <1>4, <1>5, <1>7, <1>9, <1>10 DEF OInv, Once, Given
<1> QED
  BY <1>8, <1>9, <1>10, <1>11, <1>12 DEF Once

LEMMA LosePacketOnce == ASSUME OInv, LosePacket PROVE Once'
<1>0. /\ running' = running
      /\ UNCHANGED <<buf, WPos, RPos, requests, ppc, pjob, djob, agent, answers>>
  BY DEF LosePacket, conn, buffer, process
<1>1. InDB' \subseteq InDB /\ DBOnce'
  <2>1. CASE UNCHANGED dbQueue
    BY <2>1, DBPlace DEF OInv, Once
  <2>2. CASE dbQueue # << >> /\ dbQueue' = SubSeq(dbQueue, 1, Len(dbQueue) - 1)
    <3>1. /\ Len(dbQueue') = Len(dbQueue) - 1
          /\ \A i \in 1..Len(dbQueue) - 1 : dbQueue'[i] = dbQueue[i] /\ i \in 1..Len(dbQueue)
      BY <2>2, Shortened DEF OInv, TInv, DBType
    <3>2. \A i \in 1..Len(dbQueue') : i \in 1..Len(dbQueue) /\ dbQueue'[i] = dbQueue[i]
      BY <3>1
    <3> QED
      BY <3>2 DEF InDB, OInv, Once, DBOnce
  <2> QED
    BY <2>1, <2>2 DEF LosePacket
<1>2. InServer' \subseteq InServer /\ ServerOnce'
  <2>1. CASE UNCHANGED serverQueue
    BY <2>1, ServerPlace DEF OInv, Once
  <2>2. CASE serverQueue # << >> /\ serverQueue' = SubSeq(serverQueue, 1, Len(serverQueue) - 1)
    <3>1. /\ Len(serverQueue') = Len(serverQueue) - 1
          /\ \A i \in 1..Len(serverQueue) - 1 :
                 serverQueue'[i] = serverQueue[i] /\ i \in 1..Len(serverQueue)
      BY <2>2, Shortened DEF OInv, TInv, ServerType
    <3>2. \A i \in 1..Len(serverQueue') : i \in 1..Len(serverQueue) /\ serverQueue'[i] = serverQueue[i]
      BY <3>1
    <3> QED
      BY <3>2 DEF InServer, OInv, Once, ServerOnce
  <2> QED
    BY <2>1, <2>2 DEF LosePacket
<1>3. /\ Unread' \subseteq Unread /\ UnreadOnce'
      /\ running' => \A c \in Conns : \A i \in Window'[c] : buf'[c][i].n \in 1..requests'
  BY <1>0, SameWindow, WindowShrinks
<1>4. /\ InLogin' = InLogin /\ InQuery' = InQuery /\ InAnswer' = InAnswer
      /\ Answered' = Answered /\ NumberOnce'
  BY <1>0, LoginPlace, QueryPlace, AnswerPlace, AnsweredPlace DEF OInv, Once
<1>5. Apart'
  BY <1>1, <1>2, <1>3, <1>4 DEF OInv, Once, Apart
<1>6. Given'
  BY <1>0, <1>1, <1>2, <1>3, <1>4 DEF OInv, Once, Given
<1> QED
  BY <1>1, <1>2, <1>3, <1>4, <1>5, <1>6 DEF Once

LEMMA DequeueReadPacketOnce == ASSUME OInv, DequeueReadPacket PROVE Once'
<1> DEFINE n == Head(serverQueue).at.meant.n
<1>0. /\ running' = running /\ serverQueue # << >> /\ serverQueue' = Tail(serverQueue)
      /\ apc = "dequeue" /\ apc' # "dequeue" /\ ajob' = Head(serverQueue)
      /\ UNCHANGED <<buf, WPos, RPos, requests, ppc, pjob, dbQueue, djob, answers>>
  BY DEF DequeueReadPacket, conn, buffer, process
<1>1. /\ Head(serverQueue) = serverQueue[1] /\ 1 \in 1..Len(serverQueue)
      /\ \A i \in 1..Len(Tail(serverQueue)) :
             Tail(serverQueue)[i] = serverQueue[i + 1] /\ i + 1 \in 1..Len(serverQueue)
  BY <1>0, Taken DEF OInv, TInv, ServerType
<1>2. n \in InServer /\ InAnswer = {} /\ InAnswer' = {n}
  BY <1>0, <1>1 DEF InServer, InAnswer
<1>4. \A i \in 1..Len(serverQueue') :
          /\ i + 1 \in 1..Len(serverQueue) /\ i + 1 # 1
          /\ serverQueue'[i].at.meant.n = serverQueue[i + 1].at.meant.n
  BY <1>0, <1>1
<1>5. InServer' \subseteq InServer \ {n} /\ ServerOnce'
  <2>1. \A i \in 1..Len(serverQueue') : serverQueue'[i].at.meant.n \in InServer \ {n}
    BY <1>1, <1>4 DEF InServer, OInv, Once, ServerOnce
  <2>2. InServer' \subseteq InServer \ {n}
    BY <2>1 DEF InServer
  <2>3. ServerOnce'
    <3> SUFFICES ASSUME NEW i \in 1..Len(serverQueue'), NEW j \in 1..Len(serverQueue'),
                        serverQueue'[i].at.meant.n = serverQueue'[j].at.meant.n
                 PROVE  i = j
      BY DEF ServerOnce
    <3>1. i + 1 = j + 1
      BY <1>4 DEF OInv, Once, ServerOnce
    <3> QED
      BY <3>1
  <2> QED
    BY <2>2, <2>3
<1>6. /\ Unread' \subseteq Unread /\ UnreadOnce'
      /\ running' => \A c \in Conns : \A i \in Window'[c] : buf'[c][i].n \in 1..requests'
  BY <1>0, SameWindow, WindowShrinks
<1>7. /\ InLogin' = InLogin /\ InDB' = InDB /\ InQuery' = InQuery
      /\ Answered' = Answered /\ DBOnce' /\ NumberOnce'
  BY <1>0, LoginPlace, DBPlace, QueryPlace, AnsweredPlace DEF OInv, Once
<1> HIDE DEF n
<1>8. Apart'
  BY <1>2, <1>5, <1>6, <1>7 DEF OInv, Once, Apart
<1>9. Given'
  BY <1>0, <1>2, <1>5, <1>6, <1>7 DEF OInv, Once, Given
<1> QED
  BY <1>5, <1>6, <1>7, <1>8, <1>9 DEF Once

LEMMA SendResponseOnce == ASSUME OInv, SendResponse PROVE Once'
<1> DEFINE n == ajob.at.meant.n
<1>0. /\ running' = running /\ apc = "send" /\ apc' = "dequeue"
      /\ Answer(ajob.at, ajob.id, ajob.result)
      /\ UNCHANGED <<buf, WPos, RPos, requests, ppc, pjob, dbQueue, djob, serverQueue>>
  BY DEF SendResponse, conn, buffer, process
<1>1. InAnswer = {n} /\ InAnswer' = {}
  BY <1>0 DEF InAnswer
<1>2. n \notin Answered /\ n \in 1..requests
  BY <1>1 DEF OInv, Once, Apart, Given
<1>3. Answered' = Answered \cup {n} /\ NumberOnce'
  BY <1>0, <1>2, AnswerOnce
<1>4. /\ Unread' \subseteq Unread /\ UnreadOnce'
      /\ running' => \A c \in Conns : \A i \in Window'[c] : buf'[c][i].n \in 1..requests'
  BY <1>0, SameWindow, WindowShrinks
<1>5. /\ InLogin' = InLogin /\ InDB' = InDB /\ InQuery' = InQuery /\ InServer' = InServer
      /\ DBOnce' /\ ServerOnce'
  BY <1>0, LoginPlace, DBPlace, QueryPlace, ServerPlace DEF OInv, Once
<1> HIDE DEF n
<1>6. Apart'
  BY <1>1, <1>3, <1>4, <1>5 DEF OInv, Once, Apart
<1>7. Given'
  BY <1>0, <1>1, <1>2, <1>3, <1>4, <1>5 DEF OInv, Once, Given
<1> QED
  BY <1>3, <1>4, <1>5, <1>6, <1>7 DEF Once

\* The steps of a login that is confirmed keep its response at hand.
LEMMA ConfirmOnce ==
    ASSUME OInv, SetDomain \/ SetID \/ InsertBegin \/ InsertEnd PROVE Once'
<1>0. /\ running' = running /\ apc # "dequeue" /\ apc' # "dequeue"
      /\ UNCHANGED <<buf, WPos, RPos, requests, ppc, pjob, dbQueue, djob, serverQueue, ajob, answers>>
  BY DEF SetDomain, SetID, InsertBegin, InsertEnd, conn, buffer, process
<1>1. InAnswer' = InAnswer
  BY <1>0 DEF InAnswer
<1>2. /\ Unread' \subseteq Unread /\ UnreadOnce'
      /\ running' => \A c \in Conns : \A i \in Window'[c] : buf'[c][i].n \in 1..requests'
  BY <1>0, SameWindow, WindowShrinks
<1>3. /\ InLogin' = InLogin /\ InDB' = InDB /\ InQuery' = InQuery /\ InServer' = InServer
      /\ Answered' = Answered /\ DBOnce' /\ ServerOnce' /\ NumberOnce'
  BY <1>0, LoginPlace, DBPlace, QueryPlace, ServerPlace, AnsweredPlace DEF OInv, Once
<1>4. Apart' /\ Given'
  BY <1>0, <1>1, <1>2, <1>3 DEF OInv, Once, Apart, Given
<1> QED
  BY <1>2, <1>3, <1>4 DEF Once

LEMMA NextOnce == OInv /\ [Next]_vars => OInv'
<1> SUFFICES ASSUME OInv, [Next]_vars PROVE Once'
  BY NextTypes DEF OInv
<1>1. CASE \E c \in Conns : Connect(c) \/ OnConnect(c) \/ OnClose(c)
  <2>1. /\ UNCHANGED <<buffer, requests, ppc, pjob, dbQueue, djob, serverQueue, agent, answers, running>>
    BY <1>1 DEF Connect, OnConnect, OnClose, process
  <2> QED
    BY <2>1, LoginPlace, SameWindow, OnceKept DEF buffer
<1>2. CASE \E c \in Conns, u \in IDs, right \in BOOLEAN : OnReceive(c, u, right)
  BY <1>2, OnReceiveOnce
<1>3. CASE ProcessPacket
  <2>1. CASE TornAccess
    BY <2>1, StopOnce DEF TornAccess
  <2> QED
    BY <1>3, <2>1, DequePacketDataOnce, ProcessLoginOnce, SystemOnce DEF ProcessPacket
<1>4. CASE DBAgent
  <2>1. CASE IdlePoll
    BY <2>1, StopOnce DEF IdlePoll
  <2> QED
    BY <1>4, <2>1, ReadCredentialsOnce, RespondOnce DEF DBAgent
<1>5. CASE ProcessQueue
  BY <1>5, DequeueReadPacketOnce, ConfirmOnce, SendResponseOnce DEF ProcessQueue
<1>6. CASE LosePacket
  BY <1>6, LosePacketOnce
<1>7. CASE UNCHANGED vars
  BY <1>7, LoginPlace, SameWindow, OnceKept DEF vars, agent
<1> QED
  BY <1>1, <1>2, <1>3, <1>4, <1>5, <1>6, <1>7 DEF Next

(* No packet is answered twice, although buffers are moved and cleared     *)
(* under the pointers, queues lose packets and connections come and go.    *)
THEOREM NoneAnsweredTwice == Spec => []AnsweredOnce
<1>1. Spec => []OInv
  <2>1. Init => OInv
    BY InitTypes, InitOnce DEF OInv
  <2> QED
    BY <2>1, NextOnce, PTL DEF Spec
<1>2. OInv => AnsweredOnce
  BY DEF OInv, Once, NumberOnce, AnsweredOnce
<1> QED
  BY <1>1, <1>2, PTL

----------------------------------------------------------------------------
(* A logged-in user stays listed.  First, along the whole way from the     *)
(* buffer to the user: a connection is marked and listed only with IDs its *)
(* clients may ask for.                                                    *)
Allowed ==
    /\ \A c \in Conns : \A i \in 0..Cap - 1 :
           buf[c][i] # None => <<c, buf[c][i].id>> \in MayUse
    /\ djob # None => <<djob.at.conn, djob.read.id>> \in MayUse
    /\ \A i \in 1..Len(serverQueue) : <<serverQueue[i].at.conn, serverQueue[i].id>> \in MayUse
    /\ apc # "dequeue" => <<ajob.at.conn, ajob.id>> \in MayUse
    /\ \A c \in Conns : userID[c] # None => <<c, userID[c]>> \in MayUse

AInv == TInv /\ Allowed

LEMMA InitAllowed == Init => Allowed
<1> SUFFICES ASSUME Init PROVE Allowed
  OBVIOUS
<1>1. \A c \in Conns : \A i \in 0..Cap - 1 : buf[c][i] = None
  BY DEF Init
<1> QED
  BY <1>1, EmptySeq DEF Init, Allowed

\* Steps that touch neither packets nor users.
LEMMA AllowedKept ==
    ASSUME Allowed, UNCHANGED <<buf, djob, serverQueue, agent, userID>>
    PROVE  Allowed'
BY DEF Allowed, agent

\* Clearing a user only removes IDs.
LEMMA ClearAllowed ==
    ASSUME AInv, NEW c \in Conns, Clear(c), UNCHANGED <<buf, djob, serverQueue, agent>>
    PROVE  Allowed'
<1>1. \A d \in Conns : userID'[d] = None \/ userID'[d] = userID[d]
  BY DEF Clear, AInv, TInv, UserType
<1> QED
  BY <1>1 DEF AInv, Allowed, agent

\* A place holds a packet of its connection after a compaction, too.
LEMMA OnReceiveAllowed ==
    ASSUME AInv, NEW c \in Conns, NEW u \in IDs, NEW right \in BOOLEAN, OnReceive(c, u, right)
    PROVE  Allowed'
<1> DEFINE q == [conn |-> c, gen |-> gen[c], id |-> u, right |-> right, n |-> requests + 1]
           k == Compacted(c)
           From(x) == x = q \/ \E j \in 0..Cap - 1 : x = buf[c][j]
<1>1. /\ running /\ <<c, u>> \in MayUse /\ UNCHANGED <<djob, serverQueue, agent, userID>>
      /\ buf' = [buf EXCEPT ![c] = [k.b EXCEPT ![k.w] = q]] \/ buf' = [buf EXCEPT ![c] = k.b]
  BY DEF OnReceive, user
<1>2. /\ WPos[c] \in Nat /\ RPos[c] \in Nat /\ WPos[c] <= Cap /\ Cap \in Nat
      /\ buf \in [Conns -> [0..Cap - 1 -> Requests \cup {None}]]
  BY <1>1, LoginAssumption DEF AInv, TInv, BufferType
<1>3. k.b \in [0..Cap - 1 -> Requests \cup {None}]
  BY <1>1, CompactedTypes DEF AInv
<1>4. \A i \in 0..Cap - 1 : From(k.b[i])
  <2>1. CASE WPos[c] + 1 > Cap
    <3> DEFINE m == [i \in 0..Cap - 1 |->
                         IF i < WPos[c] - RPos[c] THEN buf[c][RPos[c] + i] ELSE buf[c][i]]
    <3>1. k.b = m
      BY <2>1 DEF Compacted
    <3>2. \A i \in 0..Cap - 1 : i < WPos[c] - RPos[c] => RPos[c] + i \in 0..Cap - 1
      BY <1>2
    <3>3. \A i \in 0..Cap - 1 : \E j \in 0..Cap - 1 : m[i] = buf[c][j]
      BY <3>2
    <3> QED
      BY <3>1, <3>3
  <2>2. CASE ~(WPos[c] + 1 > Cap)
    <3>1. k.b = buf[c]
      BY <2>2 DEF Compacted
    <3> QED
      BY <3>1
  <2> QED
    BY <2>1, <2>2
<1> HIDE DEF k
<1>5. \A i \in 0..Cap - 1 : From(buf'[c][i])
  BY <1>1, <1>2, <1>3, <1>4
<1>6. \A d \in Conns \ {c} : buf'[d] = buf[d]
  BY <1>1, <1>2
<1>7. \A i \in 0..Cap - 1 : buf'[c][i] # None => <<c, buf'[c][i].id>> \in MayUse
  <2> SUFFICES ASSUME NEW i \in 0..Cap - 1, buf'[c][i] # None
               PROVE  <<c, buf'[c][i].id>> \in MayUse
    OBVIOUS
  <2>1. CASE buf'[c][i] = q
    <3>1. buf'[c][i].id = u
      BY <2>1
    <3> QED
      BY <1>1, <3>1
  <2>2. CASE \E j \in 0..Cap - 1 : buf'[c][i] = buf[c][j]
    BY <2>2 DEF AInv, Allowed
  <2> QED
    BY <1>5, <2>1, <2>2
<1>8. \A d \in Conns : \A i \in 0..Cap - 1 :
          buf'[d][i] # None => <<d, buf'[d][i].id>> \in MayUse
  BY <1>6, <1>7 DEF AInv, Allowed
<1> QED
  BY <1>1, <1>8 DEF AInv, Allowed, agent

LEMMA DequeSystemPacketDataAllowed == ASSUME AInv, DequeSystemPacketData PROVE Allowed'
<1>1. CASE UNCHANGED user
  BY <1>1, AllowedKept DEF DequeSystemPacketData, AInv, user
<1>2. CASE ~UNCHANGED user
  <2>1. system # << >> /\ Clear(Head(system)[2])
    BY <1>2 DEF DequeSystemPacketData
  <2>2. Head(system) \in {"connect", "disconnect"} \X Conns
    BY <2>1, Taken DEF AInv, TInv, ProcessType
  <2>3. Head(system)[2] \in Conns
    BY <2>2
  <2> QED
    BY <2>1, <2>3, ClearAllowed DEF DequeSystemPacketData
<1> QED
  BY <1>1, <1>2

LEMMA ClearUserAllowed == ASSUME AInv, ClearUser PROVE Allowed'
<1>1. pjob.conn \in Conns
  BY DEF ClearUser, AInv, TInv, ProcessType
<1> QED
  BY <1>1, ClearAllowed DEF ClearUser

LEMMA ReadCredentialsAllowed == ASSUME AInv, ReadCredentials PROVE Allowed'
<1>1. /\ dbQueue # << >> /\ UNCHANGED <<buf, serverQueue, agent, userID>>
      /\ djob' = [at |-> Head(dbQueue), read |-> buf[Head(dbQueue).conn][Head(dbQueue).pos]]
  BY DEF ReadCredentials, buffer, user
<1> DEFINE p == Head(dbQueue)
<1>2. p \in Pointers /\ p = dbQueue[1] /\ 1 \in 1..Len(dbQueue)
  BY <1>1, Taken DEF AInv, TInv, DBType
<1>3. buf[p.conn][p.pos] \in Requests /\ p.conn \in Conns /\ p.pos \in 0..Cap - 1
  BY <1>2 DEF AInv, TInv, Held, Pointers
<1>4. <<p.conn, buf[p.conn][p.pos].id>> \in MayUse
  BY <1>3, NoneAssumption DEF AInv, Allowed
<1> HIDE DEF p
<1>5. djob'.at = p /\ djob'.read = buf[p.conn][p.pos]
  BY <1>1 DEF p
<1> QED
  BY <1>1, <1>4, <1>5 DEF AInv, Allowed, agent

LEMMA RespondAllowed == ASSUME AInv, Respond PROVE Allowed'
<1>0. djob # None /\ djob' = None /\ UNCHANGED <<buf, agent, userID>>
  BY DEF Respond, buffer, user
<1>1. PICK result \in Results :
          serverQueue' = Append(serverQueue, [at |-> djob.at, id |-> djob.read.id,
                                              result |-> result])
  BY DEF Respond, Results
<1>2. djob.at \in Pointers /\ djob.read.id \in IDs /\ <<djob.at.conn, djob.read.id>> \in MayUse
  BY <1>0 DEF AInv, TInv, DBType, Requests, Allowed
<1> DEFINE e == [at |-> djob.at, id |-> djob.read.id, result |-> result]
<1>3. e \in Responses /\ serverQueue \in Seq(Responses) /\ Len(serverQueue) \in Nat
  BY <1>2, LenProperties DEF AInv, TInv, ServerType, Responses
<1>4. /\ Len(serverQueue') = Len(serverQueue) + 1
      /\ \A i \in 1..Len(serverQueue) : serverQueue'[i] = serverQueue[i]
      /\ serverQueue'[Len(serverQueue) + 1] = e
  BY <1>1, <1>3, AppendProperties
<1>5. <<e.at.conn, e.id>> \in MayUse
  BY <1>2
<1> HIDE DEF e
<1>6. \A i \in 1..Len(serverQueue') : i \in 1..Len(serverQueue) \/ i = Len(serverQueue) + 1
  BY <1>3, <1>4
<1>7. \A i \in 1..Len(serverQueue') :
          <<serverQueue'[i].at.conn, serverQueue'[i].id>> \in MayUse
  BY <1>4, <1>5, <1>6 DEF AInv, Allowed
<1> QED
  BY <1>0, <1>7 DEF AInv, Allowed, agent

LEMMA LosePacketAllowed == ASSUME AInv, LosePacket PROVE Allowed'
<1>0. UNCHANGED <<buf, djob, agent, userID>>
  BY DEF LosePacket, buffer, user
<1>1. CASE UNCHANGED serverQueue
  BY <1>0, <1>1, AllowedKept DEF AInv
<1>2. CASE serverQueue # << >> /\ serverQueue' = SubSeq(serverQueue, 1, Len(serverQueue) - 1)
  <2>1. /\ Len(serverQueue') = Len(serverQueue) - 1
        /\ \A i \in 1..Len(serverQueue) - 1 :
               serverQueue'[i] = serverQueue[i] /\ i \in 1..Len(serverQueue)
    BY <1>2, Shortened DEF AInv, TInv, ServerType
  <2> QED
    BY <1>0, <2>1 DEF AInv, Allowed, agent
<1> QED
  BY <1>1, <1>2 DEF LosePacket

LEMMA DequeueReadPacketAllowed == ASSUME AInv, DequeueReadPacket PROVE Allowed'
<1>1. /\ serverQueue # << >> /\ serverQueue' = Tail(serverQueue) /\ ajob' = Head(serverQueue)
      /\ UNCHANGED <<buf, djob, userID>>
  BY DEF DequeueReadPacket, buffer, user
<1>2. /\ Head(serverQueue) = serverQueue[1] /\ 1 \in 1..Len(serverQueue)
      /\ \A i \in 1..Len(Tail(serverQueue)) :
             Tail(serverQueue)[i] = serverQueue[i + 1] /\ i + 1 \in 1..Len(serverQueue)
  BY <1>1, Taken DEF AInv, TInv, ServerType
<1>3. <<ajob'.at.conn, ajob'.id>> \in MayUse
  BY <1>1, <1>2 DEF AInv, Allowed
<1> QED
  BY <1>1, <1>2, <1>3 DEF AInv, Allowed

LEMMA SetIDAllowed == ASSUME AInv, SetID PROVE Allowed'
<1>1. /\ apc = "setid" /\ userID' = [userID EXCEPT ![ajob.at.conn] = ajob.id]
      /\ UNCHANGED <<buf, djob, serverQueue, ajob>>
  BY DEF SetID, buffer
<1>2. \A c \in Conns : userID'[c] = userID[c] \/ (c = ajob.at.conn /\ userID'[c] = ajob.id)
  BY <1>1 DEF AInv, TInv, UserType
<1> QED
  BY <1>1, <1>2 DEF AInv, Allowed

LEMMA NextAllowed == AInv /\ [Next]_vars => AInv'
<1> SUFFICES ASSUME AInv, [Next]_vars PROVE Allowed'
  BY NextTypes DEF AInv
<1>0. Allowed
  BY DEF AInv
<1>1. CASE \E c \in Conns : Connect(c) \/ OnConnect(c) \/ OnClose(c)
  BY <1>0, <1>1, AllowedKept DEF Connect, OnConnect, OnClose, buffer, user
<1>2. CASE \E c \in Conns, u \in IDs, right \in BOOLEAN : OnReceive(c, u, right)
  BY <1>2, OnReceiveAllowed
<1>3. CASE ProcessPacket
  <2>1. CASE DequePacketData \/ ProcessLogin \/ EraseUserID \/ TornAccess
    BY <1>0, <2>1, AllowedKept
       DEF DequePacketData, ProcessLogin, EraseUserID, TornAccess, buffer, user
  <2> QED
    BY <1>3, <2>1, DequeSystemPacketDataAllowed, ClearUserAllowed DEF ProcessPacket
<1>4. CASE DBAgent
  <2>1. CASE IdlePoll
    BY <1>0, <2>1, AllowedKept DEF IdlePoll, buffer, user
  <2> QED
    BY <1>4, <2>1, ReadCredentialsAllowed, RespondAllowed DEF DBAgent
<1>5. CASE ProcessQueue
  <2>1. CASE SetDomain \/ InsertBegin \/ InsertEnd \/ SendResponse
    BY <1>0, <2>1 DEF SetDomain, InsertBegin, InsertEnd, SendResponse, Allowed, buffer, user
  <2> QED
    BY <1>5, <2>1, DequeueReadPacketAllowed, SetIDAllowed DEF ProcessQueue
<1>6. CASE LosePacket
  BY <1>6, LosePacketAllowed
<1>7. CASE UNCHANGED vars
  BY <1>0, <1>7, AllowedKept DEF vars, agent
<1> QED
  BY <1>1, <1>2, <1>3, <1>4, <1>5, <1>6, <1>7 DEF Next

\* Every ID is used from one connection.
OneConnEach == \A c, d \in Conns, u \in IDs : <<c, u>> \in MayUse /\ <<d, u>> \in MayUse => c = d

\* The ID being inserted is still the user's, if the user was not cleared.
Marked == apc \in {"insert", "inserting"} => userID[ajob.at.conn] \in {ajob.id, None}

LInv == AInv /\ Marked /\ LoggedInIsListed

\* Steps that touch neither users nor the dictionary, and of the two jobs
\* neither the one that inserts nor the one that clears.
LEMMA ListedKept ==
    ASSUME LInv, running' => running, UNCHANGED <<domain, userID, dict, agent>>,
           ppc = "clear" => ppc' = "clear" /\ pjob' = pjob
    PROVE  Marked' /\ LoggedInIsListed'
BY DEF LInv, Marked, LoggedInIsListed, agent

\* A user who is cleared is logged out.
LEMMA ClearListed ==
    ASSUME LInv, NEW c \in Conns, Clear(c), UNCHANGED <<dict, agent, running>>,
           ppc = "clear" => pjob.conn = c
    PROVE  Marked' /\ LoggedInIsListed'
<1>1. \A d \in Conns : \/ userID'[d] = None
                       \/ d # c /\ userID'[d] = userID[d] /\ domain'[d] = domain[d]
  BY DEF Clear, LInv, AInv, TInv, UserType
<1>2. apc # "dequeue" => ajob.at.conn \in Conns
  BY DEF LInv, AInv, TInv, ServerType, Responses, Pointers
<1>3. Marked'
  BY <1>1, <1>2 DEF LInv, Marked, agent
<1>4. LoggedInIsListed'
  BY <1>1 DEF LInv, LoggedInIsListed, agent
<1> QED
  BY <1>3, <1>4

LEMMA DequeSystemPacketDataListed ==
    ASSUME LInv, DequeSystemPacketData PROVE Marked' /\ LoggedInIsListed'
<1>0. ppc = "system" /\ UNCHANGED <<dict, agent, running>>
  BY DEF DequeSystemPacketData
<1>1. CASE UNCHANGED user
  BY <1>0, <1>1, ListedKept DEF user
<1>2. CASE ~UNCHANGED user
  <2>1. system # << >> /\ Clear(Head(system)[2])
    BY <1>2 DEF DequeSystemPacketData
  <2>2. Head(system) \in {"connect", "disconnect"} \X Conns
    BY <2>1, Taken DEF LInv, AInv, TInv, ProcessType
  <2>3. Head(system)[2] \in Conns
    BY <2>2
  <2> QED
    BY <1>0, <2>1, <2>3, ClearListed
<1> QED
  BY <1>1, <1>2

LEMMA ClearUserListed == ASSUME LInv, ClearUser PROVE Marked' /\ LoggedInIsListed'
<1>1. pjob.conn \in Conns
  BY DEF ClearUser, LInv, AInv, TInv, ProcessType
<1> QED
  BY <1>1, ClearListed DEF ClearUser

\* The erased ID is that of no other connection.
LEMMA EraseUserIDListed ==
    ASSUME OneConnEach, LInv, EraseUserID PROVE Marked' /\ LoggedInIsListed'
<1> DEFINE e == pjob.conn
<1>1. /\ running /\ ppc = "erase" /\ ppc' = "clear" /\ pjob' = pjob
      /\ dict' = [v \in IDs |-> IF v = userID[e] THEN None ELSE dict[v]]
      /\ UNCHANGED <<domain, userID, agent, running>>
  BY DEF EraseUserID, user
<1>2. e \in Conns /\ userID \in [Conns -> IDs \cup {None}]
  BY <1>1 DEF LInv, AInv, TInv, ProcessType, UserType
<1> HIDE DEF e
<1>3. \A c \in Conns : userID[c] # None /\ c # e => userID[c] # userID[e]
  BY <1>2 DEF OneConnEach, LInv, AInv, Allowed
<1>4. \A c \in Conns : userID[c] # None /\ c # e => dict'[userID[c]] = dict[userID[c]]
  BY <1>1, <1>2, <1>3
<1>5. ppc' = "clear" /\ pjob'.conn = e
  BY <1>1 DEF e
<1>6. LoggedInIsListed'
  BY <1>1, <1>4, <1>5 DEF LInv, LoggedInIsListed, agent
<1>7. Marked'
  BY <1>1 DEF LInv, Marked, agent
<1> QED
  BY <1>6, <1>7

LEMMA SetDomainListed == ASSUME LInv, SetDomain PROVE Marked' /\ LoggedInIsListed'
<1>1. /\ apc = "setdomain" /\ apc' = "setid" /\ UNCHANGED <<userID, dict, ajob, ppc, pjob, running>>
      /\ domain' = [domain EXCEPT ![ajob.at.conn] = TRUE]
  BY DEF SetDomain, process
<1>2. \A c \in Conns : domain'[c] = domain[c] \/ c = ajob.at.conn
  BY <1>1 DEF LInv, AInv, TInv, UserType
<1>3. LoggedInIsListed'
  BY <1>1, <1>2 DEF LInv, LoggedInIsListed
<1> QED
  BY <1>1, <1>3 DEF Marked

LEMMA SetIDListed == ASSUME LInv, SetID PROVE Marked' /\ LoggedInIsListed'
<1>1. /\ apc = "setid" /\ apc' = "insert" /\ UNCHANGED <<domain, dict, ajob, ppc, pjob, running>>
      /\ userID' = [userID EXCEPT ![ajob.at.conn] = ajob.id]
  BY DEF SetID, process
<1>2. ajob.at.conn \in Conns
  BY <1>1 DEF LInv, AInv, TInv, ServerType, Responses, Pointers
<1>3. userID'[ajob.at.conn] = ajob.id /\ \A c \in Conns : userID'[c] = userID[c] \/ c = ajob.at.conn
  BY <1>1, <1>2 DEF LInv, AInv, TInv, UserType
<1>4. LoggedInIsListed'
  BY <1>1, <1>3 DEF LInv, LoggedInIsListed
<1>5. Marked'
  BY <1>1, <1>3 DEF Marked
<1> QED
  BY <1>4, <1>5

LEMMA InsertBeginListed == ASSUME LInv, InsertBegin PROVE Marked' /\ LoggedInIsListed'
<1>1. /\ apc = "insert" /\ apc' = "inserting"
      /\ UNCHANGED <<domain, userID, dict, ajob, ppc, pjob, running>>
  BY DEF InsertBegin, process, user
<1> QED
  BY <1>1 DEF LInv, Marked, LoggedInIsListed

\* Now the ID is in the dictionary, and nothing has left it.
LEMMA InsertEndListed == ASSUME LInv, InsertEnd PROVE Marked' /\ LoggedInIsListed'
<1> DEFINE c == ajob.at.conn
<1>1. /\ apc = "inserting" /\ apc' = "send"
      /\ UNCHANGED <<domain, userID, ajob, ppc, pjob, running>>
      /\ dict' = [dict EXCEPT ![ajob.id] = IF @ = None THEN c ELSE @]
  BY DEF InsertEnd, process, user
<1>2. c \in Conns /\ ajob.id \in IDs
  BY <1>1 DEF LInv, AInv, TInv, ServerType, Responses, Pointers
<1>3. dict \in [IDs -> Conns \cup {None}] /\ None \notin Conns
  BY LoginAssumption DEF LInv, AInv, TInv, RestType
<1> HIDE DEF c
<1>4. dict'[ajob.id] # None /\ \A u \in IDs : dict[u] # None => dict'[u] # None
  BY <1>1, <1>2, <1>3
<1>5. \A d \in Conns : userID[d] # None => userID[d] \in IDs
  BY DEF LInv, AInv, TInv, UserType
<1>6. userID[c] \in {ajob.id, None}
  BY <1>1 DEF LInv, Marked, c
<1>7. LoggedInIsListed'
  <2> SUFFICES ASSUME running', NEW d \in Conns, domain'[d], userID'[d] # None,
                      ~(ppc' = "clear" /\ pjob'.conn = d)
               PROVE  dict'[userID'[d]] # None
    BY DEF LoggedInIsListed
  <2>1. CASE d = c
    BY <1>1, <1>4, <1>6, <2>1
  <2>2. CASE d # c
    <3>1. dict[userID[d]] # None
      BY <1>1, <2>2 DEF LInv, LoggedInIsListed, c
    <3> QED
      BY <1>1, <1>4, <1>5, <3>1
  <2> QED
    BY <2>1, <2>2
<1>8. Marked'
  BY <1>1 DEF Marked
<1> QED
  BY <1>7, <1>8

LEMMA NextListed == ASSUME OneConnEach, LInv, [Next]_vars PROVE LInv'
<1>0. AInv'
  BY NextAllowed DEF LInv
<1> SUFFICES Marked' /\ LoggedInIsListed'
  BY <1>0 DEF LInv
<1>1. CASE \E c \in Conns : Connect(c) \/ OnConnect(c) \/ OnClose(c)
  BY <1>1, ListedKept DEF Connect, OnConnect, OnClose, process, user
<1>2. CASE \E c \in Conns, u \in IDs, right \in BOOLEAN : OnReceive(c, u, right)
  BY <1>2, ListedKept DEF OnReceive, user
<1>3. CASE ProcessPacket
  <2>1. CASE DequePacketData \/ ProcessLogin \/ TornAccess
    BY <2>1, ListedKept DEF DequePacketData, ProcessLogin, TornAccess, process, user
  <2> QED
    BY <1>3, <2>1, DequeSystemPacketDataListed, EraseUserIDListed, ClearUserListed
       DEF ProcessPacket
<1>4. CASE DBAgent
  BY <1>4, ListedKept DEF DBAgent, IdlePoll, ReadCredentials, Respond, process, user
<1>5. CASE ProcessQueue
  <2>1. CASE DequeueReadPacket
    BY <2>1 DEF DequeueReadPacket, LInv, Marked, LoggedInIsListed, process, user
  <2>2. CASE SendResponse
    BY <2>2 DEF SendResponse, LInv, Marked, LoggedInIsListed, process, user
  <2> QED
    BY <1>5, <2>1, <2>2, SetDomainListed, SetIDListed, InsertBeginListed, InsertEndListed
       DEF ProcessQueue
<1>6. CASE LosePacket
  BY <1>6, ListedKept DEF LosePacket, process, user
<1>7. CASE UNCHANGED vars
  BY <1>7, ListedKept DEF vars, agent
<1> QED
  BY <1>1, <1>2, <1>3, <1>4, <1>5, <1>6, <1>7 DEF Next

(* While every ID is used from one connection, a user who is logged in is  *)
(* listed, so that a second login with the ID is refused: also when the    *)
(* connection closes and opens again while the answer of the database is   *)
(* on its way, and whatever the queues lose.                               *)
THEOREM LoggedInStaysListed == ASSUME OneConnEach PROVE Spec => []LoggedInIsListed
<1>1. Init => LInv
  BY InitTypes, InitAllowed DEF Init, LInv, AInv, Marked, LoggedInIsListed
<1>2. LInv /\ [Next]_vars => LInv'
  BY NextListed
<1>3. LInv => LoggedInIsListed
  BY DEF LInv
<1> QED
  BY <1>1, <1>2, <1>3, PTL DEF Spec
=============================================================================
