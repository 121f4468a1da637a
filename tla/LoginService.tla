---------------------------- MODULE LoginService ----------------------------
(***************************************************************************)
(* How the session server logs users in: PacketManager, User, UserManager  *)
(* and DBAgent, on four kinds of threads that share their state unlocked.  *)
(*                                                                         *)
(*   I/O workers     report connections, store received packets in the     *)
(*                   User's buffer and push its index                      *)
(*   ProcessPacket   takes one packet and one system packet in turn,       *)
(*                   refuses an ID that is listed, else queues a POINTER   *)
(*                   into the buffer for the database                      *)
(*   DBAgent         reads the packet through the pointer, queries,        *)
(*                   queues the response                                   *)
(*   ProcessQueue    lists the user and sends the response                 *)
(*                                                                         *)
(* The two queues between them are DoubleBuffers: PacketChannel says what  *)
(* they do, and Lossy whether they lose a packet.  Sending is SendQueue's: *)
(* here an answer goes to the connection the slot has at that moment.      *)
(* All packets are login requests, the only ones the server answers.  A    *)
(* request is a record with the user's ID, whether the password is right,  *)
(* and its number and connection, which the program does not see.          *)
(*                                                                         *)
(* Patient says how clients and slots behave: they wait for the CONNECT to *)
(* be handled before the first packet, for the answer before the next one, *)
(* and until the work of the old connection is over before the slot is     *)
(* used again.  Nothing in the code enforces any of it.                    *)
(*                                                                         *)
(* Two threads inside one string or one unordered_map, or a write behind   *)
(* the buffer, are undefined: running becomes FALSE and nothing follows.   *)
(* So are the two statements of the database thread at DBAgent.cpp:53-54,  *)
(* executed at every poll; what is shown is shown for as long as they do   *)
(* no harm.                                                                *)
(***************************************************************************)
EXTENDS Naturals, Sequences, FiniteSets

CONSTANTS
    Conns,        \* client indices
    IDs,          \* user IDs
    None,         \* no ID, no request, no connection
    MayUse,       \* <<c, u>>: a client at c may ask for u
    Cap,          \* login packets that fit into a User's buffer
    Lossy,        \* do the DoubleBuffers lose packets?
    Patient,      \* see above
    MaxRequests,  \* bound on the packets sent by clients
    MaxGen        \* bound on the connections of a slot

ASSUME LoginAssumption ==
    /\ MayUse \subseteq Conns \X IDs
    /\ Cap \in Nat \ {0} /\ MaxRequests \in Nat /\ MaxGen \in Nat
    /\ Lossy \in BOOLEAN /\ Patient \in BOOLEAN
    /\ None \notin IDs /\ None \notin Conns

Requests == [conn : Conns, gen : Nat, id : IDs, right : BOOLEAN, n : Nat]
\* What the queues carry for a packet: the client's index and the packet's
\* place in the buffer, and for the properties the packet that was meant.
Pointers == [conn : Conns, pos : 0..Cap - 1, meant : Requests]
Results  == {1, 2, 3, 4}    \* found, not found, query failed; ID is in use

ASSUME NoneAssumption == None \notin Requests \cup Pointers \cup [at : Pointers, read : Requests]

VARIABLES
    up, gen,        \* is the slot connected, and how many connections had it
    announced,      \* its OnConnect has been reported
    requests,       \* packets sent so far
    domain, userID, \* User::mCurDomainState # NONE, User::mUserID
    buf,            \* User::mPakcetDataBuffer
    WPos, RPos,     \* its write and read positions, in packets
    incoming,       \* mInComingPacketUserIndex
    system,         \* mSystemPacketQueue
    dict,           \* mUserIDDictionary
    ppc, pjob,      \* ProcessPacket: where it is, and its packet
    dbQueue,        \* GetDB_Queue: pointers to packets
    djob,           \* DBAgent: the pointer and the request it read, or None
    serverQueue,    \* GetServer_Queue: responses
    apc, ajob,      \* ProcessQueue: where it is, and its response
    answers,        \* answers sent: the request, the result, who received it
    verified,       \* IDs the database has found
    running         \* nothing undefined has happened

conn     == <<up, gen, announced, requests>>
user     == <<domain, userID>>
buffer   == <<buf, WPos, RPos>>
process  == <<ppc, pjob, incoming, system>>
agent    == <<apc, ajob>>
vars == <<up, gen, announced, requests, domain, userID, buf, WPos, RPos, incoming, system,
          dict, ppc, pjob, dbQueue, djob, serverQueue, apc, ajob, answers, verified, running>>

Init ==
    /\ up = [c \in Conns |-> FALSE] /\ gen = [c \in Conns |-> 0]
    /\ announced = [c \in Conns |-> TRUE]
    /\ requests = 0
    /\ domain = [c \in Conns |-> FALSE] /\ userID = [c \in Conns |-> None]
    /\ buf = [c \in Conns |-> [i \in 0..Cap - 1 |-> None]]
    /\ WPos = [c \in Conns |-> 0] /\ RPos = [c \in Conns |-> 0]
    /\ incoming = << >> /\ system = << >>
    /\ dict = [u \in IDs |-> None]
    /\ ppc = "packet" /\ pjob = None
    /\ dbQueue = << >> /\ djob = None /\ serverQueue = << >>
    /\ apc = "dequeue" /\ ajob = None
    /\ answers = {} /\ verified = {}
    /\ running = TRUE

\* Some thread still has work of c's connection to do.
Busy(c) ==
    \/ \E i \in 1..Len(incoming) : incoming[i] = c
    \/ \E i \in 1..Len(system) : system[i][2] = c
    \/ pjob # None /\ pjob.conn = c
    \/ \E i \in 1..Len(dbQueue) : dbQueue[i].conn = c
    \/ djob # None /\ djob.at.conn = c
    \/ \E i \in 1..Len(serverQueue) : serverQueue[i].at.conn = c
    \/ ajob # None /\ ajob.at.conn = c

----------------------------------------------------------------------------
(* The I/O workers: SessionServer::OnConnect, OnClose, OnReceive.          *)

\* The slot accepts a client; data may arrive from here on.
Connect(c) ==
    /\ running /\ ~up[c] /\ announced[c] /\ gen[c] < MaxGen
    /\ Patient => ~Busy(c)
    /\ up' = [up EXCEPT ![c] = TRUE] /\ gen' = [gen EXCEPT ![c] = @ + 1]
    /\ announced' = [announced EXCEPT ![c] = FALSE]
    /\ UNCHANGED <<requests, user, buffer, process, dict, dbQueue, djob, serverQueue, agent,
                   answers, verified, running>>

OnConnect(c) ==
    /\ running /\ ~announced[c]
    /\ announced' = [announced EXCEPT ![c] = TRUE]
    /\ system' = Append(system, <<"connect", c>>)
    /\ UNCHANGED <<up, gen, requests, user, buffer, ppc, pjob, incoming, dict, dbQueue, djob,
                   serverQueue, agent, answers, verified, running>>

\* Two workers may both close the slot, and report it twice (SessionSlots).
OnClose(c) ==
    /\ running /\ up[c]
    /\ up' = [up EXCEPT ![c] = FALSE]
    /\ \/ system' = Append(system, <<"disconnect", c>>)
       \/ system' = Append(Append(system, <<"disconnect", c>>), <<"disconnect", c>>)
    /\ UNCHANGED <<gen, announced, requests, user, buffer, ppc, pjob, incoming, dict, dbQueue,
                   djob, serverQueue, agent, answers, verified, running>>

\* SetPacketData: what is not read yet moves to the front when the packet
\* does not fit behind it.  It is stored without another look at the room.
Compacted(c) ==
    IF WPos[c] + 1 > Cap
    THEN [b |-> [i \in 0..Cap - 1 |->
                     IF i < WPos[c] - RPos[c] THEN buf[c][RPos[c] + i] ELSE buf[c][i]],
          w |-> WPos[c] - RPos[c], r |-> 0]
    ELSE [b |-> buf[c], w |-> WPos[c], r |-> RPos[c]]

\* SetPacketData and EnqueuePacketData.  One step: the index pushed afterwards
\* is but a token, which any packet of the buffer answers to.
OnReceive(c, u, right) ==
    LET q == [conn |-> c, gen |-> gen[c], id |-> u, right |-> right, n |-> requests + 1]
        k == Compacted(c)
    IN
    /\ running /\ up[c] /\ <<c, u>> \in MayUse /\ requests < MaxRequests
    /\ Patient => announced[c] /\ ~Busy(c)
    /\ requests' = requests + 1
    /\ IF k.w < Cap
       THEN /\ buf' = [buf EXCEPT ![c] = [k.b EXCEPT ![k.w] = q]]
            /\ UNCHANGED running
       ELSE /\ buf' = [buf EXCEPT ![c] = k.b]
            /\ running' = FALSE
    /\ WPos' = [WPos EXCEPT ![c] = k.w + 1]
    /\ RPos' = [RPos EXCEPT ![c] = k.r]
    /\ incoming' = Append(incoming, c)
    /\ UNCHANGED <<up, gen, announced, user, ppc, pjob, system, dict, dbQueue, djob,
                   serverQueue, agent, answers, verified>>

----------------------------------------------------------------------------
(* PacketManager::ProcessPacket: one packet, one system packet, in turn.   *)

\* An answer on a closed slot reaches nobody.
Nobody == << >>

\* SendPacketFunc: the answer goes to whoever is connected at that index.
Answer(at, id, result) ==
    answers' = answers \cup {[at |-> at, id |-> id, result |-> result,
                              to |-> IF up[at.conn] THEN <<at.conn, gen[at.conn]>> ELSE Nobody]}

\* Variant: the read position is not advanced.
DequePacketDataAgain ==
    /\ running /\ ppc = "packet"
    /\ IF incoming = << >>
       THEN ppc' = "system" /\ UNCHANGED <<pjob, incoming>>
       ELSE LET c == Head(incoming) IN
            /\ incoming' = Tail(incoming)
            /\ IF RPos[c] < WPos[c]
               THEN /\ pjob' = [conn |-> c, pos |-> RPos[c], meant |-> buf[c][RPos[c]]]
                    /\ ppc' = "login"
               ELSE ppc' = "system" /\ UNCHANGED pjob
    /\ UNCHANGED <<conn, user, buffer, system, dict, dbQueue, djob, serverQueue, agent,
                   answers, verified, running>>

\* Variant: the address is that of the buffer, not of the packet in it.
DequePacketDataFromStart ==
    /\ running /\ ppc = "packet"
    /\ IF incoming = << >>
       THEN ppc' = "system" /\ UNCHANGED <<pjob, incoming, RPos>>
       ELSE LET c == Head(incoming) IN
            /\ incoming' = Tail(incoming)
            /\ IF RPos[c] < WPos[c]
               THEN /\ pjob' = [conn |-> c, pos |-> 0, meant |-> buf[c][RPos[c]]]
                    /\ RPos' = [RPos EXCEPT ![c] = @ + 1]
                    /\ ppc' = "login"
               ELSE ppc' = "system" /\ UNCHANGED <<pjob, RPos>>
    /\ UNCHANGED <<conn, user, buf, WPos, system, dict, dbQueue, djob, serverQueue, agent,
                   answers, verified, running>>

\* DequePacketData and User::GetPacket: the packet is handed on by address.
DequePacketData ==
    /\ running /\ ppc = "packet"
    /\ IF incoming = << >>
       THEN ppc' = "system" /\ UNCHANGED <<pjob, incoming, RPos>>
       ELSE LET c == Head(incoming) IN
            /\ incoming' = Tail(incoming)
            /\ IF RPos[c] < WPos[c]
               THEN /\ pjob' = [conn |-> c, pos |-> RPos[c], meant |-> buf[c][RPos[c]]]
                    /\ RPos' = [RPos EXCEPT ![c] = @ + 1]
                    /\ ppc' = "login"
               ELSE ppc' = "system" /\ UNCHANGED <<pjob, RPos>>
    /\ UNCHANGED <<conn, user, buf, WPos, system, dict, dbQueue, djob, serverQueue, agent,
                   answers, verified, running>>

\* FindUserIndexByID, with the ProcessQueue thread perhaps inside insert: the
\* search may then miss any entry.
Finds(u) == IF apc = "inserting" THEN {dict[u], None} ELSE {dict[u]}

\* Variant: the refusal is not sent.
ProcessLoginSilent ==
    LET u == buf[pjob.conn][pjob.pos].id IN
    /\ running /\ ppc = "login"
    /\ \E found \in Finds(u) :
           dbQueue' = IF found = None THEN Append(dbQueue, pjob) ELSE dbQueue
    /\ ppc' = "system" /\ pjob' = None
    /\ UNCHANGED <<conn, user, buffer, incoming, system, dict, djob, serverQueue, agent,
                   answers, verified, running>>

ProcessLogin ==
    LET u == buf[pjob.conn][pjob.pos].id IN
    /\ running /\ ppc = "login"
    /\ \E found \in Finds(u) :
           IF found = None
           THEN dbQueue' = Append(dbQueue, pjob) /\ UNCHANGED answers
           ELSE Answer(pjob, u, 4) /\ UNCHANGED dbQueue
    /\ ppc' = "system" /\ pjob' = None
    /\ UNCHANGED <<conn, user, buffer, incoming, system, dict, djob, serverQueue, agent,
                   verified, running>>

\* User::Clear.
Clear(c) ==
    /\ domain' = [domain EXCEPT ![c] = FALSE]
    /\ userID' = [userID EXCEPT ![c] = None]
    /\ WPos' = [WPos EXCEPT ![c] = 0]
    /\ RPos' = [RPos EXCEPT ![c] = 0]

\* DequeSystemPacketData, ProcessUserConnect, and ProcessUserDisConnect up to
\* the test of ClearConnectionInfo.
DequeSystemPacketData ==
    /\ running /\ ppc = "system"
    /\ IF system = << >>
       THEN ppc' = "packet" /\ UNCHANGED <<pjob, system, user, WPos, RPos>>
       ELSE LET c == Head(system)[2] IN
            /\ system' = Tail(system)
            /\ IF Head(system)[1] = "connect"
               THEN Clear(c) /\ ppc' = "packet" /\ UNCHANGED pjob
               ELSE /\ IF domain[c]
                       THEN ppc' = "erase" /\ pjob' = [conn |-> c]
                       ELSE ppc' = "packet" /\ UNCHANGED pjob
                    /\ UNCHANGED <<user, WPos, RPos>>
    /\ UNCHANGED <<conn, buf, incoming, dict, dbQueue, djob, serverQueue, agent, answers,
                   verified, running>>

\* DeleteUserInfo: the ID of the user is taken from the dictionary ...
EraseUserID ==
    LET u == userID[pjob.conn] IN
    /\ running /\ ppc = "erase"
    /\ dict' = [v \in IDs |-> IF v = u THEN None ELSE dict[v]]
    /\ ppc' = "clear"
    /\ UNCHANGED <<conn, user, buffer, pjob, incoming, system, dbQueue, djob, serverQueue,
                   agent, answers, verified, running>>

\* Variant: the buffer positions are reset, and the login is kept.
ClearUserPartly ==
    /\ running /\ ppc = "clear"
    /\ WPos' = [WPos EXCEPT ![pjob.conn] = 0] /\ RPos' = [RPos EXCEPT ![pjob.conn] = 0]
    /\ ppc' = "packet" /\ pjob' = None
    /\ UNCHANGED <<conn, user, buf, incoming, system, dict, dbQueue, djob, serverQueue, agent,
                   answers, verified, running>>

\* ... and the user is cleared.
ClearUser ==
    /\ running /\ ppc = "clear"
    /\ Clear(pjob.conn)
    /\ ppc' = "packet" /\ pjob' = None
    /\ UNCHANGED <<conn, buf, incoming, system, dict, dbQueue, djob, serverQueue, agent,
                   answers, verified, running>>

\* mUserID or the dictionary is used while the ProcessQueue thread changes it.
TornAccess ==
    /\ running
    /\ \/ ppc \in {"login", "erase"} /\ apc = "inserting"
       \/ /\ apc = "setid"
          /\ \/ ppc \in {"erase", "clear"} /\ ajob.at.conn = pjob.conn
             \/ /\ ppc = "system" /\ system # << >>
                /\ Head(system) = <<"connect", ajob.at.conn>>
    /\ running' = FALSE
    /\ UNCHANGED <<conn, user, buffer, process, dict, dbQueue, djob, serverQueue, agent,
                   answers, verified>>

----------------------------------------------------------------------------
(* DBAgent::ProcessQueue and ProcessLogin.                                 *)

\* The statement after the switch reads through data when it is null.  What
\* that does is undefined: here it stops the server, or goes unnoticed.
IdlePoll ==
    /\ running /\ djob = None /\ dbQueue = << >>
    /\ running' = FALSE
    /\ UNCHANGED <<conn, user, buffer, process, dict, dbQueue, djob, serverQueue, agent,
                   answers, verified>>

\* ID and password are copied from where the pointer points now.
ReadCredentials ==
    /\ running /\ djob = None /\ dbQueue # << >>
    /\ dbQueue' = Tail(dbQueue)
    /\ djob' = [at |-> Head(dbQueue), read |-> buf[Head(dbQueue).conn][Head(dbQueue).pos]]
    /\ UNCHANGED <<conn, user, buffer, process, dict, serverQueue, agent, answers, verified,
                   running>>

\* ProcessLoginQuery and the response.  Then the same statement deletes the
\* pointer, which is none that new has returned.
Respond ==
    /\ running /\ djob # None
    /\ \E result \in {IF djob.read.right THEN 1 ELSE 2, 3} :
           /\ serverQueue' = Append(serverQueue, [at |-> djob.at, id |-> djob.read.id,
                                                  result |-> result])
           /\ verified' = IF result = 1 THEN verified \cup {djob.read.id} ELSE verified
    /\ djob' = None
    /\ running' \in BOOLEAN
    /\ UNCHANGED <<conn, user, buffer, process, dict, dbQueue, agent, answers>>

\* What the DoubleBuffers may do to the packet queued last.
LosePacket ==
    /\ running /\ Lossy
    /\ \/ /\ dbQueue # << >>
          /\ dbQueue' = SubSeq(dbQueue, 1, Len(dbQueue) - 1)
          /\ UNCHANGED serverQueue
       \/ /\ serverQueue # << >>
          /\ serverQueue' = SubSeq(serverQueue, 1, Len(serverQueue) - 1)
          /\ UNCHANGED dbQueue
    /\ UNCHANGED <<conn, user, buffer, process, dict, djob, agent, answers, verified, running>>

----------------------------------------------------------------------------
(* PacketManager::ProcessQueue, ProcessLoginResponse and AddUser.          *)

\* Variant: case 2 falls through to AddUser's.
DequeueFallingThrough ==
    /\ running /\ apc = "dequeue" /\ serverQueue # << >>
    /\ serverQueue' = Tail(serverQueue)
    /\ ajob' = Head(serverQueue)
    /\ apc' = IF Head(serverQueue).result \in {1, 2} THEN "setdomain" ELSE "send"
    /\ UNCHANGED <<conn, user, buffer, process, dict, dbQueue, djob, answers, verified, running>>

DequeueReadPacket ==
    /\ running /\ apc = "dequeue" /\ serverQueue # << >>
    /\ serverQueue' = Tail(serverQueue)
    /\ ajob' = Head(serverQueue)
    /\ apc' = IF Head(serverQueue).result = 1 THEN "setdomain" ELSE "send"
    /\ UNCHANGED <<conn, user, buffer, process, dict, dbQueue, djob, answers, verified, running>>

SetDomain ==
    /\ running /\ apc = "setdomain"
    /\ domain' = [domain EXCEPT ![ajob.at.conn] = TRUE]
    /\ apc' = "setid"
    /\ UNCHANGED <<conn, userID, buffer, process, dict, dbQueue, djob, serverQueue, ajob,
                   answers, verified, running>>

SetID ==
    /\ running /\ apc = "setid"
    /\ userID' = [userID EXCEPT ![ajob.at.conn] = ajob.id]
    /\ apc' = "insert"
    /\ UNCHANGED <<conn, domain, buffer, process, dict, dbQueue, djob, serverQueue, ajob,
                   answers, verified, running>>

InsertBegin ==
    /\ running /\ apc = "insert"
    /\ apc' = "inserting"
    /\ UNCHANGED <<conn, user, buffer, process, dict, dbQueue, djob, serverQueue, ajob,
                   answers, verified, running>>

\* unordered_map::insert keeps an entry that is there.
InsertEnd ==
    /\ running /\ apc = "inserting"
    /\ dict' = [dict EXCEPT ![ajob.id] = IF @ = None THEN ajob.at.conn ELSE @]
    /\ apc' = "send"
    /\ UNCHANGED <<conn, user, buffer, process, dbQueue, djob, serverQueue, ajob, answers,
                   verified, running>>

SendResponse ==
    /\ running /\ apc = "send"
    /\ Answer(ajob.at, ajob.id, ajob.result)
    /\ apc' = "dequeue" /\ ajob' = None
    /\ UNCHANGED <<conn, user, buffer, process, dict, dbQueue, djob, serverQueue, verified,
                   running>>

----------------------------------------------------------------------------
ProcessPacket ==
    \/ DequePacketData \/ ProcessLogin \/ DequeSystemPacketData
    \/ EraseUserID \/ ClearUser \/ TornAccess

DBAgent == IdlePoll \/ ReadCredentials \/ Respond

ProcessQueue ==
    \/ DequeueReadPacket \/ SetDomain \/ SetID \/ InsertBegin \/ InsertEnd \/ SendResponse

Next ==
    \/ \E c \in Conns : Connect(c) \/ OnConnect(c) \/ OnClose(c)
    \/ \E c \in Conns, u \in IDs, right \in BOOLEAN : OnReceive(c, u, right)
    \/ ProcessPacket \/ DBAgent \/ ProcessQueue \/ LosePacket

Spec == Init /\ [][Next]_vars

\* The three loops run until the process ends, and a worker that has accepted a
\* client reports it.  Clients are free to do nothing.
Fairness ==
    /\ \A c \in Conns : WF_vars(OnConnect(c))
    /\ WF_vars(ProcessPacket)
    /\ WF_vars(ReadCredentials \/ Respond)
    /\ WF_vars(ProcessQueue)

FairSpec == Spec /\ Fairness

----------------------------------------------------------------------------
TypeOK ==
    /\ up \in [Conns -> BOOLEAN] /\ gen \in [Conns -> Nat]
    /\ announced \in [Conns -> BOOLEAN] /\ requests \in Nat
    /\ domain \in [Conns -> BOOLEAN] /\ userID \in [Conns -> IDs \cup {None}]
    /\ buf \in [Conns -> [0..Cap - 1 -> Requests \cup {None}]]
    /\ \A c \in Conns : WPos[c] \in Nat /\ RPos[c] \in 0..WPos[c] /\ (running => WPos[c] <= Cap)
    /\ incoming \in Seq(Conns) /\ system \in Seq({"connect", "disconnect"} \X Conns)
    /\ dict \in [IDs -> Conns \cup {None}]
    /\ ppc \in {"packet", "login", "system", "erase", "clear"}
    /\ pjob \in {None} \cup Pointers \cup [conn : Conns]
    /\ dbQueue \in Seq(Pointers)
    /\ djob \in {None} \cup [at : Pointers, read : Requests]
    /\ serverQueue \in Seq([at : Pointers, id : IDs, result : Results])
    /\ apc \in {"dequeue", "setdomain", "setid", "insert", "inserting", "send"}
    /\ ajob \in {None} \cup [at : Pointers, id : IDs, result : Results]
    /\ answers \subseteq [at : Pointers, id : IDs, result : Results,
                        to : {Nobody} \cup (Conns \X Nat)]
    /\ verified \subseteq IDs /\ running \in BOOLEAN

(* Only a user whose ID and password the database has found is listed or   *)
(* marked as logged in, whatever packets overwrite each other on the way.  *)
OnlyVerified ==
    /\ \A u \in IDs : dict[u] # None => u \in verified
    /\ \A c \in Conns : userID[c] # None => userID[c] \in verified

(* No request is answered twice: however connections, losses and buffers   *)
(* interleave, one packet is refused or queried once.                      *)
AnsweredOnce == \A a, b \in answers : a.at.meant = b.at.meant => a = b

(* While ID u is used from one connection only, a logged-in user is listed *)
(* - and so a second login with that ID will be refused.                   *)
LoggedInIsListed ==
    running => \A c \in Conns :
        domain[c] /\ userID[c] # None
        /\ ~(apc \in {"setid", "insert", "inserting"} /\ ajob.at.conn = c)
        /\ ~(ppc = "clear" /\ pjob.conn = c)
        => dict[userID[c]] # None

(* The credentials the database checks are those of the request that was   *)
(* queued, although the queue carries a pointer into a buffer that is used *)
(* again.                                                                  *)
ReadsOwnPacket == djob # None => djob.read = djob.at.meant

(* A request that arrived is answered, unless its connection closes.       *)
\* Packet n of the present connection of c is in its buffer.
Stored(c, n) ==
    \E i \in 0..Cap - 1 : buf[c][i] # None /\ buf[c][i].n = n /\ buf[c][i].gen = gen[c]
RequestAnswered ==
    \A n \in 1..MaxRequests, c \in Conns :
        up[c] /\ Stored(c, n) ~> (\E a \in answers : a.at.meant.n = n) \/ ~up[c] \/ ~running

(* PacketManager.cpp:199 says that an already connected user fails to log  *)
(* in: no two connections are logged in with one ID.                       *)
OneSessionPerID ==
    \A c, d \in Conns :
        c # d /\ up[c] /\ up[d] /\ domain[c] /\ domain[d] /\ userID[c] # None => userID[c] # userID[d]

=============================================================================
