----------------------------- MODULE ChatServer -----------------------------
(* charming_chatroom/server.c: the main thread accepts up to MAX_CLIENTS     *)
(* connections, a thread per client reads its messages and writes each one to *)
(* all clients under the mutex.  Messages are whole; sockets and descriptors  *)
(* are those of the kernel, which hands out the lowest free number.  A step   *)
(* is one library call or one critical section that does not block.           *)
EXTENDS Integers, Sequences, FiniteSets, Functions, SequencesExt

CONSTANTS Conn,          \* connections that clients make
          MAX_CLIENTS,
          Messages,      \* model bound: messages of each client
          Room,          \* messages that fit into the buffer of a socket
          NoConn

Slot == 0..(MAX_CLIENTS - 1)
FD == 4..(4 + Cardinality(Conn))
NoFd == -1

ASSUME ChatAssumption == /\ IsFiniteSet(Conn) /\ NoConn \notin Conn
                         /\ MAX_CLIENTS \in Nat \ {0} /\ Messages \in Nat /\ Room \in Nat \ {0}

VARIABLES backlog,            \* connections the kernel holds until accept
          conn,               \* kernel: the connection behind each descriptor
          hung, shut,         \* connections the client hung up, and the server shut down
          sent, unread,       \* client to server: messages sent so far, and not read yet
          got, buffered,      \* server to client: what was written, how much is not read
          endSession, clients, clientsCount, mutex,
          main, socket,       \* the main thread: point and local descriptor (or slot in cleanup)
          pc, msg, next,      \* the thread of each slot: point, message, loop counter
          sized,              \* connection the size of the thread's message was written to, until the text is
          headless            \* ghost: connections to which a text was written without its size

client == <<hung, sent>>
kernel == <<backlog, conn, shut, unread, got, buffered>>
global == <<endSession, clients, clientsCount, mutex>>
threads == <<pc, msg, next>>
stream == <<sized, headless>>
vars == <<client, kernel, global, main, socket, threads, stream>>

Nobody == -1

Init == /\ backlog = <<>> /\ conn = [f \in FD |-> NoConn] /\ hung = {} /\ shut = {}
        /\ sent = [c \in Conn |-> 0] /\ unread = [c \in Conn |-> <<>>]
        /\ got = [c \in Conn |-> <<>>] /\ buffered = [c \in Conn |-> 0]
        /\ endSession = 0 /\ clients = [i \in Slot |-> NoFd] /\ clientsCount = 0
        /\ mutex = Nobody
        /\ main = "loop" /\ socket = NoFd
        /\ pc = [i \in Slot |-> "none"] /\ msg = [i \in Slot |-> <<>>] /\ next = [i \in Slot |-> 0]
        /\ sized = [i \in Slot |-> NoConn] /\ headless = {}

\* The server process runs until exit(1).
Alive == main # "dead"
Goto(i, p) == pc' = [pc EXCEPT ![i] = p]
-----------------------------------------------------------------------------
(* The clients and the user of the server. *)

Known(c) == c \in Range(backlog) \union Range(conn)

Connect(c) == /\ Alive /\ main \notin {"cleanup", "exited"}
              /\ ~Known(c) /\ c \notin hung \union shut
              /\ sent[c] = 0
              /\ backlog' = Append(backlog, c)
              /\ UNCHANGED <<client, conn, shut, unread, got, buffered, global, main, socket, threads, stream>>

ClientSends(c) == /\ Known(c) /\ c \notin hung \union shut
                  /\ sent[c] < Messages
                  /\ sent' = [sent EXCEPT ![c] = @ + 1]
                  /\ unread' = [unread EXCEPT ![c] = Append(@, <<c, sent[c] + 1>>)]
                  /\ UNCHANGED <<hung, backlog, conn, shut, got, buffered, global, main, socket, threads, stream>>

ClientReads(c) == /\ buffered[c] > 0
                  /\ buffered' = [buffered EXCEPT ![c] = @ - 1]
                  /\ UNCHANGED <<client, backlog, conn, shut, unread, got, global, main, socket, threads, stream>>

HangUp(c) == /\ Known(c) /\ c \notin hung
             /\ hung' = hung \union {c}
             /\ UNCHANGED <<sent, kernel, global, main, socket, threads, stream>>

\* SIGINT reaches any thread.  It interrupts the accept of the main thread,
\* whose error path is exit(1); the reads and writes of the others go on.
Interrupt == /\ Alive /\ endSession = 0
             /\ endSession' = 1
             /\ main' \in {main} \union (IF main = "accept" THEN {"dead"} ELSE {})
             /\ UNCHANGED <<client, kernel, clients, clientsCount, mutex, socket, threads, stream>>
-----------------------------------------------------------------------------
(* run_server and cleanup. *)

\* Fault: the limit is tested with <=.
LoopOffByOne == /\ main = "loop"
                /\ endSession = 1 \/ clientsCount <= MAX_CLIENTS
                /\ main' = IF endSession = 1 THEN "cleanup" ELSE "accept"
                /\ socket' = IF endSession = 1 THEN 0 ELSE NoFd
                /\ UNCHANGED <<client, kernel, global, threads, stream>>

\* The loop spins while all slots are taken.
Loop == /\ main = "loop"
        /\ endSession = 1 \/ clientsCount < MAX_CLIENTS
        /\ main' = IF endSession = 1 THEN "cleanup" ELSE "accept"
        /\ socket' = IF endSession = 1 THEN 0 ELSE NoFd
        /\ UNCHANGED <<client, kernel, global, threads, stream>>

LowestFree == CHOOSE f \in FD : conn[f] = NoConn /\ \A g \in FD : conn[g] = NoConn => f <= g

Accept == /\ main = "accept" /\ backlog # <<>>
          /\ conn' = [conn EXCEPT ![LowestFree] = Head(backlog)]
          /\ backlog' = Tail(backlog)
          /\ socket' = LowestFree
          /\ main' = "register"
          /\ UNCHANGED <<client, shut, unread, got, buffered, global, threads, stream>>

FreeSlots == {i \in Slot : clients[i] = NoFd}
FirstFree == CHOOSE i \in FreeSlots : \A j \in FreeSlots : i <= j

\* Faults: the mutex is not taken; the break is missing.
RegisterThat(free, slots) ==
    /\ main = "register" /\ free
    /\ main' = "loop"
    /\ clients' = [i \in Slot |-> IF i \in slots THEN socket ELSE clients[i]]
    /\ clientsCount' = clientsCount + Cardinality(slots)
    /\ pc' = [i \in Slot |-> IF i \in slots THEN "top" ELSE pc[i]]
    /\ UNCHANGED <<client, kernel, endSession, mutex, socket, msg, next, stream>>
RegisterUnlocked == RegisterThat(TRUE, IF FreeSlots = {} THEN {} ELSE {FirstFree})
RegisterWithoutBreak == RegisterThat(mutex = Nobody, FreeSlots)

Register == /\ main = "register" /\ mutex = Nobody
            /\ main' = "loop"
            /\ IF FreeSlots = {} THEN UNCHANGED <<clients, clientsCount, threads>>
               ELSE /\ clients' = [clients EXCEPT ![FirstFree] = socket]
                    /\ clientsCount' = clientsCount + 1
                    /\ Goto(FirstFree, "top")
                    /\ UNCHANGED <<msg, next>>
            /\ UNCHANGED <<client, kernel, endSession, mutex, socket, stream>>

\* One client is shut down and closed per step, without the mutex.
Cleanup == /\ main = "cleanup"
           /\ LET f == IF socket \in Slot THEN clients[socket] ELSE NoFd
              IN  /\ shut' = IF f = NoFd THEN shut ELSE shut \union ({conn[f]} \ {NoConn})
                  /\ conn' = IF f = NoFd THEN conn ELSE [conn EXCEPT ![f] = NoConn]
           /\ main' = IF socket = MAX_CLIENTS THEN "exited" ELSE "cleanup"
           /\ socket' = socket + 1
           /\ UNCHANGED <<client, backlog, unread, got, buffered, global, threads, stream>>
-----------------------------------------------------------------------------
(* process_client and write_to_clients. *)

Top(i) == /\ pc[i] = "top"
          /\ Goto(i, IF endSession = 0 THEN "recv" ELSE "close")
          /\ UNCHANGED <<client, kernel, global, main, socket, msg, next, stream>>

\* A message, or the end of the connection (or an error).
Recv(i) == LET c == conn[clients[i]] IN
           /\ pc[i] = "recv"
           /\ \/ /\ c # NoConn /\ unread[c] # <<>>
                 /\ msg' = [msg EXCEPT ![i] = Head(unread[c])]
                 /\ unread' = [unread EXCEPT ![c] = Tail(@)]
                 /\ Goto(i, "lock")
              \/ /\ c \in {NoConn} \union shut \union {d \in hung : unread[d] = <<>>}
                 /\ Goto(i, "close")
                 /\ UNCHANGED <<msg, unread>>
           /\ UNCHANGED <<client, backlog, conn, shut, got, buffered, global, main, socket, next, stream>>

\* Fault: broadcasts do not exclude each other.
LockNothing(i) == /\ pc[i] = "lock"
                  /\ next' = [next EXCEPT ![i] = 0]
                  /\ Goto(i, "send")
                  /\ UNCHANGED <<client, kernel, global, main, socket, msg, stream>>

LockWrite(i) == /\ pc[i] = "lock" /\ mutex = Nobody
                /\ mutex' = i
                /\ next' = [next EXCEPT ![i] = 0]
                /\ Goto(i, "send")
                /\ UNCHANGED <<client, kernel, endSession, clients, clientsCount, main, socket, msg, stream>>

\* The connection behind the next slot, if something can be written to it:
\* nothing is written to a free slot or to a connection that is gone.
Reached(i) == LET f == IF next[i] \in Slot THEN clients[next[i]] ELSE NoFd
                  c == IF f = NoFd THEN NoConn ELSE conn[f]
              IN  IF c \in hung \union shut THEN NoConn ELSE c

\* The size of the message, once there is room for the message, ...
SendSize(i) == LET c == Reached(i) IN
               /\ pc[i] = "send" /\ next[i] < MAX_CLIENTS
               /\ IF c = NoConn
                  THEN next' = [next EXCEPT ![i] = @ + 1] /\ UNCHANGED <<pc, sized>>
                  ELSE /\ buffered[c] < Room
                       /\ sized' = [sized EXCEPT ![i] = c]
                       /\ Goto(i, "text")
                       /\ UNCHANGED next
               /\ UNCHANGED <<client, kernel, global, main, socket, msg, headless>>

\* ... and then its text, to whatever connection has the descriptor by now.
SendText(i) == LET c == Reached(i) IN
               /\ pc[i] = "text"
               /\ c \notin {NoConn, sized[i]} => buffered[c] < Room
               /\ got' = IF c = NoConn THEN got ELSE [got EXCEPT ![c] = Append(@, msg[i])]
               /\ buffered' = IF c = NoConn THEN buffered ELSE [buffered EXCEPT ![c] = @ + 1]
               /\ headless' = headless \union ({c} \ {NoConn, sized[i]})
               /\ sized' = [sized EXCEPT ![i] = NoConn]
               /\ next' = [next EXCEPT ![i] = @ + 1]
               /\ Goto(i, "send")
               /\ UNCHANGED <<client, backlog, conn, shut, unread, global, main, socket, msg>>

UnlockWrite(i) == /\ pc[i] = "send" /\ next[i] = MAX_CLIENTS
                  /\ mutex' = Nobody
                  /\ msg' = [msg EXCEPT ![i] = <<>>]
                  /\ Goto(i, "top")
                  /\ UNCHANGED <<client, kernel, endSession, clients, clientsCount, main, socket, next, stream>>

Close(i) == /\ pc[i] = "close"
            /\ conn' = [conn EXCEPT ![clients[i]] = NoConn]
            /\ Goto(i, "leave")
            /\ UNCHANGED <<client, backlog, shut, unread, got, buffered, global, main, socket, msg, next, stream>>

Leave(i) == /\ pc[i] = "leave" /\ mutex = Nobody
            /\ clients' = [clients EXCEPT ![i] = NoFd]
            /\ clientsCount' = clientsCount - 1
            /\ Goto(i, "none")
            /\ UNCHANGED <<client, kernel, endSession, mutex, main, socket, msg, next, stream>>
-----------------------------------------------------------------------------
MainStep == Loop \/ Accept \/ Register \/ Cleanup
ThreadStep(i) == /\ Alive
                 /\ \/ Top(i) \/ Recv(i) \/ LockWrite(i) \/ SendSize(i) \/ SendText(i)
                    \/ UnlockWrite(i) \/ Close(i) \/ Leave(i)

Next == \/ \E c \in Conn : Connect(c) \/ ClientSends(c) \/ ClientReads(c) \/ HangUp(c)
        \/ Interrupt \/ MainStep
        \/ \E i \in Slot : ThreadStep(i)

Spec == Init /\ [][Next]_vars

\* All threads are scheduled, and clients read what they are sent.
FairSpec == /\ Spec /\ WF_vars(MainStep)
            /\ \A i \in Slot : WF_vars(ThreadStep(i))
            /\ \A c \in Conn : WF_vars(ClientReads(c))
-----------------------------------------------------------------------------
(* clientsCount is read without the mutex, yet the connection accepted after  *)
(* that always finds a free slot: no client is accepted and then forgotten.   *)
AcceptedGetsSlot == main = "register" => FreeSlots # {}

(* Until it closes it, each client thread has its descriptor to itself: it is *)
(* open and no other thread that is not past its close uses the same one,     *)
(* even when the kernel hands out a number again.                             *)
Serving == {i \in Slot : pc[i] \notin {"none", "leave"}}
DescriptorsAreOwn ==
    \A i \in Serving : /\ main \in {"loop", "accept", "register"} => conn[clients[i]] # NoConn
                       /\ \A j \in Serving : clients[i] = clients[j] => i = j

(* A broadcast reaches every client that was connected when its turn came and *)
(* has not closed since: nobody joins, leaves or moves to another slot behind *)
(* the writer's back, and the text follows its size (server.c:149-163).  A    *)
(* slot whose thread is past its close may stand for the descriptor of a      *)
(* newer client, which is then written to before it has a slot, or twice, or  *)
(* gets a text whose size went to the old one (headless): of such a client    *)
(* nothing is said from then on.                                              *)
Writing == {"send", "text"}
BroadcastReachesAll ==
    \A i \in Slot : pc[i] \in Writing =>
        \A j \in Serving :
            LET c == conn[clients[j]]
            IN  /\ j < next[i] => c \in {NoConn} \union hung \union shut \union headless
                                  \/ msg[i] \in Range(got[c])
                /\ j = next[i] /\ pc[i] = "text" => c \in {NoConn, sized[i]}

(* All clients get the messages in the same order.                            *)
Before(c, x, y) == \E i, j \in DOMAIN got[c] : i < j /\ got[c][i] = x /\ got[c][j] = y
SameOrder ==
    \A c, d \in Conn : \A x, y \in Range(got[c]) :
        x # y => ~(Before(c, x, y) /\ Before(d, y, x))

(* server.c:63-65: when more than MAX_CLIENTS clients connect, the server     *)
(* shuts the new one down and goes on accepting; it does not let it wait.     *)
NobodyIsKeptWaiting ==
    \A c \in Conn : (c \in Range(backlog) /\ endSession = 0)
                        ~> (c \notin Range(backlog) \/ c \in hung \/ endSession = 1)
=============================================================================
