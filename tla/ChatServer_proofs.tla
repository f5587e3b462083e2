-------------------------- MODULE ChatServer_proofs --------------------------
(* Proofs about ChatServer for any number of clients, slots, messages and    *)
(* room: the unprotected read of clientsCount does no harm, and descriptors  *)
(* that the kernel hands out again are not mixed up.                         *)
EXTENDS ChatServer, TLAPS, FiniteSetTheorems, WellFoundedInduction

Points == {"none", "top", "recv", "lock", "send", "text", "close", "leave"}

TypeOK == /\ backlog \in Seq(Conn) /\ conn \in [FD -> Conn \union {NoConn}]
          /\ clients \in [Slot -> FD \union {NoFd}] /\ clientsCount \in Int
          /\ main \in {"loop", "accept", "register", "cleanup", "exited", "dead"}
          /\ socket \in Int
          /\ pc \in [Slot -> Points]

\* A connection is in the backlog or has one descriptor.
ConnectedOnce ==
  /\ \A m, n \in DOMAIN backlog : backlog[m] = backlog[n] => m = n
  /\ \A f, g \in FD : conn[f] # NoConn /\ conn[f] = conn[g] => f = g
  /\ \A n \in DOMAIN backlog, f \in FD : conn[f] # backlog[n]

\* Slots that have a thread have a descriptor, and the others have none.
Taken == {i \in Slot : clients[i] # NoFd}
SlotsAgree == /\ \A i \in Slot : pc[i] = "none" <=> clients[i] = NoFd
              /\ clientsCount = Cardinality(Taken)

\* The main thread goes on to accept when there is a free slot: only it can
\* take that slot away.
RoomLeft == main \in {"accept", "register"} => clientsCount < MAX_CLIENTS

\* Descriptors of threads that have not closed them, and the one to register.
OwnDescriptors ==
  /\ \A i, j \in Serving : clients[i] = clients[j] => i = j
  /\ main \in {"loop", "accept", "register"} => \A i \in Serving : conn[clients[i]] # NoConn
  /\ main = "register" => /\ socket \in FD /\ conn[socket] # NoConn
                          /\ \A i \in Serving : clients[i] # socket

IInv == TypeOK /\ ConnectedOnce /\ SlotsAgree /\ RoomLeft /\ OwnDescriptors

LEMMA Numbers == /\ IsFiniteSet(Slot) /\ Cardinality(Slot) = MAX_CLIENTS /\ MAX_CLIENTS \in Nat \ {0}
                 /\ IsFiniteSet(FD) /\ Cardinality(FD) = Cardinality(Conn) + 1
                 /\ Cardinality(Conn) \in Nat /\ NoFd \notin FD /\ Slot \subseteq Nat /\ FD \subseteq Nat
<1>1. Cardinality(Conn) \in Nat
  BY ChatAssumption, FS_CardinalityType
<1>2. IsFiniteSet(0..(MAX_CLIENTS - 1)) /\ Cardinality(0..(MAX_CLIENTS - 1)) = MAX_CLIENTS
  BY ChatAssumption, FS_Interval
<1>3. IsFiniteSet(4..(4 + Cardinality(Conn)))
      /\ Cardinality(4..(4 + Cardinality(Conn))) = Cardinality(Conn) + 1
  BY <1>1, FS_Interval
<1>. QED
  BY <1>1, <1>2, <1>3, ChatAssumption DEF Slot, FD, NoFd

LEMMA LeastNumber == ASSUME NEW S \in SUBSET Nat, S # {}
                     PROVE  \E n \in S : \A k \in S : n <= k
<1>1. PICK n \in S : \A k \in S : ~(<<k, n>> \in OpToRel(<, Nat))
  BY WFMin, NatLessThanWellFounded
<1>2. \A k \in S : ~(k < n)
  BY <1>1 DEF OpToRel
<1>. QED
  BY <1>2

\* The kernel always has a descriptor: connections have one each.
LEMMA DescriptorLeft == ASSUME TypeOK, ConnectedOnce
                        PROVE  LowestFree \in FD /\ conn[LowestFree] = NoConn
<1>. DEFINE used == {f \in FD : conn[f] # NoConn}
            of == [f \in used |-> conn[f]]
<1>1. IsFiniteSet(used)
  BY Numbers, FS_Subset
<1>2. of \in Injection(used, Conn)
  BY DEF TypeOK, ConnectedOnce, Injection, IsInjective
<1>3. Cardinality(used) <= Cardinality(Conn)
  BY <1>2, ChatAssumption, FS_Injection
<1>4. used # FD
  BY <1>3, Numbers
<1>. DEFINE free == {f \in FD : conn[f] = NoConn}
<1>5. free # {}
  BY <1>4
<1>6. \E f \in free : \A g \in free : f <= g
  BY <1>5, Numbers, LeastNumber
<1>7. \E f \in FD : conn[f] = NoConn /\ \A g \in FD : conn[g] = NoConn => f <= g
  BY <1>6
<1>. QED
  BY <1>7 DEF LowestFree

LEMMA SlotLeft == ASSUME TypeOK, SlotsAgree, clientsCount < MAX_CLIENTS
                  PROVE  FreeSlots # {} /\ FirstFree \in Slot /\ clients[FirstFree] = NoFd
<1>1. Taken # Slot
  BY Numbers DEF SlotsAgree
<1>2. FreeSlots # {} /\ FreeSlots \in SUBSET Nat
  BY <1>1, Numbers DEF Taken, FreeSlots
<1>3. \E i \in FreeSlots : \A j \in FreeSlots : i <= j
  BY <1>2, LeastNumber
<1>4. FirstFree \in FreeSlots
  BY <1>3 DEF FirstFree
<1>. QED
  BY <1>2, <1>4 DEF FreeSlots

LEMMA InitIInv == Init => IInv
<1>. SUFFICES ASSUME Init PROVE IInv
  OBVIOUS
<1>1. Taken = {} /\ Serving = {} /\ Cardinality({}) = 0
  BY FS_EmptySet DEF Init, Taken, Serving
<1>2. backlog = <<>> /\ \A f \in FD : conn[f] = NoConn
  BY DEF Init
<1>3. TypeOK
  BY Numbers DEF Init, TypeOK, Points, NoFd
<1>. QED
  BY <1>1, <1>2, <1>3 DEF Init, IInv, ConnectedOnce, SlotsAgree, RoomLeft, OwnDescriptors
-----------------------------------------------------------------------------
\* Steps of clients, and of threads between their start and their close.
LEMMA Frame ==
  ASSUME IInv, UNCHANGED <<backlog, conn, clients, clientsCount, socket>>,
         main' \in {main, "dead"}, pc' \in [Slot -> Points], Serving' \subseteq Serving,
         \A i \in Slot : pc'[i] = "none" <=> pc[i] = "none"
  PROVE  IInv'
<1>1. TypeOK'
  BY DEF IInv, TypeOK
<1>2. ConnectedOnce' /\ RoomLeft'
  BY DEF IInv, ConnectedOnce, RoomLeft
<1>3. SlotsAgree'
  BY DEF IInv, SlotsAgree, Taken
<1>4. OwnDescriptors'
  BY DEF IInv, OwnDescriptors
<1>. QED
  BY <1>1, <1>2, <1>3, <1>4 DEF IInv

LEMMA ConnectIInv == ASSUME IInv, NEW c \in Conn, Connect(c) PROVE IInv'
<1>1. /\ backlog' = Append(backlog, c) /\ ~Known(c) /\ backlog \in Seq(Conn)
      /\ UNCHANGED <<conn, clients, clientsCount, main, socket, pc>>
  BY DEF Connect, IInv, TypeOK, global, threads
<1>2. /\ \A n \in DOMAIN backlog : backlog[n] # c
      /\ \A f \in FD : conn[f] # c
  BY <1>1 DEF Known, Range, IInv, TypeOK
<1>3. TypeOK'
  BY <1>1 DEF IInv, TypeOK
<1>4. /\ DOMAIN backlog' = 1..Len(backlog) + 1 /\ DOMAIN backlog = 1..Len(backlog)
      /\ Len(backlog) \in Nat /\ backlog'[Len(backlog) + 1] = c
      /\ \A n \in DOMAIN backlog : backlog'[n] = backlog[n]
  BY <1>1
<1>5. \A n \in DOMAIN backlog' : n \in DOMAIN backlog \/ n = Len(backlog) + 1
  BY <1>4
<1>6. ConnectedOnce'
  BY <1>1, <1>2, <1>4, <1>5 DEF IInv, ConnectedOnce
<1>7. SlotsAgree' /\ RoomLeft' /\ OwnDescriptors'
  BY <1>1 DEF IInv, SlotsAgree, Taken, RoomLeft, OwnDescriptors, Serving
<1>. QED
  BY <1>3, <1>6, <1>7 DEF IInv

LEMMA LoopIInv == ASSUME IInv, Loop PROVE IInv'
<1>1. /\ UNCHANGED <<backlog, conn, clients, clientsCount, pc>> /\ main = "loop"
      /\ main' \in {"cleanup", "accept"} /\ socket' \in {0, NoFd}
      /\ main' = "accept" => clientsCount < MAX_CLIENTS
  BY DEF Loop, kernel, global, threads
<1>2. TypeOK'
  BY <1>1 DEF IInv, TypeOK, NoFd
<1>. QED
  BY <1>1, <1>2 DEF IInv, ConnectedOnce, SlotsAgree, Taken, RoomLeft, OwnDescriptors, Serving

LEMMA AcceptIInv == ASSUME IInv, Accept PROVE IInv'
<1>. DEFINE f == LowestFree
<1>1. f \in FD /\ conn[f] = NoConn
  BY DescriptorLeft DEF IInv
<1>2. /\ backlog # <<>> /\ backlog \in Seq(Conn) /\ main = "accept" /\ main' = "register"
      /\ conn' = [conn EXCEPT ![f] = Head(backlog)] /\ backlog' = Tail(backlog) /\ socket' = f
      /\ UNCHANGED <<clients, clientsCount, pc>>
  BY DEF Accept, IInv, TypeOK, global, threads
<1>. HIDE DEF f
<1>3. /\ Head(backlog) = backlog[1] /\ 1 \in DOMAIN backlog /\ backlog[1] \in Conn
      /\ \A n \in DOMAIN backlog' : n + 1 \in DOMAIN backlog /\ n + 1 # 1
                                    /\ backlog'[n] = backlog[n + 1]
      /\ DOMAIN backlog' \subseteq Nat
  BY <1>2
<1>4. \A g \in FD : conn'[g] = IF g = f THEN backlog[1] ELSE conn[g]
  BY <1>2, <1>3 DEF IInv, TypeOK
<1>5. TypeOK'
  BY <1>1, <1>2, <1>3, Numbers DEF IInv, TypeOK
<1>6. backlog[1] # NoConn
  BY <1>3, ChatAssumption
<1>7. ConnectedOnce'
  <2>1. \A m, n \in DOMAIN backlog' : backlog'[m] = backlog'[n] => m = n
    BY <1>3 DEF IInv, ConnectedOnce
  <2>2. \A g, h \in FD : conn'[g] # NoConn /\ conn'[g] = conn'[h] => g = h
    BY <1>1, <1>3, <1>4 DEF IInv, ConnectedOnce
  <2>3. \A n \in DOMAIN backlog', g \in FD : conn'[g] # backlog'[n]
    BY <1>3, <1>4 DEF IInv, ConnectedOnce
  <2>. QED
    BY <2>1, <2>2, <2>3 DEF ConnectedOnce
<1>8. SlotsAgree' /\ RoomLeft'
  BY <1>2 DEF IInv, SlotsAgree, Taken, RoomLeft
<1>9. OwnDescriptors'
  <2>1. Serving' = Serving
    BY <1>2 DEF Serving
  <2>2. \A i \in Serving : conn[clients[i]] # NoConn /\ clients[i] # f /\ clients[i] \in FD
    <3>1. \A i \in Serving : i \in Slot /\ clients[i] \in FD
      BY DEF Serving, IInv, SlotsAgree, TypeOK
    <3>2. \A i \in Serving : conn[clients[i]] # NoConn
      BY <1>2 DEF IInv, OwnDescriptors
    <3>. QED
      BY <1>1, <3>1, <3>2
  <2>3. \A i, j \in Serving : clients[i] = clients[j] => i = j
    BY DEF IInv, OwnDescriptors
  <2>. QED
    BY <1>1, <1>2, <1>4, <1>6, <2>1, <2>2, <2>3 DEF OwnDescriptors
<1>. QED
  BY <1>5, <1>7, <1>8, <1>9 DEF IInv

LEMMA RegisterIInv == ASSUME IInv, Register PROVE IInv'
<1>. DEFINE i == FirstFree
<1>1. FreeSlots # {} /\ i \in Slot /\ clients[i] = NoFd
  BY SlotLeft DEF IInv, RoomLeft, Register
<1>2. /\ main = "register" /\ main' = "loop" /\ UNCHANGED <<backlog, conn, socket>>
      /\ clients' = [clients EXCEPT ![i] = socket] /\ clientsCount' = clientsCount + 1
      /\ pc' = [pc EXCEPT ![i] = "top"]
  BY <1>1 DEF Register, kernel, Goto
<1>. HIDE DEF i
<1>3. socket \in FD /\ conn[socket] # NoConn /\ \A j \in Serving : clients[j] # socket
  BY <1>2 DEF IInv, OwnDescriptors
<1>4. TypeOK'
  <2>1. clients' \in [Slot -> FD \union {NoFd}]
    BY <1>2, <1>3 DEF IInv, TypeOK
  <2>2. pc' \in [Slot -> Points]
    BY <1>2 DEF IInv, TypeOK, Points
  <2>. QED
    BY <1>2, <2>1, <2>2 DEF IInv, TypeOK
<1>5. ConnectedOnce' /\ RoomLeft'
  BY <1>2 DEF IInv, ConnectedOnce, RoomLeft
<1>6. \A j \in Slot : /\ clients'[j] = IF j = i THEN socket ELSE clients[j]
                      /\ pc'[j] = IF j = i THEN "top" ELSE pc[j]
  BY <1>2 DEF IInv, TypeOK
<1>7. SlotsAgree'
  <2>1. Taken' = Taken \union {i} /\ i \notin Taken
    BY <1>1, <1>3, <1>6, Numbers DEF Taken
  <2>2. IsFiniteSet(Taken)
    BY Numbers, FS_Subset DEF Taken
  <2>3. Cardinality(Taken') = Cardinality(Taken) + 1
    BY <2>1, <2>2, FS_AddElement
  <2>4. \A j \in Slot : pc'[j] = "none" <=> clients'[j] = NoFd
    BY <1>3, <1>6, Numbers DEF IInv, SlotsAgree
  <2>. QED
    BY <1>2, <2>3, <2>4 DEF IInv, SlotsAgree
<1>8. OwnDescriptors'
  <2>1. Serving' = Serving \union {i} /\ i \notin Serving
    BY <1>1, <1>6 DEF Serving, IInv, SlotsAgree
  <2>2. \A j \in Serving : clients'[j] = clients[j] /\ j # i
    BY <1>6, <2>1 DEF Serving
  <2>3. clients'[i] = socket
    BY <1>1, <1>6
  <2>. QED
    BY <1>2, <1>3, <2>1, <2>2, <2>3 DEF IInv, OwnDescriptors
<1>. QED
  BY <1>4, <1>5, <1>7, <1>8 DEF IInv

LEMMA CleanupIInv == ASSUME IInv, Cleanup PROVE IInv'
<1>1. /\ main = "cleanup" /\ main' \in {"cleanup", "exited"} /\ socket' = socket + 1
      /\ UNCHANGED <<backlog, clients, clientsCount, pc>>
      /\ \/ conn' = conn
         \/ \E f : conn' = [conn EXCEPT ![f] = NoConn]
  BY DEF Cleanup, global, threads
<1>2. /\ conn' \in [FD -> Conn \union {NoConn}]
      /\ \A g \in FD : conn'[g] \in {conn[g], NoConn}
  BY <1>1 DEF IInv, TypeOK
<1>3. TypeOK'
  BY <1>1, <1>2 DEF IInv, TypeOK
<1>4. ConnectedOnce'
  <2>1. \A n \in DOMAIN backlog : backlog[n] # NoConn
    BY ChatAssumption DEF IInv, TypeOK
  <2>. QED
    BY <1>1, <1>2, <2>1 DEF IInv, ConnectedOnce
<1>. QED
  BY <1>1, <1>3, <1>4 DEF IInv, SlotsAgree, Taken, RoomLeft, OwnDescriptors, Serving

LEMMA CloseIInv == ASSUME IInv, NEW i \in Slot, Close(i) PROVE IInv'
<1>1. /\ pc[i] = "close" /\ conn' = [conn EXCEPT ![clients[i]] = NoConn]
      /\ pc' = [pc EXCEPT ![i] = "leave"]
      /\ UNCHANGED <<backlog, clients, clientsCount, main, socket>>
  BY DEF Close, Goto, global
<1>2. i \in Serving /\ clients[i] \in FD
  BY <1>1 DEF Serving, IInv, SlotsAgree, TypeOK
<1>3. /\ conn' \in [FD -> Conn \union {NoConn}]
      /\ \A g \in FD : conn'[g] = IF g = clients[i] THEN NoConn ELSE conn[g]
  BY <1>1 DEF IInv, TypeOK
<1>4. /\ pc' \in [Slot -> Points]
      /\ \A j \in Slot : pc'[j] = IF j = i THEN "leave" ELSE pc[j]
  BY <1>1 DEF IInv, TypeOK, Points
<1>5. TypeOK'
  BY <1>1, <1>3, <1>4 DEF IInv, TypeOK
<1>6. ConnectedOnce'
  <2>1. \A n \in DOMAIN backlog : backlog[n] # NoConn
    BY ChatAssumption DEF IInv, TypeOK
  <2>. QED
    BY <1>1, <1>3, <2>1 DEF IInv, ConnectedOnce
<1>7. SlotsAgree' /\ RoomLeft'
  BY <1>1, <1>4 DEF IInv, SlotsAgree, Taken, RoomLeft
<1>8. OwnDescriptors'
  <2>1. Serving' = Serving \ {i}
    BY <1>4 DEF Serving
  <2>2. \A j \in Serving \ {i} : clients[j] \in FD /\ clients[j] # clients[i]
    <3>1. \A j \in Serving : clients[j] \in FD
      BY DEF Serving, IInv, SlotsAgree, TypeOK
    <3>2. \A j \in Serving : clients[j] = clients[i] => j = i
      BY <1>2 DEF IInv, OwnDescriptors
    <3>. QED
      BY <3>1, <3>2
  <2>. QED
    BY <1>1, <1>2, <1>3, <2>1, <2>2 DEF IInv, OwnDescriptors
<1>. QED
  BY <1>5, <1>6, <1>7, <1>8 DEF IInv

LEMMA LeaveIInv == ASSUME IInv, NEW i \in Slot, Leave(i) PROVE IInv'
<1>1. /\ pc[i] = "leave" /\ clients' = [clients EXCEPT ![i] = NoFd]
      /\ clientsCount' = clientsCount - 1 /\ pc' = [pc EXCEPT ![i] = "none"]
      /\ UNCHANGED <<backlog, conn, main, socket>>
  BY DEF Leave, Goto, kernel
<1>2. /\ clients' \in [Slot -> FD \union {NoFd}]
      /\ \A j \in Slot : clients'[j] = IF j = i THEN NoFd ELSE clients[j]
  BY <1>1 DEF IInv, TypeOK
<1>3. /\ pc' \in [Slot -> Points]
      /\ \A j \in Slot : pc'[j] = IF j = i THEN "none" ELSE pc[j]
  BY <1>1 DEF IInv, TypeOK, Points
<1>4. TypeOK'
  BY <1>1, <1>2, <1>3 DEF IInv, TypeOK
<1>5. ConnectedOnce'
  BY <1>1 DEF IInv, ConnectedOnce
<1>6. SlotsAgree'
  <2>1. Taken' = Taken \ {i} /\ i \in Taken
    BY <1>1, <1>2 DEF Taken, IInv, SlotsAgree
  <2>2. IsFiniteSet(Taken)
    BY Numbers, FS_Subset DEF Taken
  <2>3. Cardinality(Taken') = Cardinality(Taken) - 1
    BY <2>1, <2>2, FS_RemoveElement
  <2>. QED
    BY <1>1, <1>2, <1>3, <2>3 DEF IInv, SlotsAgree
<1>7. RoomLeft'
  <2>1. clientsCount \in Int /\ MAX_CLIENTS \in Nat
    BY Numbers DEF IInv, TypeOK
  <2>. QED
    BY <1>1, <2>1 DEF IInv, RoomLeft
<1>8. OwnDescriptors'
  <2>1. Serving' = Serving /\ \A j \in Serving : clients'[j] = clients[j]
    BY <1>1, <1>2, <1>3 DEF Serving
  <2>. QED
    BY <1>1, <2>1 DEF IInv, OwnDescriptors
<1>. QED
  BY <1>4, <1>5, <1>6, <1>7, <1>8 DEF IInv

LEMMA NextIInv == IInv /\ [Next]_vars => IInv'
<1>. SUFFICES ASSUME IInv, [Next]_vars PROVE IInv'
  OBVIOUS
<1>0. pc \in [Slot -> Points]
  BY DEF IInv, TypeOK
<1>1. ASSUME NEW c \in Conn, ClientSends(c) \/ ClientReads(c) \/ HangUp(c) PROVE IInv'
  BY <1>0, <1>1, Frame DEF ClientSends, ClientReads, HangUp, kernel, global, threads, Serving
<1>2. ASSUME Interrupt PROVE IInv'
  BY <1>0, <1>2, Frame DEF Interrupt, kernel, threads, Serving
<1>3. ASSUME NEW i \in Slot, NEW p \in Points \ {"none", "leave"},
             pc[i] \notin {"none", "leave"}, pc' = [pc EXCEPT ![i] = p] \/ pc' = pc,
             UNCHANGED <<backlog, conn, clients, clientsCount, socket, main>>
      PROVE  IInv'
  <2>1. /\ pc' \in [Slot -> Points] /\ Serving' \subseteq Serving
        /\ \A j \in Slot : pc'[j] = "none" <=> pc[j] = "none"
    BY <1>0, <1>3 DEF Serving
  <2>. QED
    BY <1>3, <2>1, Frame
<1>4. ASSUME NEW i \in Slot,
             Top(i) \/ Recv(i) \/ LockWrite(i) \/ SendSize(i) \/ SendText(i) \/ UnlockWrite(i)
      PROVE  IInv'
  <2>1. CASE Top(i)
    BY <1>3, <2>1 DEF Top, Goto, kernel, global, Points
  <2>2. CASE Recv(i)
    BY <1>3, <2>2 DEF Recv, Goto, global, Points
  <2>3. CASE LockWrite(i)
    BY <1>3, <2>3 DEF LockWrite, Goto, kernel, Points
  <2>4. CASE SendSize(i)
    BY <1>3, <2>4 DEF SendSize, Goto, kernel, global, Points
  <2>5. CASE UnlockWrite(i)
    BY <1>3, <2>5 DEF UnlockWrite, Goto, kernel, Points
  <2>6. CASE SendText(i)
    BY <1>3, <2>6 DEF SendText, Goto, global, Points
  <2>. QED
    BY <1>4, <2>1, <2>2, <2>3, <2>4, <2>5, <2>6
<1>5. CASE UNCHANGED vars
  BY <1>0, <1>5, Frame DEF vars, kernel, global, threads, Serving
<1>. QED
  BY <1>1, <1>2, <1>4, <1>5, ConnectIInv, LoopIInv, AcceptIInv, RegisterIInv, CleanupIInv,
     CloseIInv, LeaveIInv DEF Next, MainStep, ThreadStep

(* No client is accepted without a slot being free, for any number of them.   *)
THEOREM AcceptedCorrect == Spec => []AcceptedGetsSlot
<1>1. IInv => AcceptedGetsSlot
  BY SlotLeft DEF IInv, RoomLeft, AcceptedGetsSlot
<1>. QED
  BY <1>1, InitIInv, NextIInv, PTL DEF Spec

(* Threads have their descriptors to themselves until they close them.        *)
THEOREM DescriptorsCorrect == Spec => []DescriptorsAreOwn
<1>1. IInv => DescriptorsAreOwn
  BY DEF IInv, OwnDescriptors, DescriptorsAreOwn
<1>. QED
  BY <1>1, InitIInv, NextIInv, PTL DEF Spec
-----------------------------------------------------------------------------
(* Broadcasts.  The mutex is held from the first client to the last, so that *)
(* nobody joins meanwhile; the descriptors of threads that serve do not move. *)
Texts == {<<>>} \union (Conn \X Nat)

TextsOK == /\ sent \in [Conn -> Nat] /\ unread \in [Conn -> Seq(Texts)]
           /\ got \in [Conn -> Seq(Texts)]
           /\ msg \in [Slot -> Texts] /\ next \in [Slot -> Nat]
           /\ sized \in [Slot -> Conn \union {NoConn}]

WriterHasMutex == \A i \in Slot : pc[i] \in Writing => mutex = i

Has(i, c) == c = NoConn \/ c \in hung \/ c \in shut \/ c \in headless \/ msg[i] \in Range(got[c])
Delivered == \A i \in Slot : pc[i] \in Writing =>
                 \A j \in Serving : j < next[i] => Has(i, conn[clients[j]])

\* Between the size and the text, a slot that serves keeps its connection.
SizeThenText == \A i \in Slot : pc[i] = "text" =>
                    \A j \in Serving : j = next[i] => conn[clients[j]] \in {NoConn, sized[i]}

BInv == IInv /\ TextsOK /\ WriterHasMutex /\ Delivered /\ SizeThenText

LEMMA Written == ASSUME NEW s \in Seq(Texts), NEW t \in Texts
                 PROVE  /\ Range(s) \subseteq Range(Append(s, t)) /\ t \in Range(Append(s, t))
<1>1. /\ DOMAIN s = 1..Len(s) /\ Len(s) \in Nat /\ DOMAIN Append(s, t) = 1..(Len(s) + 1)
      /\ Append(s, t)[Len(s) + 1] = t
      /\ \A n \in DOMAIN s : Append(s, t)[n] = s[n]
  OBVIOUS
<1>2. Len(s) + 1 \in DOMAIN Append(s, t) /\ DOMAIN s \subseteq DOMAIN Append(s, t)
  BY <1>1
<1>. QED
  BY <1>1, <1>2 DEF Range

LEMMA InitBInv == Init => BInv
<1>. SUFFICES ASSUME Init PROVE BInv
  OBVIOUS
<1>1. TextsOK
  BY Numbers DEF Init, TextsOK, Texts
<1>2. \A i \in Slot : pc[i] \notin Writing /\ pc[i] # "text"
  BY DEF Init, Writing
<1>. QED
  BY <1>1, <1>2, InitIInv DEF BInv, WriterHasMutex, Delivered, SizeThenText

\* What the next slot stands for.
LEMMA ReachedIs ==
  ASSUME BInv, NEW i \in Slot
  PROVE  /\ Reached(i) \in Conn \union {NoConn}
         /\ next[i] \in Serving => LET c == conn[clients[next[i]]]
                                   IN  \/ Reached(i) = c
                                       \/ Reached(i) = NoConn /\ c \in hung \union shut
<1>. DEFINE f == IF next[i] \in Slot THEN clients[next[i]] ELSE NoFd
<1>1. f \in FD \union {NoFd} /\ conn \in [FD -> Conn \union {NoConn}]
  BY DEF BInv, IInv, TypeOK
<1>2. next[i] \in Serving => next[i] \in Slot /\ clients[next[i]] # NoFd
  BY DEF Serving, BInv, IInv, SlotsAgree
<1>. QED
  BY <1>1, <1>2 DEF Reached

\* Every action keeps the types of the messages.
LEMMA NextTexts == ASSUME BInv, [Next]_vars PROVE TextsOK'
<1>. USE DEF TextsOK
<1>0. TextsOK /\ conn \in [FD -> Conn \union {NoConn}] /\ NoConn \notin Conn
      /\ <<>> \in Texts /\ \A c \in Conn, n \in Nat : <<c, n>> \in Texts
  BY ChatAssumption DEF BInv, IInv, TypeOK, Texts
<1>1. ASSUME NEW c \in Conn, Connect(c) \/ ClientReads(c) \/ HangUp(c) PROVE TextsOK'
  BY <1>0, <1>1 DEF Connect, ClientReads, HangUp, client, kernel, global, threads, stream
<1>2. ASSUME NEW c \in Conn, ClientSends(c) PROVE TextsOK'
  <2>1. /\ sent' = [sent EXCEPT ![c] = @ + 1] /\ UNCHANGED <<got, msg, next, sized>>
        /\ unread' = [unread EXCEPT ![c] = Append(@, <<c, sent[c] + 1>>)]
    BY <1>2 DEF ClientSends, threads, stream
  <2>2. sent[c] + 1 \in Nat /\ <<c, sent[c] + 1>> \in Texts /\ unread[c] \in Seq(Texts)
    BY <1>0
  <2>. DEFINE t == <<c, sent[c] + 1>>
  <2>. HIDE DEF t
  <2>3. Append(unread[c], t) \in Seq(Texts)
    BY <2>2 DEF t
  <2>4. unread' = [unread EXCEPT ![c] = Append(unread[c], t)]
    BY <2>1 DEF t
  <2>. QED
    BY <1>0, <2>1, <2>3, <2>4
<1>3. ASSUME Interrupt \/ MainStep PROVE TextsOK'
  BY <1>0, <1>3 DEF Interrupt, MainStep, Loop, Accept, Register, Cleanup, client, kernel, global, threads, stream
<1>4. ASSUME NEW i \in Slot, Recv(i) PROVE TextsOK'
  <2>. DEFINE c == conn[clients[i]]
  <2>1. /\ UNCHANGED <<sent, got, next, sized>>
        /\ \/ /\ c # NoConn /\ unread[c] # <<>>
              /\ msg' = [msg EXCEPT ![i] = Head(unread[c])]
              /\ unread' = [unread EXCEPT ![c] = Tail(unread[c])]
           \/ UNCHANGED <<msg, unread>>
    BY <1>4 DEF Recv, client, stream
  <2>2. pc[i] = "recv"
    BY <1>4 DEF Recv
  <2>3. clients[i] \in FD
    BY <2>2 DEF BInv, IInv, SlotsAgree, TypeOK
  <2>4. c \in Conn \union {NoConn}
    BY <1>0, <2>3
  <2>. HIDE DEF c
  <2>5. ASSUME c \in Conn, unread[c] # <<>>
        PROVE  Head(unread[c]) \in Texts /\ Tail(unread[c]) \in Seq(Texts)
    <3>1. unread[c] \in Seq(Texts)
      BY <1>0, <2>5
    <3>. QED
      BY <2>5, <3>1
  <2>6. CASE c \in Conn /\ unread[c] # <<>>
    BY <1>0, <2>1, <2>5, <2>6
  <2>. QED
    BY <1>0, <2>1, <2>4, <2>6
<1>5. ASSUME NEW i \in Slot, SendText(i) PROVE TextsOK'
  <2>1. /\ UNCHANGED <<sent, unread, msg>> /\ next' = [next EXCEPT ![i] = @ + 1]
        /\ \/ got' = got
           \/ /\ Reached(i) # NoConn
              /\ got' = [got EXCEPT ![Reached(i)] = Append(@, msg[i])]
        /\ sized' = [sized EXCEPT ![i] = NoConn]
    BY <1>5 DEF SendText, client
  <2>2. PICK c \in Conn \union {NoConn} : c = Reached(i)
    BY ReachedIs
  <2>3. ASSUME c \in Conn PROVE Append(got[c], msg[i]) \in Seq(Texts)
    <3>1. got[c] \in Seq(Texts) /\ msg[i] \in Texts
      BY <1>0, <2>3
    <3>. QED
      BY <3>1
  <2>4. next' \in [Slot -> Nat] /\ msg' \in [Slot -> Texts]
    BY <1>0, <2>1
  <2>5. got' \in [Conn -> Seq(Texts)]
    BY <1>0, <2>1, <2>2, <2>3
  <2>. QED
    BY <1>0, <2>1, <2>4, <2>5
<1>6. ASSUME NEW i \in Slot, SendSize(i) PROVE TextsOK'
  <2>1. /\ UNCHANGED <<sent, unread, msg, got>>
        /\ next' = next \/ next' = [next EXCEPT ![i] = @ + 1]
        /\ sized' = sized \/ sized' = [sized EXCEPT ![i] = Reached(i)]
    BY <1>6 DEF SendSize, client, kernel
  <2>2. next' \in [Slot -> Nat]
    BY <1>0, <2>1
  <2>3. PICK c \in Conn \union {NoConn} : c = Reached(i)
    BY ReachedIs
  <2>4. sized' \in [Slot -> Conn \union {NoConn}]
    BY <1>0, <2>1, <2>3
  <2>. QED
    BY <1>0, <2>1, <2>2, <2>4
<1>7. ASSUME NEW i \in Slot, Top(i) \/ LockWrite(i) \/ UnlockWrite(i) \/ Close(i) \/ Leave(i)
      PROVE  TextsOK'
  <2>1. UNCHANGED <<sent, unread, got, sized>>
    BY <1>7 DEF Top, LockWrite, UnlockWrite, Close, Leave, client, kernel, stream
  <2>2. msg' = msg \/ msg' = [msg EXCEPT ![i] = <<>>]
    BY <1>7 DEF Top, LockWrite, UnlockWrite, Close, Leave
  <2>3. next' \in [Slot -> Nat]
    <3>1. next' = next \/ next' = [next EXCEPT ![i] = 0]
      BY <1>7 DEF Top, LockWrite, UnlockWrite, Close, Leave
    <3>2. next \in [Slot -> Nat]
      BY <1>0
    <3>. QED
      BY <3>1, <3>2
  <2>. DEFINE nothing == <<>>
  <2>4. nothing \in Texts /\ (msg' = msg \/ msg' = [msg EXCEPT ![i] = nothing])
    BY <1>0, <2>2
  <2>. HIDE DEF nothing
  <2>5. msg' \in [Slot -> Texts]
    BY <1>0, <2>4
  <2>. QED
    BY <1>0, <2>1, <2>3, <2>5
<1>8. CASE UNCHANGED vars
  BY <1>0, <1>8 DEF vars, client, kernel, threads, stream
<1>. QED
  BY <1>1, <1>2, <1>3, <1>4, <1>5, <1>7, <1>8, <1>6 DEF Next, ThreadStep

LEMMA NextWriter == ASSUME BInv, [Next]_vars PROVE WriterHasMutex'
<1>0. /\ pc \in [Slot -> Points] /\ \A i \in Slot : pc[i] \in Writing => mutex = i
      /\ Nobody \notin Slot
  BY Numbers DEF BInv, IInv, TypeOK, WriterHasMutex, Nobody
<1>1. ASSUME pc' = pc, mutex' = mutex PROVE WriterHasMutex'
  BY <1>0, <1>1 DEF WriterHasMutex
<1>2. ASSUME NEW c \in Conn, Connect(c) \/ ClientSends(c) \/ ClientReads(c) \/ HangUp(c)
      PROVE  WriterHasMutex'
  BY <1>1, <1>2 DEF Connect, ClientSends, ClientReads, HangUp, global, threads
<1>3. ASSUME Interrupt \/ Loop \/ Accept \/ Cleanup \/ UNCHANGED vars PROVE WriterHasMutex'
  BY <1>1, <1>3 DEF Interrupt, Loop, Accept, Cleanup, vars, global, threads
<1>4. ASSUME NEW i \in Slot, NEW p \in Points \ Writing, mutex' = mutex,
             pc' = [pc EXCEPT ![i] = p]
      PROVE  WriterHasMutex'
  BY <1>0, <1>4 DEF WriterHasMutex
<1>5. CASE Register
  <2>1. mutex' = mutex /\ (pc' = pc \/ pc' = [pc EXCEPT ![FirstFree] = "top"])
    BY <1>5 DEF Register, Goto, threads
  <2>. QED
    BY <1>0, <2>1 DEF WriterHasMutex, Writing
<1>6. ASSUME NEW i \in Slot, Top(i) \/ Recv(i) \/ Close(i) \/ Leave(i) PROVE WriterHasMutex'
  <2>1. mutex' = mutex /\ \E p \in Points \ Writing : pc' = [pc EXCEPT ![i] = p]
    BY <1>6 DEF Top, Recv, Close, Leave, Goto, global, Points, Writing
  <2>. QED
    BY <2>1, <1>4
<1>7. ASSUME NEW i \in Slot, LockWrite(i) PROVE WriterHasMutex'
  BY <1>0, <1>7 DEF LockWrite, Goto, WriterHasMutex, Writing
<1>8. ASSUME NEW i \in Slot, SendSize(i) \/ SendText(i) PROVE WriterHasMutex'
  <2>1. /\ mutex' = mutex /\ pc[i] \in Writing
        /\ pc' = pc \/ \E p \in Points : pc' = [pc EXCEPT ![i] = p]
    BY <1>8 DEF SendSize, SendText, Goto, global, Writing, Points
  <2>. QED
    BY <1>0, <2>1 DEF WriterHasMutex
<1>9. ASSUME NEW i \in Slot, UnlockWrite(i) PROVE WriterHasMutex'
  BY <1>0, <1>9 DEF UnlockWrite, Goto, WriterHasMutex, Writing
<1>. QED
  BY <1>2, <1>3, <1>5, <1>6, <1>7, <1>8, <1>9 DEF Next, MainStep, ThreadStep

\* Steps that write nothing and start no thread.
LEMMA FrameDelivered ==
  ASSUME BInv, TextsOK', Serving' \subseteq Serving, UNCHANGED got,
         hung \subseteq hung', shut \subseteq shut', headless' = headless,
         \A j \in Serving' : /\ clients'[j] = clients[j]
                            /\ conn'[clients[j]] \in {conn[clients[j]], NoConn},
         \A i \in Slot : pc'[i] \in Writing =>
                            \/ /\ pc[i] = pc'[i] /\ msg'[i] = msg[i] /\ next'[i] = next[i]
                               /\ sized'[i] = sized[i]
                            \/ pc'[i] = "send" /\ next'[i] = 0
  PROVE  Delivered' /\ SizeThenText'
<1>1. ASSUME NEW i \in Slot, pc'[i] \in Writing, NEW j \in Serving', j < next'[i]
      PROVE  Has(i, conn[clients[j]])'
  <2>1. j \in Nat /\ j \in Serving
    BY <1>1, Numbers DEF Serving
  <2>2. pc[i] \in Writing /\ msg'[i] = msg[i] /\ next'[i] = next[i]
    BY <1>1, <2>1
  <2>3. Has(i, conn[clients[j]])
    BY <1>1, <2>1, <2>2 DEF BInv, Delivered
  <2>. QED
    BY <1>1, <2>1, <2>2, <2>3 DEF Has
<1>2. ASSUME NEW i \in Slot, pc'[i] = "text", NEW j \in Serving', j = next'[i]
      PROVE  conn'[clients'[j]] \in {NoConn, sized'[i]}
  <2>1. pc[i] = "text" /\ next'[i] = next[i] /\ sized'[i] = sized[i]
    BY <1>2 DEF Writing
  <2>2. conn[clients[j]] \in {NoConn, sized[i]}
    BY <1>2, <2>1 DEF BInv, SizeThenText
  <2>. QED
    BY <1>2, <2>1, <2>2
<1>. QED
  BY <1>1, <1>2 DEF Delivered, SizeThenText

LEMMA RegisterDelivered == ASSUME BInv, Register PROVE Delivered' /\ SizeThenText'
<1>1. /\ \A i \in Slot : pc[i] \notin Writing
      /\ pc' = pc \/ pc' = [pc EXCEPT ![FirstFree] = "top"]
      /\ pc \in [Slot -> Points]
  BY Numbers DEF Register, Goto, threads, BInv, WriterHasMutex, Nobody, IInv, TypeOK
<1>2. \A i \in Slot : pc'[i] \notin Writing /\ pc'[i] # "text"
  BY <1>1 DEF Writing
<1>. QED
  BY <1>2 DEF Delivered, SizeThenText

LEMMA AcceptDelivered ==
  ASSUME BInv, TextsOK', Accept PROVE Delivered' /\ SizeThenText'
<1>1. LowestFree \in FD /\ conn[LowestFree] = NoConn
  BY DescriptorLeft DEF BInv, IInv
<1>2. /\ UNCHANGED <<hung, shut, got, clients, pc, msg, next, sized, headless>>
      /\ main = "accept"
      /\ conn' = [conn EXCEPT ![LowestFree] = Head(backlog)]
  BY DEF Accept, client, global, threads, stream
<1>3. Serving' = Serving
  BY <1>2 DEF Serving
<1>4. \A j \in Serving : conn[clients[j]] # NoConn
  BY <1>2 DEF BInv, IInv, OwnDescriptors
<1>5. \A j \in Serving : conn'[clients[j]] = conn[clients[j]]
  BY <1>1, <1>2, <1>4 DEF BInv, IInv, TypeOK
<1>. QED
  BY <1>2, <1>3, <1>5, FrameDelivered

LEMMA CleanupDelivered ==
  ASSUME BInv, TextsOK', Cleanup PROVE Delivered' /\ SizeThenText'
<1>1. /\ UNCHANGED <<hung, got, clients, pc, msg, next, sized, headless>> /\ shut \subseteq shut'
      /\ conn' = conn \/ \E f : conn' = [conn EXCEPT ![f] = NoConn]
  BY DEF Cleanup, client, global, threads, stream
<1>2. Serving' = Serving /\ \A j \in Serving : clients[j] \in FD
  BY <1>1 DEF Serving, BInv, IInv, SlotsAgree, TypeOK
<1>3. \A f \in FD : conn'[f] \in {conn[f], NoConn}
  BY <1>1 DEF BInv, IInv, TypeOK
<1>. QED
  BY <1>1, <1>2, <1>3, FrameDelivered

\* The size goes to the connection of the slot, or nobody can be reached there.
LEMMA SendSizeDelivered ==
  ASSUME BInv, TextsOK', NEW i \in Slot, SendSize(i) PROVE Delivered' /\ SizeThenText'
<1>. DEFINE c == Reached(i)
<1>1. /\ pc[i] = "send"
      /\ UNCHANGED <<hung, shut, conn, clients, got, msg, headless>>
      /\ \/ c = NoConn /\ next' = [next EXCEPT ![i] = @ + 1] /\ UNCHANGED <<pc, sized>>
         \/ c # NoConn /\ sized' = [sized EXCEPT ![i] = c] /\ pc' = [pc EXCEPT ![i] = "text"]
            /\ UNCHANGED next
  BY DEF SendSize, Goto, client, kernel, global
<1>2. /\ pc \in [Slot -> Points] /\ next \in [Slot -> Nat]
      /\ \A k \in Slot : pc[k] \in Writing => k = i
      /\ i \in DOMAIN sized
  <2>1. \A k \in Slot : pc[k] \in Writing => k = i
    BY <1>1 DEF BInv, WriterHasMutex, Writing
  <2>. QED
    BY <2>1 DEF BInv, TextsOK, IInv, TypeOK
<1>3. next[i] \in Serving => LET d == conn[clients[next[i]]]
                             IN  c = d \/ (c = NoConn /\ d \in hung \union shut)
  BY ReachedIs
<1>. HIDE DEF c
<1>4. CASE c = NoConn /\ next' = [next EXCEPT ![i] = @ + 1] /\ UNCHANGED <<pc, sized>>
  <2>1. next'[i] = next[i] + 1 /\ Serving' = Serving /\ \A k \in Slot : pc[k] # "text"
    BY <1>1, <1>2, <1>4 DEF Serving, Writing
  <2>2. ASSUME NEW j \in Serving, j < next'[i] PROVE Has(i, conn[clients[j]])'
    <3>1. j \in Nat
      BY Numbers DEF Serving
    <3>2. CASE j = next[i]
      BY <1>1, <1>3, <1>4, <3>2 DEF Has
    <3>3. CASE j # next[i]
      <4>1. j < next[i]
        BY <1>2, <2>1, <2>2, <3>1, <3>3
      <4>2. Has(i, conn[clients[j]])
        BY <1>1, <4>1 DEF BInv, Delivered, Writing
      <4>. QED
        BY <1>1, <4>2 DEF Has
    <3>. QED
      BY <3>2, <3>3
  <2>. QED
    BY <1>2, <1>4, <2>1, <2>2 DEF Delivered, SizeThenText
<1>5. CASE /\ c # NoConn /\ sized' = [sized EXCEPT ![i] = c] /\ pc' = [pc EXCEPT ![i] = "text"]
           /\ UNCHANGED next
  <2>1. /\ \A k \in Slot : pc'[k] = IF k = i THEN "text" ELSE pc[k]
        /\ Serving' = Serving /\ sized'[i] = c
    BY <1>1, <1>2, <1>5 DEF Serving
  <2>2. \A k \in Slot : pc'[k] \in Writing => k = i
    BY <1>2, <2>1
  <2>3. ASSUME NEW j \in Serving, j < next[i] PROVE Has(i, conn[clients[j]])'
    <3>1. Has(i, conn[clients[j]])
      BY <1>1, <2>3 DEF BInv, Delivered, Writing
    <3>. QED
      BY <1>1, <3>1 DEF Has
  <2>4. Delivered'
    BY <1>5, <2>1, <2>2, <2>3 DEF Delivered
  <2>5. SizeThenText'
    BY <1>1, <1>3, <1>5, <2>1, <2>2 DEF SizeThenText, Writing
  <2>. QED
    BY <2>4, <2>5
<1>. QED
  BY <1>1, <1>4, <1>5

\* A client that is not gone has the message after its turn.
LEMMA SendTextDelivered ==
  ASSUME BInv, TextsOK', NEW i \in Slot, SendText(i) PROVE Delivered' /\ SizeThenText'
<1>. DEFINE c == Reached(i)
<1>1. /\ pc[i] = "text" /\ UNCHANGED <<hung, shut, conn, clients, msg>>
      /\ headless \subseteq headless'
      /\ next' = [next EXCEPT ![i] = @ + 1] /\ pc' = [pc EXCEPT ![i] = "send"]
      /\ got' = IF c = NoConn THEN got ELSE [got EXCEPT ![c] = Append(@, msg[i])]
  BY DEF SendText, Goto, client, global
<1>2. c \in Conn \union {NoConn} /\ msg[i] \in Texts /\ next[i] \in Nat
  BY ReachedIs DEF BInv, TextsOK, IInv, TypeOK
<1>3. \A j \in Serving : /\ j \in Slot /\ conn[clients[j]] \in Conn \union {NoConn}
  BY DEF Serving, BInv, IInv, SlotsAgree, TypeOK
<1>4. next[i] \in Serving => LET d == conn[clients[next[i]]]
                             IN  c = d \/ (c = NoConn /\ d \in hung \union shut)
  BY ReachedIs
<1>. HIDE DEF c
<1>5. \A d \in Conn : Range(got[d]) \subseteq Range(got'[d])
  BY <1>1, <1>2, Written DEF BInv, TextsOK
<1>6. c # NoConn => c \in Conn /\ msg[i] \in Range(got'[c])
  BY <1>1, <1>2, Written DEF BInv, TextsOK
<1>7. \A k \in Slot : pc'[k] \in Writing => k = i
  <2>1. \A k \in Slot : pc[k] \in Writing => k = i
    BY <1>1 DEF BInv, WriterHasMutex, Writing
  <2>. QED
    BY <1>1, <2>1 DEF BInv, IInv, TypeOK
<1>8. next'[i] = next[i] + 1 /\ Serving' = Serving /\ pc'[i] # "text"
  BY <1>1, <1>2 DEF BInv, TextsOK, Serving, IInv, TypeOK
<1>9. ASSUME NEW j \in Serving, j < next'[i] PROVE Has(i, conn[clients[j]])'
  <2>1. j \in Nat
    BY Numbers, <1>3
  <2>2. CASE j = next[i]
    BY <1>1, <1>4, <1>6, <2>2 DEF Has
  <2>3. CASE j # next[i]
    <3>1. j < next[i]
      BY <1>2, <1>8, <1>9, <2>1, <2>3
    <3>2. Has(i, conn[clients[j]])
      BY <1>1, <3>1 DEF BInv, Delivered, Writing
    <3>. QED
      BY <1>1, <1>3, <1>5, <3>2 DEF Has
  <2>. QED
    BY <2>2, <2>3
<1>. QED
  BY <1>7, <1>8, <1>9 DEF Delivered, SizeThenText, Writing

LEMMA NextDelivered == ASSUME BInv, TextsOK', [Next]_vars PROVE Delivered' /\ SizeThenText'
<1>0. /\ pc \in [Slot -> Points] /\ conn \in [FD -> Conn \union {NoConn}]
      /\ msg \in [Slot -> Texts] /\ next \in [Slot -> Nat]
      /\ clients \in [Slot -> FD \union {NoFd}] /\ \A j \in Serving : clients[j] \in FD
  BY DEF Serving, BInv, TextsOK, IInv, SlotsAgree, TypeOK
<1>1. ASSUME NEW c \in Conn, Connect(c) \/ ClientSends(c) \/ ClientReads(c) \/ HangUp(c)
      PROVE  Delivered' /\ SizeThenText'
  <2>1. UNCHANGED <<shut, conn, got, clients, pc, msg, next, sized, headless>> /\ hung \subseteq hung'
    BY <1>1 DEF Connect, ClientSends, ClientReads, HangUp, client, kernel, global, threads, stream
  <2>. QED
    BY <2>1, FrameDelivered DEF Serving
<1>2. ASSUME Interrupt \/ Loop \/ UNCHANGED vars
      PROVE  Delivered' /\ SizeThenText'
  <2>1. UNCHANGED <<hung, shut, conn, got, clients, pc, msg, next, sized, headless>>
    BY <1>2 DEF Interrupt, Loop, vars, client, kernel, global, threads, stream
  <2>. QED
    BY <2>1, FrameDelivered DEF Serving
\* The thread goes from one of the points where it serves to another.
<1>3. ASSUME NEW i \in Slot, NEW p \in Points, pc[i] \notin {"none", "leave"},
             pc' = [pc EXCEPT ![i] = p], UNCHANGED <<hung, shut, got, clients, sized, headless>>,
             p # "text", p = "send" => next'[i] = 0,
             \A k \in Slot \ {i} : msg'[k] = msg[k] /\ next'[k] = next[k],
             conn' = conn \/ (p = "leave" /\ conn' = [conn EXCEPT ![clients[i]] = NoConn])
      PROVE  Delivered' /\ SizeThenText'
  <2>1. \A k \in Slot : pc'[k] = IF k = i THEN p ELSE pc[k]
    BY <1>0, <1>3
  <2>2. Serving' \subseteq Serving
    BY <1>3, <2>1 DEF Serving
  <2>3. \A j \in Serving' : conn'[clients[j]] \in {conn[clients[j]], NoConn}
    BY <1>0, <1>3, <2>2
  <2>4. \A k \in Slot : pc'[k] \in Writing =>
            \/ /\ pc[k] = pc'[k] /\ msg'[k] = msg[k] /\ next'[k] = next[k]
               /\ sized'[k] = sized[k]
            \/ pc'[k] = "send" /\ next'[k] = 0
    BY <1>3, <2>1 DEF Writing
  <2>. QED
    BY <1>3, <2>2, <2>3, <2>4, FrameDelivered
<1>4. ASSUME NEW i \in Slot, Top(i) \/ Recv(i) \/ LockWrite(i) \/ UnlockWrite(i) \/ Close(i)
      PROVE  Delivered' /\ SizeThenText'
  <2>1. CASE Top(i)
    BY <1>3, <2>1 DEF Top, Goto, client, kernel, global, stream, Points
  <2>2. CASE Recv(i)
    <3>1. /\ pc[i] = "recv" /\ UNCHANGED <<hung, shut, conn, got, clients, next, sized, headless>>
          /\ \E p \in {"lock", "close"} : pc' = [pc EXCEPT ![i] = p]
          /\ msg' = msg \/ \E m : msg' = [msg EXCEPT ![i] = m]
      BY <2>2 DEF Recv, Goto, client, global, stream
    <3>2. \A k \in Slot \ {i} : msg'[k] = msg[k]
      BY <1>0, <3>1
    <3>. QED
      BY <1>3, <3>1, <3>2 DEF Points
  <2>3. CASE LockWrite(i)
    BY <1>0, <1>3, <2>3 DEF LockWrite, Goto, client, kernel, stream, Points
  <2>4. CASE UnlockWrite(i)
    BY <1>0, <1>3, <2>4 DEF UnlockWrite, Goto, client, kernel, stream, Points
  <2>5. CASE Close(i)
    BY <1>0, <1>3, <2>5 DEF Close, Goto, client, global, stream, Points
  <2>. QED
    BY <1>4, <2>1, <2>2, <2>3, <2>4, <2>5
<1>5. ASSUME NEW i \in Slot, Leave(i) PROVE Delivered' /\ SizeThenText'
  <2>1. /\ pc[i] = "leave" /\ UNCHANGED <<hung, shut, conn, got, msg, next, sized, headless>>
        /\ clients' = [clients EXCEPT ![i] = NoFd] /\ pc' = [pc EXCEPT ![i] = "none"]
    BY <1>5 DEF Leave, Goto, client, kernel, stream
  <2>2. /\ \A k \in Slot : pc'[k] = IF k = i THEN "none" ELSE pc[k]
        /\ \A k \in Slot \ {i} : clients'[k] = clients[k]
    BY <1>0, <2>1
  <2>3. Serving' \subseteq Serving /\ i \notin Serving'
    BY <2>1, <2>2 DEF Serving
  <2>. QED
    BY <2>1, <2>2, <2>3, FrameDelivered DEF Serving, Writing
<1>. QED
  BY <1>1, <1>2, <1>4, <1>5, RegisterDelivered, AcceptDelivered, CleanupDelivered,
     SendSizeDelivered, SendTextDelivered DEF Next, MainStep, ThreadStep

(* A broadcast reaches everybody who is there, the text after its size, for   *)
(* any number of slots.                                                       *)
THEOREM BroadcastsCorrect == Spec => []BroadcastReachesAll
<1>1. BInv /\ [Next]_vars => BInv'
  BY NextIInv, NextTexts, NextWriter, NextDelivered DEF BInv
<1>2. BInv => BroadcastReachesAll
  BY DEF BInv, Delivered, Has, SizeThenText, BroadcastReachesAll
<1>. QED
  BY <1>1, <1>2, InitBInv, PTL DEF Spec
-----------------------------------------------------------------------------
(* The order of messages.  Each message is read once and written by one      *)
(* writer at a time, so that it is at the end of what every client has got.   *)
Sent(x) == x \in Conn \X Nat /\ x[2] <= sent[x[1]]
Unique(s) == \A k, l \in DOMAIN s : s[k] = s[l] => k = l
Busy(i) == pc[i] \in {"lock"} \union Writing
Unread(x) == \E c \in Conn : x \in Range(unread[c])

ReadOnce ==
  /\ \A c \in Conn : Unique(unread[c]) /\ \A x \in Range(unread[c]) : Sent(x) /\ x[1] = c
  /\ \A d \in Conn : \A x \in Range(got[d]) : Sent(x) /\ ~Unread(x)
  /\ \A i \in Slot : Busy(i) => Sent(msg[i]) /\ ~Unread(msg[i])
  /\ \A i, j \in Slot : Busy(i) /\ Busy(j) /\ i # j => msg[i] # msg[j]
  /\ \A i \in Slot, d \in Conn : pc[i] = "lock" => msg[i] \notin Range(got[d])

Ending(s, x) == \A m, n \in DOMAIN s : m <= n /\ s[m] = x => s[n] = x
WrittenLast == \A i \in Slot, d \in Conn : pc[i] \in Writing => Ending(got[d], msg[i])

SInv == BInv /\ ReadOnce /\ WrittenLast /\ SameOrder

LEMMA Appended == ASSUME NEW S, NEW s \in Seq(S), NEW x
                  PROVE  /\ DOMAIN s = 1..Len(s) /\ DOMAIN Append(s, x) = 1..(Len(s) + 1)
                         /\ Len(s) \in Nat /\ Append(s, x)[Len(s) + 1] = x
                         /\ \A n \in 1..Len(s) : Append(s, x)[n] = s[n]
                         /\ Range(Append(s, x)) = Range(s) \union {x}
<1>1. /\ DOMAIN s = 1..Len(s) /\ DOMAIN Append(s, x) = 1..(Len(s) + 1)
      /\ Len(s) \in Nat /\ Append(s, x)[Len(s) + 1] = x
      /\ \A n \in 1..Len(s) : Append(s, x)[n] = s[n]
  OBVIOUS
<1>2. \A n \in 1..(Len(s) + 1) : n \in 1..Len(s) \/ n = Len(s) + 1
  BY <1>1
<1>3. Len(s) + 1 \in 1..(Len(s) + 1) /\ 1..Len(s) \subseteq 1..(Len(s) + 1)
  BY <1>1
<1>. QED
  BY <1>1, <1>2, <1>3 DEF Range

LEMMA SameOrderKept == ASSUME SameOrder, UNCHANGED got PROVE SameOrder'
BY DEF SameOrder, Before

LEMMA InitSInv == Init => SInv
<1>. SUFFICES ASSUME Init PROVE SInv
  OBVIOUS
<1>1. /\ \A c \in Conn : DOMAIN unread[c] = {} /\ DOMAIN got[c] = {}
      /\ \A i \in Slot : pc[i] = "none"
  BY DEF Init
<1>2. \A c \in Conn : Range(unread[c]) = {} /\ Range(got[c]) = {}
  BY <1>1 DEF Range
<1>3. ReadOnce /\ WrittenLast /\ SameOrder
  BY <1>1, <1>2 DEF ReadOnce, Unique, Busy, Writing, WrittenLast, SameOrder
<1>. QED
  BY <1>3, InitBInv DEF SInv

\* Steps that give nothing to read or to write to anybody.
LEMMA FrameOrder ==
  ASSUME SInv, UNCHANGED <<sent, unread, got>>,
         \A i \in Slot : Busy(i)' => /\ msg'[i] = msg[i]
                                     /\ pc'[i] = "lock" <=> pc[i] = "lock"
                                     /\ pc'[i] \in Writing <=> pc[i] \in Writing
  PROVE  ReadOnce' /\ WrittenLast' /\ SameOrder'
<1>1. \A i \in Slot : Busy(i)' => Busy(i)
  BY DEF Busy
<1>2. \A x : (Sent(x)' <=> Sent(x)) /\ (Unread(x)' <=> Unread(x))
  BY DEF Sent, Unread
<1>3. ReadOnce'
  <2>1. \A c \in Conn : Unique(unread'[c]) /\ \A x \in Range(unread'[c]) : Sent(x)' /\ x[1] = c
    BY <1>2 DEF SInv, ReadOnce
  <2>2. \A d \in Conn : \A x \in Range(got'[d]) : Sent(x)' /\ ~Unread(x)'
    BY <1>2 DEF SInv, ReadOnce
  <2>3. \A i \in Slot : Busy(i)' => Sent(msg[i])' /\ ~Unread(msg[i])'
    BY <1>1, <1>2 DEF SInv, ReadOnce
  <2>4. \A i, j \in Slot : Busy(i)' /\ Busy(j)' /\ i # j => msg'[i] # msg'[j]
    BY <1>1 DEF SInv, ReadOnce
  <2>5. \A i \in Slot, d \in Conn : pc'[i] = "lock" => msg'[i] \notin Range(got'[d])
    BY DEF SInv, ReadOnce, Busy
  <2>. QED
    BY <2>1, <2>2, <2>3, <2>4, <2>5 DEF ReadOnce
<1>4. WrittenLast'
  BY DEF SInv, WrittenLast, Busy
<1>5. SameOrder'
  BY DEF SInv, SameOrder, Before
<1>. QED
  BY <1>3, <1>4, <1>5

LEMMA ClientSendsOrder ==
  ASSUME SInv, NEW c \in Conn, ClientSends(c) PROVE ReadOnce' /\ WrittenLast' /\ SameOrder'
<1>0. PICK y : y = <<c, sent[c] + 1>>
  OBVIOUS
<1>1. /\ sent' = [sent EXCEPT ![c] = @ + 1] /\ unread' = [unread EXCEPT ![c] = Append(@, y)]
      /\ UNCHANGED <<got, msg, pc>>
  BY <1>0 DEF ClientSends, threads
<1>2. sent \in [Conn -> Nat] /\ unread \in [Conn -> Seq(Texts)]
  BY DEF SInv, BInv, TextsOK
<1>3. y \in Conn \X Nat /\ ~Sent(y) /\ Sent(y)' /\ y[1] = c
  <2>1. y \in Conn \X Nat /\ y[1] = c /\ y[2] = sent[c] + 1 /\ sent[c] \in Nat
    BY <1>0, <1>2
  <2>2. sent'[c] = sent[c] + 1
    BY <1>1, <1>2
  <2>. QED
    BY <2>1, <2>2 DEF Sent
<1>4. \A x : Sent(x) => Sent(x)' /\ x # y
  BY <1>1, <1>2, <1>3 DEF Sent
<1>5. /\ unread'[c] = Append(unread[c], y) /\ unread[c] \in Seq(Texts)
      /\ \A d \in Conn \ {c} : unread'[d] = unread[d]
  BY <1>1, <1>2
<1>6. Range(unread'[c]) = Range(unread[c]) \union {y}
  BY <1>5, Appended
<1>7. \A x : Unread(x)' => Unread(x) \/ x = y
  BY <1>5, <1>6 DEF Unread
<1>8. Unique(unread'[c])
  <2>1. \A k \in 1..Len(unread[c]) : unread[c][k] # y
    <3>1. \A z \in Range(unread[c]) : z # y
      BY <1>4 DEF SInv, ReadOnce
    <3>2. DOMAIN unread[c] = 1..Len(unread[c])
      BY <1>5
    <3>. QED
      BY <3>1, <3>2 DEF Range
  <2>2. Unique(unread[c])
    BY DEF SInv, ReadOnce
  <2>3. \A n \in DOMAIN unread'[c] : n \in 1..Len(unread[c]) \/ n = Len(unread[c]) + 1
    BY <1>5, Appended
  <2>. QED
    BY <1>5, <2>1, <2>2, <2>3, Appended DEF Unique
<1>9. ReadOnce'
  <2>0. \A d \in Conn : Unique(unread[d]) /\ \A x \in Range(unread[d]) : Sent(x) /\ x[1] = d
    BY DEF SInv, ReadOnce
  <2>1. ASSUME NEW d \in Conn
        PROVE  Unique(unread'[d]) /\ \A x \in Range(unread'[d]) : Sent(x)' /\ x[1] = d
    <3>1. CASE d = c
      <4>1. \A x \in Range(unread[c]) \union {y} : Sent(x)' /\ x[1] = c
        BY <1>3, <1>4, <2>0
      <4>. QED
        BY <1>6, <1>8, <3>1, <4>1
    <3>2. CASE d # c
      <4>1. unread'[d] = unread[d]
        BY <1>5, <3>2
      <4>. QED
        BY <1>4, <2>0, <4>1
    <3>. QED
      BY <3>1, <3>2
  <2>2. \A d \in Conn : \A x \in Range(got'[d]) : Sent(x)' /\ ~Unread(x)'
    BY <1>1, <1>4, <1>7 DEF SInv, ReadOnce
  <2>3. \A i \in Slot : Busy(i)' => Sent(msg[i])' /\ ~Unread(msg[i])'
    BY <1>1, <1>4, <1>7 DEF SInv, ReadOnce, Busy
  <2>4. /\ \A i, j \in Slot : Busy(i)' /\ Busy(j)' /\ i # j => msg'[i] # msg'[j]
        /\ \A i \in Slot, d \in Conn : pc'[i] = "lock" => msg'[i] \notin Range(got'[d])
    BY <1>1 DEF SInv, ReadOnce, Busy
  <2>. QED
    BY <2>1, <2>2, <2>3, <2>4 DEF ReadOnce
<1>10. WrittenLast'
  BY <1>1 DEF SInv, WrittenLast
<1>11. SameOrder'
  BY <1>1, SameOrderKept DEF SInv
<1>. QED
  BY <1>9, <1>10, <1>11

LEMMA RecvOrder ==
  ASSUME SInv, NEW i \in Slot, Recv(i) PROVE ReadOnce' /\ WrittenLast' /\ SameOrder'
<1>. DEFINE c == conn[clients[i]]
<1>0. PICK x : x = Head(unread[c])
  OBVIOUS
<1>1. /\ pc[i] = "recv" /\ UNCHANGED <<sent, got>>
      /\ \/ /\ c # NoConn /\ unread[c] # <<>> /\ msg' = [msg EXCEPT ![i] = x]
            /\ unread' = [unread EXCEPT ![c] = Tail(@)] /\ pc' = [pc EXCEPT ![i] = "lock"]
         \/ pc' = [pc EXCEPT ![i] = "close"] /\ UNCHANGED <<msg, unread>>
  BY <1>0 DEF Recv, Goto, client
<1>2. /\ pc \in [Slot -> Points] /\ msg \in [Slot -> Texts]
      /\ unread \in [Conn -> Seq(Texts)] /\ c \in Conn \union {NoConn}
  <2>1. clients[i] \in FD
    BY <1>1 DEF SInv, BInv, IInv, SlotsAgree, TypeOK
  <2>. QED
    BY <2>1 DEF SInv, BInv, TextsOK, IInv, TypeOK
<1>. HIDE DEF c
<1>3. CASE pc' = [pc EXCEPT ![i] = "close"] /\ UNCHANGED <<msg, unread>>
  <2>1. \A j \in Slot : Busy(j)' => pc'[j] = pc[j]
    BY <1>2, <1>3 DEF Busy, Writing
  <2>. QED
    BY <1>1, <1>3, <2>1, FrameOrder
<1>4. CASE /\ c # NoConn /\ unread[c] # <<>> /\ msg' = [msg EXCEPT ![i] = x]
           /\ unread' = [unread EXCEPT ![c] = Tail(@)] /\ pc' = [pc EXCEPT ![i] = "lock"]
  <2>1. c \in Conn /\ unread[c] \in Seq(Texts)
    BY <1>2, <1>4
  <2>2. /\ unread'[c] = Tail(unread[c]) /\ \A d \in Conn \ {c} : unread'[d] = unread[d]
        /\ \A j \in Slot : /\ pc'[j] = IF j = i THEN "lock" ELSE pc[j]
                           /\ msg'[j] = IF j = i THEN x ELSE msg[j]
    BY <1>2, <1>4, <2>1
  <2>3. /\ x = unread[c][1] /\ 1 \in DOMAIN unread[c]
        /\ \A k \in DOMAIN Tail(unread[c]) : /\ Tail(unread[c])[k] = unread[c][k + 1]
                                            /\ k + 1 \in DOMAIN unread[c] /\ k + 1 # 1
        /\ DOMAIN Tail(unread[c]) \subseteq Int
    BY <1>0, <1>4, <2>1
  <2>4. Unique(unread[c]) /\ x \in Range(unread[c])
    BY <2>1, <2>3 DEF SInv, ReadOnce, Range
  <2>5. Unique(unread'[c]) /\ x \notin Range(unread'[c]) /\ Range(unread'[c]) \subseteq Range(unread[c])
    <3>1. \A k, l \in DOMAIN Tail(unread[c]) : k + 1 = l + 1 => k = l
      BY <2>3
    <3>2. Unique(Tail(unread[c]))
      BY <2>3, <2>4, <3>1 DEF Unique
    <3>3. x \notin Range(Tail(unread[c])) /\ Range(Tail(unread[c])) \subseteq Range(unread[c])
      BY <2>3, <2>4 DEF Unique, Range
    <3>. QED
      BY <2>2, <3>2, <3>3
  <2>6. Sent(x) /\ Unread(x) /\ ~Unread(x)'
    <3>1. Sent(x) /\ x[1] = c
      BY <2>1, <2>4 DEF SInv, ReadOnce
    <3>2. \A d \in Conn \ {c} : x \notin Range(unread[d])
      BY <3>1 DEF SInv, ReadOnce
    <3>3. Unread(x)
      BY <2>1, <2>4 DEF Unread
    <3>4. \A d \in Conn : x \notin Range(unread'[d])
      BY <2>2, <2>5, <3>2
    <3>. QED
      BY <3>1, <3>3, <3>4 DEF Unread
  <2>7. \A z : (Sent(z)' <=> Sent(z)) /\ (Unread(z)' => Unread(z))
    BY <1>1, <2>1, <2>2, <2>5 DEF Sent, Unread
  <2>8. \A j \in Slot : Busy(j)' => j = i \/ Busy(j)
    BY <2>2 DEF Busy, Writing
  <2>9. ReadOnce'
    <3>1. \A d \in Conn : Unique(unread'[d]) /\ \A z \in Range(unread'[d]) : Sent(z)' /\ z[1] = d
      BY <2>1, <2>2, <2>5, <2>7 DEF SInv, ReadOnce
    <3>2. \A d \in Conn : \A z \in Range(got'[d]) : Sent(z)' /\ ~Unread(z)'
      BY <1>1, <2>7 DEF SInv, ReadOnce
    <3>3. \A j \in Slot : Busy(j)' => Sent(msg[j])' /\ ~Unread(msg[j])'
      BY <2>2, <2>6, <2>7, <2>8 DEF SInv, ReadOnce
    <3>4. \A j \in Slot \ {i} : Busy(j)' => msg'[j] # x
      BY <2>2, <2>6, <2>8 DEF SInv, ReadOnce
    <3>5. \A j, k \in Slot : Busy(j)' /\ Busy(k)' /\ j # k => msg'[j] # msg'[k]
      BY <2>2, <2>8, <3>4 DEF SInv, ReadOnce
    <3>6. \A d \in Conn : x \notin Range(got[d])
      BY <2>6 DEF SInv, ReadOnce
    <3>7. \A j \in Slot, d \in Conn : pc'[j] = "lock" => msg'[j] \notin Range(got'[d])
      BY <1>1, <2>2, <3>6 DEF SInv, ReadOnce
    <3>. QED
      BY <3>1, <3>2, <3>3, <3>5, <3>7 DEF ReadOnce
  <2>10. WrittenLast'
    BY <1>1, <2>2 DEF SInv, WrittenLast, Writing
  <2>11. SameOrder'
    BY <1>1, SameOrderKept DEF SInv
  <2>. QED
    BY <2>9, <2>10, <2>11
<1>. QED
  BY <1>1, <1>3, <1>4

LEMMA SendTextOrder ==
  ASSUME SInv, NEW i \in Slot, SendText(i) PROVE ReadOnce' /\ WrittenLast' /\ SameOrder'
<1>. DEFINE c == Reached(i)
<1>0. PICK x : x = msg[i]
  OBVIOUS
<1>1. /\ pc[i] = "text" /\ pc' = [pc EXCEPT ![i] = "send"] /\ UNCHANGED <<sent, unread, msg>>
      /\ got' = got \/ (c # NoConn /\ got' = [got EXCEPT ![c] = Append(@, x)])
  BY <1>0 DEF SendText, Goto, client
<1>2. /\ got \in [Conn -> Seq(Texts)] /\ c \in Conn \union {NoConn} /\ pc \in [Slot -> Points]
  BY ReachedIs DEF SInv, BInv, TextsOK, IInv, TypeOK
<1>6. \A j \in Slot : /\ Busy(j)' <=> Busy(j)
                      /\ pc'[j] = "lock" <=> pc[j] = "lock"
                      /\ pc'[j] \in Writing <=> pc[j] \in Writing
  BY <1>1, <1>2 DEF Busy, Writing
<1>. HIDE DEF c
<1>3. /\ Sent(x) /\ ~Unread(x)
      /\ \A j \in Slot : pc[j] = "lock" => msg[j] # x
      /\ \A j \in Slot : pc[j] \in Writing => j = i
      /\ \A d \in Conn : Ending(got[d], x)
  <2>1. Sent(x) /\ ~Unread(x)
    BY <1>0, <1>1 DEF SInv, ReadOnce, Busy, Writing
  <2>2. \A j \in Slot : pc[j] = "lock" => msg[j] # x
    BY <1>0, <1>1 DEF SInv, ReadOnce, Busy, Writing
  <2>3. \A j \in Slot : pc[j] \in Writing => j = i
    BY <1>1 DEF SInv, BInv, WriterHasMutex, Writing
  <2>4. \A d \in Conn : Ending(got[d], x)
    BY <1>0, <1>1 DEF SInv, WrittenLast, Writing
  <2>. QED
    BY <2>1, <2>2, <2>3, <2>4
<1>4. CASE got' = got
  BY <1>1, <1>4, <1>6, FrameOrder
<1>5. CASE c # NoConn /\ got' = [got EXCEPT ![c] = Append(@, x)]
  <2>1. /\ c \in Conn /\ got[c] \in Seq(Texts) /\ got'[c] = Append(got[c], x)
        /\ \A d \in Conn \ {c} : got'[d] = got[d]
    BY <1>2, <1>5
  <2>2. Range(got'[c]) = Range(got[c]) \union {x}
    BY <2>1, Appended
  <2>3. \A z : (Sent(z)' <=> Sent(z)) /\ (Unread(z)' <=> Unread(z))
    BY <1>1 DEF Sent, Unread
  <2>4. ReadOnce'
    <3>1. /\ \A d \in Conn : Unique(unread'[d]) /\ \A z \in Range(unread'[d]) : Sent(z)' /\ z[1] = d
          /\ \A j \in Slot : Busy(j)' => Sent(msg[j])' /\ ~Unread(msg[j])'
          /\ \A j, k \in Slot : Busy(j)' /\ Busy(k)' /\ j # k => msg'[j] # msg'[k]
      BY <1>1, <1>6, <2>3 DEF SInv, ReadOnce
    <3>2. \A d \in Conn : \A z \in Range(got'[d]) : Sent(z)' /\ ~Unread(z)'
      <4>1. \A d \in Conn : \A z \in Range(got[d]) : Sent(z) /\ ~Unread(z)
        BY DEF SInv, ReadOnce
      <4>2. \A d \in Conn : Range(got'[d]) \subseteq Range(got[d]) \union {x}
        BY <2>1, <2>2
      <4>3. \A d \in Conn : \A z \in Range(got'[d]) : Sent(z) /\ ~Unread(z)
        BY <1>3, <4>1, <4>2
      <4>. QED
        BY <2>3, <4>3
    <3>3. \A j \in Slot, d \in Conn : pc'[j] = "lock" => msg'[j] \notin Range(got'[d])
      BY <1>1, <1>3, <1>6, <2>1, <2>2 DEF SInv, ReadOnce
    <3>. QED
      BY <3>1, <3>2, <3>3 DEF ReadOnce
  <2>5. Ending(got'[c], x)
    <3>1. Ending(got[c], x)
      BY <1>3, <2>1
    <3>2. \A n \in DOMAIN got'[c] : n \in 1..Len(got[c]) \/ n = Len(got[c]) + 1
      BY <2>1, Appended
    <3>. QED
      BY <2>1, <3>1, <3>2, Appended DEF Ending
  <2>6. \A d \in Conn : Ending(got'[d], x)
    BY <1>3, <2>1, <2>5
  <2>7. WrittenLast'
    BY <1>0, <1>1, <1>3, <1>6, <2>6 DEF WrittenLast
  <2>8. \A d \in Conn : \A a, b : Before(d, a, b)' /\ a # x /\ b # x
                                => Before(d, a, b) /\ a \in Range(got[d]) /\ b \in Range(got[d])
    <3>. SUFFICES ASSUME NEW d \in Conn, NEW a, NEW b, Before(d, a, b)', a # x, b # x
                  PROVE  Before(d, a, b) /\ a \in Range(got[d]) /\ b \in Range(got[d])
      OBVIOUS
    <3>1. PICK m, n \in DOMAIN got'[d] : m < n /\ got'[d][m] = a /\ got'[d][n] = b
      BY DEF Before
    <3>2. m \in DOMAIN got[d] /\ n \in DOMAIN got[d] /\ got[d][m] = a /\ got[d][n] = b
      <4>1. CASE d # c
        BY <2>1, <3>1, <4>1
      <4>2. CASE d = c
        <5>1. /\ \A k \in DOMAIN got'[c] : k \in DOMAIN got[c] \/ k = Len(got[c]) + 1
              /\ got'[c][Len(got[c]) + 1] = x
              /\ \A k \in DOMAIN got[c] : got'[c][k] = got[c][k]
          BY <2>1, Appended
        <5>. QED
          BY <3>1, <4>2, <5>1
      <4>. QED
        BY <4>1, <4>2
    <3>. QED
      BY <3>1, <3>2 DEF Before, Range
  <2>9. \A d \in Conn : \A b : Before(d, x, b)' => b = x
    <3>. SUFFICES ASSUME NEW d \in Conn, NEW b, Before(d, x, b)' PROVE b = x
      OBVIOUS
    <3>1. PICK m, n \in DOMAIN got'[d] : m < n /\ got'[d][m] = x /\ got'[d][n] = b
      BY DEF Before
    <3>2. m <= n
      <4>1. got[d] \in Seq(Texts)
        BY <1>2
      <4>2. DOMAIN got'[d] \subseteq Int
        BY <2>1, <4>1, Appended
      <4>. QED
        BY <3>1, <4>2
    <3>. QED
      BY <2>6, <3>1, <3>2 DEF Ending
  <2>10. SameOrder'
    <3>. SUFFICES ASSUME NEW d \in Conn, NEW e \in Conn, NEW a, NEW b, a # b,
                         Before(d, a, b)', Before(e, b, a)'
                  PROVE  FALSE
      BY DEF SameOrder
    <3>1. a # x /\ b # x
      BY <2>9
    <3>2. Before(d, a, b) /\ Before(e, b, a) /\ a \in Range(got[d]) /\ b \in Range(got[d])
      BY <2>8, <3>1
    <3>. QED
      BY <3>2 DEF SInv, SameOrder
  <2>. QED
    BY <2>4, <2>7, <2>10
<1>. QED
  BY <1>1, <1>4, <1>5

LEMMA NextOrder == ASSUME SInv, [Next]_vars PROVE ReadOnce' /\ WrittenLast' /\ SameOrder'
<1>0. pc \in [Slot -> Points] /\ msg \in [Slot -> Texts]
  BY DEF SInv, BInv, TextsOK, IInv, TypeOK
<1>1. ASSUME NEW c \in Conn, Connect(c) \/ ClientReads(c) \/ HangUp(c)
      PROVE  ReadOnce' /\ WrittenLast' /\ SameOrder'
  <2>1. UNCHANGED <<sent, unread, got, pc, msg>>
    BY <1>1 DEF Connect, ClientReads, HangUp, client, kernel, global, threads
  <2>. QED
    BY <2>1, FrameOrder
<1>2. ASSUME Interrupt \/ Loop \/ Accept \/ Cleanup \/ UNCHANGED vars
      PROVE  ReadOnce' /\ WrittenLast' /\ SameOrder'
  <2>1. UNCHANGED <<sent, unread, got, pc, msg>>
    BY <1>2 DEF Interrupt, Loop, Accept, Cleanup, vars, client, kernel, global, threads
  <2>. QED
    BY <2>1, FrameOrder
<1>3. CASE Register
  <2>1. UNCHANGED <<sent, unread, got, msg>>
        /\ (pc' = pc \/ pc' = [pc EXCEPT ![FirstFree] = "top"])
    BY <1>3 DEF Register, Goto, client, kernel, threads
  <2>2. \A i \in Slot : Busy(i)' => pc'[i] = pc[i] /\ msg'[i] = msg[i]
    BY <1>0, <2>1 DEF Busy, Writing
  <2>. QED
    BY <2>1, <2>2, FrameOrder
\* The thread stops being busy, or was not.
<1>4. ASSUME NEW i \in Slot, Top(i) \/ UnlockWrite(i) \/ Close(i) \/ Leave(i)
      PROVE  ReadOnce' /\ WrittenLast' /\ SameOrder'
  <2>1. UNCHANGED <<sent, unread, got>>
    BY <1>4 DEF Top, UnlockWrite, Close, Leave, client, kernel
  <2>2. \E p \in Points \ ({"lock"} \union Writing) : pc' = [pc EXCEPT ![i] = p]
    BY <1>4 DEF Top, UnlockWrite, Close, Leave, Goto, Points, Writing
  <2>3. msg' = msg \/ msg' = [msg EXCEPT ![i] = <<>>]
    BY <1>4 DEF Top, UnlockWrite, Close, Leave
  <2>4. \A j \in Slot \ {i} : pc'[j] = pc[j] /\ msg'[j] = msg[j]
    BY <1>0, <2>2, <2>3
  <2>5. ~Busy(i)'
    BY <1>0, <2>2 DEF Busy, Writing
  <2>. QED
    BY <2>1, <2>4, <2>5, FrameOrder
\* The message is new to everybody when its turn comes.
<1>5. ASSUME NEW i \in Slot, LockWrite(i) PROVE ReadOnce' /\ WrittenLast' /\ SameOrder'
  <2>1. /\ pc[i] = "lock" /\ pc' = [pc EXCEPT ![i] = "send"]
        /\ UNCHANGED <<sent, unread, got, msg>>
    BY <1>5 DEF LockWrite, Goto, client, kernel
  <2>2. \A j \in Slot : pc'[j] = IF j = i THEN "send" ELSE pc[j]
    BY <1>0, <2>1
  <2>3. \A j \in Slot : Busy(j)' <=> Busy(j)
    BY <2>1, <2>2 DEF Busy, Writing
  <2>4. \A z : (Sent(z)' <=> Sent(z)) /\ (Unread(z)' <=> Unread(z))
    BY <2>1 DEF Sent, Unread
  <2>5. ReadOnce'
    <3>1. /\ \A d \in Conn : Unique(unread'[d]) /\ \A z \in Range(unread'[d]) : Sent(z)' /\ z[1] = d
          /\ \A d \in Conn : \A z \in Range(got'[d]) : Sent(z)' /\ ~Unread(z)'
      BY <2>1, <2>4 DEF SInv, ReadOnce
    <3>2. /\ \A j \in Slot : Busy(j)' => Sent(msg[j])' /\ ~Unread(msg[j])'
          /\ \A j, k \in Slot : Busy(j)' /\ Busy(k)' /\ j # k => msg'[j] # msg'[k]
      BY <2>1, <2>3, <2>4 DEF SInv, ReadOnce
    <3>3. \A j \in Slot, d \in Conn : pc'[j] = "lock" => msg'[j] \notin Range(got'[d])
      BY <2>1, <2>2 DEF SInv, ReadOnce
    <3>. QED
      BY <3>1, <3>2, <3>3 DEF ReadOnce
  <2>6. \A d \in Conn : msg[i] \notin Range(got[d])
    BY <2>1 DEF SInv, ReadOnce
  <2>7. \A d \in Conn : Ending(got[d], msg[i])
    BY <2>6 DEF Ending, Range
  <2>8. WrittenLast'
    BY <2>1, <2>2, <2>7 DEF SInv, WrittenLast, Writing
  <2>. QED
    BY <2>1, <2>5, <2>8, SameOrderKept DEF SInv
<1>6. ASSUME NEW i \in Slot, SendSize(i) PROVE ReadOnce' /\ WrittenLast' /\ SameOrder'
  <2>1. /\ pc[i] = "send" /\ UNCHANGED <<sent, unread, got, msg>>
        /\ pc' = pc \/ pc' = [pc EXCEPT ![i] = "text"]
    BY <1>6 DEF SendSize, Goto, client, kernel
  <2>2. \A j \in Slot : /\ pc'[j] = "lock" <=> pc[j] = "lock"
                        /\ pc'[j] \in Writing <=> pc[j] \in Writing
    BY <1>0, <2>1 DEF Writing
  <2>. QED
    BY <2>1, <2>2, FrameOrder
<1>. QED
  BY <1>1, <1>2, <1>3, <1>4, <1>5, <1>6, ClientSendsOrder, RecvOrder, SendTextOrder DEF Next, MainStep, ThreadStep

(* All clients see the messages in one order, for any number of them.         *)
THEOREM OrderCorrect == Spec => []SameOrder
<1>1. SInv /\ [Next]_vars => SInv'
  BY NextIInv, NextTexts, NextWriter, NextDelivered, NextOrder DEF SInv, BInv
<1>2. SInv => SameOrder
  BY DEF SInv
<1>. QED
  BY <1>1, <1>2, InitSInv, PTL DEF Spec
=============================================================================
