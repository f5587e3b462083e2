-------------------------- MODULE Programs_proofs --------------------------
(* Proofs about Cracker, MapReduce and FileServer, which have nothing to do   *)
(* with each other but that each serves what it is given to the end: for any  *)
(* number of threads, users and guesses the barriers and the order of the     *)
(* queue keep the threads at one user and every summary is right; for any     *)
(* number of mappers and any input the output is complete; for any clients    *)
(* and requests a PUT that was answered is stored and a GET that was accepted *)
(* is the file.                                                               *)
EXTENDS Cracker, MapReduce, FileServer,
        TLAPS, FiniteSetTheorems, FunctionTheorems, SequenceTheorems, WellFoundedInduction
-----------------------------------------------------------------------------
(* Cracker.                                                                   *)

N == Cardinality(Thread)
Before1 == {"begin", "check", "guess", "tell", "report", "barrier1"}
Between == {"summary", "barrier2"}

\* Jobs that have been taken from the queue, by whom in this round.
Pulled == (Users + 1) * N - Len(jobs)
Moved == {t \in Thread : pc[t] # "pull"}

\* What is left in the queue is the end of what start has put there.
QueueOK == /\ jobs \in Seq(Job \union {Nothing})
           /\ \A n \in 1..Len(jobs) : jobs[n] = Filled[Pulled + n]

\* In round r each thread takes a job of user r + 1, or a NULL after the last.
TasksOf(r) == /\ \A t \in Thread : pc[t] \in Working =>
                    task[t] \in Job /\ task[t].user = r + 1 /\ task[t].part <= Pulled - r * N
              /\ \A t, u \in Thread : pc[t] \in Working /\ pc[u] \in Working /\ t # u
                    => task[t].part # task[u].part

PhaseOf(r) == \/ r < Users /\ \A t \in Thread : pc[t] \in {"pull"} \union Before1
              \/ r < Users /\ \A t \in Thread : pc[t] \in Between
              \/ r = Users /\ \A t \in Thread : pc[t] \in {"pull", "done"}

Round(r) == /\ r \in 0..Users /\ Pulled = r * N + Cardinality(Moved)
            /\ PhaseOf(r) /\ TasksOf(r)

IInv == /\ QueueOK /\ pc \in [Thread -> {"pull", "done"} \union Working] /\ DOMAIN task = Thread
        /\ \E r \in Int : Round(r)

LEMMA Numbers == /\ N \in Nat \ {0} /\ Users \in Nat /\ (Users + 1) * N \in Nat
                 /\ \A S \in SUBSET Thread : IsFiniteSet(S) /\ Cardinality(S) \in 0..N
<1>1. N \in Nat /\ N # 0
  BY CrackerAssumption, FS_CardinalityType, FS_EmptySet DEF N
<1>2. \A S \in SUBSET Thread : IsFiniteSet(S) /\ Cardinality(S) \in Nat /\ Cardinality(S) <= N
  BY CrackerAssumption, FS_Subset, FS_CardinalityType DEF N
<1>3. (Users + 1) * N \in Nat
  BY <1>1, CrackerAssumption
<1>. QED
  BY <1>1, <1>2, <1>3, CrackerAssumption

LEMMA Division == ASSUME NEW n \in Nat \ {0}, NEW r \in Nat, NEW m \in 0..(n - 1)
                  PROVE  (r * n + m) \div n = r /\ (r * n + m) % n = m
<1>. DEFINE a == r * n + m
            d == a \div n
            e == a % n
<1>1. a \in Nat
  OBVIOUS
<1>2. d \in Int /\ e \in 0..(n - 1) /\ a = n * d + e
  BY <1>1
<1>3. n * (d - r) = m - e
  BY <1>2
<1>4. CASE d - r >= 1
  <2>1. n * (d - r) >= n
    BY <1>2, <1>4
  <2>. QED
    BY <1>2, <1>3, <2>1
<1>5. CASE r - d >= 1
  <2>1. n * (r - d) >= n
    BY <1>2, <1>5
  <2>2. n * (r - d) = e - m
    BY <1>2
  <2>. QED
    BY <1>2, <2>1, <2>2
<1>6. CASE d = r
  BY <1>2, <1>3, <1>6
<1>. QED
  BY <1>2, <1>4, <1>5, <1>6

\* The job at the head of the queue in round r, when m threads have theirs.
LEMMA FilledAt ==
  ASSUME NEW r \in 0..Users, NEW m \in 0..(N - 1)
  PROVE  /\ r * N + m + 1 \in DOMAIN Filled
         /\ Filled[r * N + m + 1] = IF r = Users THEN Nothing ELSE [user |-> r + 1, part |-> m + 1]
<1>. DEFINE k == r * N + m + 1
<1>1. r * N + m \in Nat /\ (k - 1) \div N = r /\ (k - 1) % N = m
  BY Numbers, Division
<1>2. k <= (Users + 1) * N
  <2>1. (Users - r) * N >= 0
    BY Numbers
  <2>2. (Users - r) * N = (Users + 1) * N - r * N - N
    BY Numbers
  <2>3. r * N \in Int
    BY Numbers
  <2>. QED
    BY Numbers, <2>1, <2>2, <2>3
<1>3. k \in 1..((Users + 1) * N)
  BY <1>1, <1>2, Numbers
<1>. HIDE DEF k
<1>4. /\ k \in DOMAIN Filled
      /\ Filled[k] = IF ((k - 1) \div N) + 1 > Users THEN Nothing
                     ELSE [user |-> ((k - 1) \div N) + 1, part |-> ((k - 1) % N) + 1]
  BY <1>3 DEF Filled, N
<1>5. Filled[k] = IF r + 1 > Users THEN Nothing ELSE [user |-> r + 1, part |-> m + 1]
  BY <1>1, <1>4
<1>. QED
  BY <1>4, <1>5, Numbers DEF k

LEMMA FilledOK == Filled \in Seq(Job \union {Nothing}) /\ Len(Filled) = (Users + 1) * N
<1>1. \A k \in 1..((Users + 1) * N) : Filled[k] \in Job \union {Nothing}
  <2>. SUFFICES ASSUME NEW k \in 1..((Users + 1) * N) PROVE Filled[k] \in Job \union {Nothing}
    OBVIOUS
  <2>. DEFINE d == (k - 1) \div N
              e == (k - 1) % N
  <2>1. d \in Nat /\ e \in 0..(N - 1)
    BY Numbers
  <2>2. Filled[k] = IF d + 1 > Users THEN Nothing ELSE [user |-> d + 1, part |-> e + 1]
    BY DEF Filled, N
  <2>. QED
    BY <2>1, <2>2, Numbers DEF Job, Part, N
<1>. DEFINE n == (Users + 1) * N
<1>2. n \in Nat /\ Filled \in [1..n -> Job \union {Nothing}]
  BY <1>1, Numbers DEF Filled, N
<1>. HIDE DEF n
<1>3. Filled \in Seq(Job \union {Nothing})
  BY <1>2
<1>4. DOMAIN Filled = 1..n
  BY <1>2
<1>5. Len(Filled) = n
  BY <1>2, <1>3, <1>4
<1>. QED
  BY <1>3, <1>5 DEF n

LEMMA InitIInv == Init => IInv
<1>. SUFFICES ASSUME Init PROVE IInv
  OBVIOUS
<1>1. Pulled = 0 /\ QueueOK
  <2>1. jobs = Filled
    BY DEF Init
  <2>2. Pulled = 0
    BY <2>1, FilledOK, Numbers DEF Pulled
  <2>3. \A n \in 1..Len(jobs) : jobs[n] = Filled[Pulled + n]
    BY <2>1, <2>2
  <2>. QED
    BY <2>1, <2>2, <2>3, FilledOK DEF QueueOK
<1>2. Moved = {} /\ Cardinality(Moved) = 0
  BY FS_EmptySet DEF Init, Moved
<1>3. Round(0)
  BY <1>1, <1>2, Numbers DEF Init, Round, PhaseOf, TasksOf, Working
<1>. QED
  BY <1>1, <1>3 DEF Init, IInv

\* A thread goes on, without a job being taken.
LEMMA GoOnIInv ==
  ASSUME IInv, NEW r \in Int, Round(r), NEW t \in Thread, NEW p, UNCHANGED <<jobs, task>>, pc' = [pc EXCEPT ![t] = p],
         \/ pc[t] \in Before1 /\ p \in Before1
         \/ pc[t] \in Between /\ p \in Between
  PROVE  IInv' /\ Round(r)'
<1>2. \A u \in Thread : pc'[u] = IF u = t THEN p ELSE pc[u]
  BY DEF IInv
<1>3. Moved' = Moved /\ Pulled' = Pulled
  BY <1>2 DEF Moved, Pulled, Before1, Between
<1>4. PhaseOf(r)'
  BY <1>2 DEF Round, PhaseOf, Before1, Between
<1>5. \A u \in Thread : pc'[u] \in Working <=> pc[u] \in Working
  BY <1>2 DEF Working, Before1, Between
<1>6. TasksOf(r)'
  BY <1>3, <1>5 DEF Round, TasksOf
<1>7. Round(r)'
  BY <1>3, <1>4, <1>6 DEF Round
<1>8. QueueOK'
  BY <1>3 DEF IInv, QueueOK
<1>9. pc' \in [Thread -> {"pull", "done"} \union Working]
  BY DEF IInv, Working, Before1, Between
<1>. QED
  BY <1>7, <1>8, <1>9 DEF IInv

LEMMA PullIInv ==
  ASSUME IInv, NEW r \in Int, Round(r), NEW t \in Thread, Pull(t) PROVE IInv' /\ Round(r)'
<1>. DEFINE p == IF Head(jobs) = Nothing THEN "done" ELSE "begin"
            m == Cardinality(Moved)
<1>2. /\ pc[t] = "pull" /\ jobs # <<>> /\ jobs' = Tail(jobs)
      /\ task' = [task EXCEPT ![t] = Head(jobs)] /\ pc' = [pc EXCEPT ![t] = p]
  BY DEF Pull, Goto
<1>3. /\ \A u \in Thread : /\ pc'[u] = IF u = t THEN p ELSE pc[u]
                           /\ task'[u] = IF u = t THEN Head(jobs) ELSE task[u]
      /\ DOMAIN task' = Thread
  BY <1>2 DEF IInv
<1>. HIDE DEF p
<1>4. /\ t \notin Moved /\ Moved' = Moved \union {t} /\ p # "pull"
      /\ Cardinality(Moved') = m + 1 /\ m \in 0..(N - 1)
  <2>1. p # "pull"
    BY DEF p
  <2>2. t \notin Moved /\ Moved' = Moved \union {t}
    BY <1>2, <1>3, <2>1 DEF Moved
  <2>3. Moved \in SUBSET Thread /\ Moved' \in SUBSET Thread
    BY <2>2 DEF Moved
  <2>4. IsFiniteSet(Moved) /\ m \in 0..N /\ Cardinality(Moved') \in 0..N
    BY <2>3, Numbers
  <2>5. Cardinality(Moved') = m + 1
    BY <2>2, <2>4, FS_AddElement
  <2>. QED
    BY <2>1, <2>2, <2>4, <2>5, Numbers
<1>5. Len(jobs) \in Nat /\ Len(jobs) > 0 /\ Pulled' = Pulled + 1 /\ Pulled \in Int
  BY <1>2, Numbers DEF IInv, QueueOK, Pulled
<1>6. Pulled = r * N + m /\ r \in 0..Users
  BY DEF Round
<1>7. Head(jobs) = IF r = Users THEN Nothing ELSE [user |-> r + 1, part |-> m + 1]
  <2>1. Head(jobs) = jobs[1] /\ jobs[1] = Filled[Pulled + 1]
    BY <1>2, <1>5 DEF IInv, QueueOK
  <2>. QED
    BY <1>4, <1>6, <2>1, FilledAt
<1>8. QueueOK'
  <2>1. /\ jobs' \in Seq(Job \union {Nothing}) /\ Len(jobs') = Len(jobs) - 1
        /\ \A n \in 1..Len(jobs') : jobs'[n] = jobs[n + 1] /\ n + 1 \in 1..Len(jobs)
    BY <1>2 DEF IInv, QueueOK
  <2>2. ASSUME NEW n \in 1..Len(jobs') PROVE jobs'[n] = Filled[Pulled' + n]
    <3>1. jobs'[n] = Filled[Pulled + (n + 1)]
      BY <2>1 DEF IInv, QueueOK
    <3>2. Pulled + (n + 1) = Pulled' + n
      BY <1>5
    <3>. QED
      BY <3>1, <3>2
  <2>. QED
    BY <2>1, <2>2 DEF QueueOK
<1>9. CASE r = Users
  <2>1. p = "done"
    BY <1>7, <1>9 DEF p
  <2>2. \A u \in Thread : pc[u] \in {"pull", "done"}
    BY <1>9 DEF Round, PhaseOf
  <2>3. \A u \in Thread : pc'[u] \in {"pull", "done"}
    BY <1>3, <2>1, <2>2
  <2>4. PhaseOf(r)' /\ TasksOf(r)'
    BY <1>9, <2>3 DEF PhaseOf, TasksOf, Working
  <2>5. Round(r)'
    BY <1>4, <1>5, <1>6, <2>4, Numbers DEF Round
  <2>6. pc' \in [Thread -> {"pull", "done"} \union Working]
    BY <1>2, <2>1 DEF IInv
  <2>. QED
    BY <1>3, <1>8, <2>5, <2>6 DEF IInv
<1>10. CASE r # Users
  <2>. DEFINE j == [user |-> r + 1, part |-> m + 1]
  <2>1. j \in Job
    BY <1>4, <1>6, <1>10, Numbers DEF Job, Part, N
  <2>2. Head(jobs) = j /\ p = "begin"
    BY <1>7, <1>10, <2>1, CrackerAssumption DEF p
  <2>3. \A u \in Thread : pc[u] \in {"pull"} \union Before1
    BY <1>2, <1>10 DEF Round, PhaseOf, Between
  <2>4. PhaseOf(r)'
    BY <1>3, <1>6, <1>10, <2>2, <2>3, Numbers DEF PhaseOf, Before1
  <2>5. m + 1 = Pulled' - r * N /\ m = Pulled - r * N /\ m \in Int
    BY <1>4, <1>5, <1>6, Numbers
  <2>6. j.user = r + 1 /\ j.part = m + 1
    OBVIOUS
  <2>. HIDE DEF j, m
  <2>7. /\ \A u \in Thread \ {t} : pc'[u] = pc[u] /\ task'[u] = task[u]
        /\ task'[t] = j
    BY <1>3, <2>2
  <2>8. \A u \in Thread \ {t} : pc[u] \in Working =>
            task[u] \in Job /\ task[u].user = r + 1 /\ task[u].part <= m
    BY <2>5 DEF Round, TasksOf
  <2>9. \A u \in Job : u.part \in Int
    BY DEF Job, Part
  <2>10. \A u \in Thread : pc'[u] \in Working =>
             task'[u] \in Job /\ task'[u].user = r + 1 /\ task'[u].part <= Pulled' - r * N
    BY <2>1, <2>5, <2>6, <2>7, <2>8, <2>9
  <2>11. \A u \in Thread \ {t} : pc[u] \in Working => task[u].part # j.part
    BY <2>5, <2>6, <2>8, <2>9
  <2>12. \A u, v \in Thread \ {t} : pc[u] \in Working /\ pc[v] \in Working /\ u # v
             => task[u].part # task[v].part
    BY DEF Round, TasksOf
  <2>13. TasksOf(r)'
    BY <2>7, <2>10, <2>11, <2>12 DEF TasksOf
  <2>14. Round(r)'
    BY <1>4, <1>5, <1>6, <2>4, <2>13, Numbers DEF Round, m
  <2>15. pc' \in [Thread -> {"pull", "done"} \union Working]
    BY <1>2, <2>2 DEF IInv, Working
  <2>. QED
    BY <1>3, <1>8, <2>14, <2>15 DEF IInv
<1>. QED
  BY <1>9, <1>10

LEMMA MeetIInv ==
  ASSUME IInv, NEW r \in Int, Round(r), Meet
  PROVE  /\ IInv' /\ r < Users /\ r \in 0..Users
         /\ \/ (\A t \in Thread : pc[t] = "barrier1" /\ pc'[t] = "summary") /\ Round(r)'
            \/ (\A t \in Thread : pc[t] = "barrier2" /\ pc'[t] = "pull") /\ Round(r + 1)'
<1>2. /\ \A t \in Thread : pc[t] \in {"barrier1", "barrier2"} /\ UNCHANGED <<jobs, task>>
      /\ pc' = [t \in Thread |-> IF pc[t] = "barrier1" THEN "summary" ELSE "pull"]
      /\ Thread # {}
  BY CrackerAssumption DEF Meet, local
<1>3. r < Users /\ r \in 0..Users /\ Pulled' = Pulled /\ Pulled \in Int
  <2>1. r < Users /\ r \in 0..Users
    <3>1. PICK t \in Thread : pc[t] \notin {"pull", "done"}
      BY <1>2
    <3>. QED
      BY <3>1 DEF Round, PhaseOf
  <2>2. Pulled' = Pulled /\ Pulled \in Int
    BY <1>2, Numbers DEF Pulled, IInv, QueueOK
  <2>. QED
    BY <2>1, <2>2
<1>4. Moved = Thread /\ Pulled = r * N + N
  <2>1. Moved = Thread
    BY <1>2 DEF Moved
  <2>. QED
    BY <2>1 DEF Round, N
<1>5. QueueOK' /\ DOMAIN task' = Thread
  BY <1>2, <1>3 DEF IInv, QueueOK
<1>6. pc' \in [Thread -> {"pull", "done"} \union Working]
  BY <1>2 DEF Working
<1>7. CASE \A t \in Thread : pc[t] = "barrier1"
  <2>1. \A t \in Thread : pc'[t] = "summary"
    BY <1>2, <1>7
  <2>2. \A t \in Thread : pc[t] \in Working
    BY <1>7 DEF Working
  <2>3. Moved' = Moved /\ PhaseOf(r)'
    BY <1>3, <1>4, <2>1 DEF Moved, PhaseOf, Between
  <2>4. TasksOf(r)
    BY DEF Round
  <2>5. TasksOf(r)'
    BY <1>2, <1>3, <2>2, <2>4 DEF TasksOf
  <2>6. Round(r)'
    BY <1>3, <2>3, <2>5 DEF Round
  <2>. QED
    BY <1>3, <1>5, <1>6, <1>7, <2>1, <2>6 DEF IInv
<1>8. CASE \A t \in Thread : pc[t] = "barrier2"
  <2>1. \A t \in Thread : pc'[t] = "pull"
    BY <1>2, <1>8
  <2>2. Moved' = {} /\ Cardinality(Moved') = 0
    BY <2>1, FS_EmptySet DEF Moved
  <2>3. (r + 1) * N = r * N + N
    BY <1>3, Numbers
  <2>4. r + 1 \in 0..Users /\ r + 1 \in Int
    BY <1>3, Numbers
  <2>5. PhaseOf(r + 1)'
    BY <1>3, <2>1, <2>4, Numbers DEF PhaseOf
  <2>6. TasksOf(r + 1)'
    BY <2>1 DEF TasksOf, Working
  <2>7. Pulled' = (r + 1) * N + Cardinality(Moved')
    BY <1>3, <1>4, <2>2, <2>3
  <2>8. Round(r + 1)'
    BY <2>4, <2>5, <2>6, <2>7 DEF Round
  <2>. QED
    BY <1>3, <1>5, <1>6, <1>8, <2>1, <2>4, <2>8 DEF IInv
<1>. QED
  BY <1>2, <1>3, <1>7, <1>8 DEF Round, PhaseOf, Before1, Between

LEMMA NextIInv ==
  ASSUME IInv, NEW r \in Int, Round(r), [Next]_vars
  PROVE  IInv' /\ (~Meet => Round(r)')
<1>1. ASSUME NEW t \in Thread,
             Begin(t) \/ Check(t) \/ Try(t) \/ Tell(t) \/ Report(t) \/ Summary(t)
      PROVE  IInv' /\ Round(r)'
  <2>1. UNCHANGED <<jobs, task>>
    BY <1>1 DEF Begin, Check, Try, Tell, Report, Summary, local
  <2>2. \/ pc[t] \in Before1 /\ \E p \in Before1 : pc' = [pc EXCEPT ![t] = p]
        \/ pc[t] \in Between /\ \E p \in Between : pc' = [pc EXCEPT ![t] = p]
    BY <1>1 DEF Begin, Check, Try, Tell, Report, Summary, Goto, Before1, Between
  <2>. QED
    BY <2>1, <2>2, GoOnIInv
<1>2. CASE UNCHANGED vars
  <2>1. UNCHANGED <<jobs, pc, task>>
    BY <1>2 DEF vars, local
  <2>2. Round(r)' /\ QueueOK'
    BY <2>1 DEF Round, PhaseOf, TasksOf, Moved, Pulled, IInv, QueueOK
  <2>. QED
    BY <2>1, <2>2 DEF IInv
<1>3. CASE Meet
  BY <1>3, MeetIInv
<1>. QED
  BY <1>1, <1>2, <1>3, PullIInv DEF Next, Step, Finished

(* All threads that work are at the same user, each at a part of its own.     *)
THEOREM TogetherAtOneUser == Spec => []OneUserAtATime
<1>1. IInv => OneUserAtATime
  BY DEF IInv, Round, TasksOf, OneUserAtATime
<1>2. IInv /\ [Next]_vars => IInv'
  BY NextIInv DEF IInv
<1>. QED
  BY <1>1, <1>2, InitIInv, PTL DEF Spec
-----------------------------------------------------------------------------
(* Sums over all threads, in the order Nth; a sum is known by its partial     *)
(* sums.                                                                      *)
Nth == CHOOSE f \in Bijection(1..N, Thread) : TRUE

IsSum(f, s) == \E p \in [0..N -> Int] : /\ p[0] = 0 /\ p[N] = s
                                        /\ \A n \in 1..N : p[n] = p[n - 1] + f[Nth[n]]

LEMMA NthOK == /\ Nth \in [1..N -> Thread]
               /\ \A m, n \in 1..N : Nth[m] = Nth[n] => m = n
               /\ \A t \in Thread : \E n \in 1..N : Nth[n] = t
<1>1. ExistsBijection(1..N, Thread)
  BY CrackerAssumption, FS_CardinalityType DEF N
<1>2. Nth \in Bijection(1..N, Thread)
  BY <1>1 DEF Nth, ExistsBijection
<1>3. Nth \in Injection(1..N, Thread) /\ Nth \in Surjection(1..N, Thread)
  BY <1>2 DEF Bijection
<1>4. Nth \in [1..N -> Thread] /\ \A t \in Thread : \E n \in 1..N : Nth[n] = t
  BY <1>3 DEF Surjection
<1>5. \A m, n \in 1..N : Nth[m] = Nth[n] => m = n
  BY <1>3 DEF Injection, IsInjective
<1>. QED
  BY <1>4, <1>5

LEMMA ZeroIsSum == ASSUME NEW f, \A t \in Thread : f[t] = 0 PROVE IsSum(f, 0)
<1>. DEFINE p == [n \in 0..N |-> 0]
<1>1. p \in [0..N -> Int] /\ p[0] = 0 /\ p[N] = 0
  BY Numbers
<1>2. \A n \in 1..N : p[n] = p[n - 1] + f[Nth[n]]
  BY Numbers, NthOK
<1>. QED
  BY <1>1, <1>2 DEF IsSum

\* One of the values changes.
LEMMA SumChanges ==
  ASSUME NEW f \in [Thread -> Int], NEW s \in Int, IsSum(f, s),
         NEW g \in [Thread -> Int], NEW t \in Thread, NEW d \in Int,
         \A u \in Thread : g[u] = IF u = t THEN f[u] + d ELSE f[u]
  PROVE  IsSum(g, s + d)
<1>1. PICK p \in [0..N -> Int] : /\ p[0] = 0 /\ p[N] = s
                                 /\ \A n \in 1..N : p[n] = p[n - 1] + f[Nth[n]]
  BY DEF IsSum
<1>2. PICK k \in 1..N : Nth[k] = t
  BY NthOK
<1>. DEFINE q == [n \in 0..N |-> IF n < k THEN p[n] ELSE p[n] + d]
<1>3. q \in [0..N -> Int] /\ q[0] = 0 /\ q[N] = s + d
  BY <1>1, <1>2, Numbers
<1>4. ASSUME NEW n \in 1..N PROVE q[n] = q[n - 1] + g[Nth[n]]
  <2>1. Nth[n] \in Thread /\ (Nth[n] = t <=> n = k) /\ f[Nth[n]] \in Int
    BY <1>2, NthOK
  <2>2. n - 1 \in 0..N /\ n \in 0..N /\ p[n] \in Int /\ p[n - 1] \in Int /\ p[n] = p[n - 1] + f[Nth[n]]
    BY <1>1, Numbers
  <2>3. g[Nth[n]] = IF n = k THEN f[Nth[n]] + d ELSE f[Nth[n]]
    BY <2>1
  <2>4. q[n] = (IF n < k THEN p[n] ELSE p[n] + d) /\ q[n - 1] = (IF n - 1 < k THEN p[n - 1] ELSE p[n - 1] + d)
    BY <2>2
  <2>. QED
    BY <2>1, <2>2, <2>3, <2>4
<1>. QED
  BY <1>3, <1>4 DEF IsSum

\* Every set of numbers has a least element.
LEMMA LeastNumber == \A S \in SUBSET Nat : S # {} => \E m \in S : \A n \in S : m <= n
<1>. SUFFICES ASSUME NEW S \in SUBSET Nat, S # {} PROVE \E m \in S : \A n \in S : m <= n
  OBVIOUS
<1>1. IsWellFoundedOn(OpToRel(<, Nat), Nat)
  BY NatLessThanWellFounded
<1>2. PICK m \in S : \A n \in S : <<n, m>> \notin OpToRel(<, Nat)
  BY <1>1, WFMin, Zenon
<1>3. \A n \in S : ~(n < m)
  BY <1>2 DEF OpToRel
<1>. QED
  BY <1>3

LEMMA SumOfZeros ==
  ASSUME NEW f, NEW s, IsSum(f, s), \A t \in Thread : f[t] = 0
  PROVE  s = 0
<1>1. PICK p \in [0..N -> Int] : /\ p[0] = 0 /\ p[N] = s
                                 /\ \A n \in 1..N : p[n] = p[n - 1] + f[Nth[n]]
  BY DEF IsSum
<1>. DEFINE S == {n \in 0..N : p[n] # 0}
<1>2. ASSUME S # {} PROVE FALSE
  <2>1. S \in SUBSET Nat
    BY Numbers
  <2>2. PICK m \in S : \A n \in S : m <= n
    BY <1>2, <2>1, LeastNumber
  <2>3. m \in 1..N /\ m - 1 \in 0..N /\ m - 1 \notin S
    BY <1>1, <2>2, Numbers
  <2>4. p[m - 1] = 0 /\ f[Nth[m]] = 0
    BY <2>3, NthOK
  <2>. QED
    BY <1>1, <2>2, <2>3, <2>4
<1>. QED
  BY <1>1, <1>2, Numbers
-----------------------------------------------------------------------------
(* The books of one user: what is made and not yet in hash_count is pending   *)
(* in the hash counts of the threads; what has been looked at and not told is *)
(* no password.                                                               *)
Scanning == {"check", "guess", "tell", "report"}
Pending == [t \in Thread |-> IF pc[t] \in Scanning THEN hashes[t] ELSE 0]
Missed(t, n) == \A k \in 1..n : <<task[t].part, k>> \notin solution[task[t].user]

BookTypes == /\ solution \in [1..Users -> SUBSET Guess] /\ password \in Guess \union {Nothing}
             /\ complete \in {0, 1} /\ found \in {0, 1} /\ hash_count \in Int
             /\ left \in [Thread -> 0..Count] /\ hashes \in [Thread -> Int]
             /\ made \in [1..Users -> Int] /\ starts \in Seq(1..Users)
             /\ summaries \in Seq([user : 1..Users, hashes : Int, password : Guess \union {Nothing}])

Ledger(r) ==
    /\ complete = 1 => hash_count = 0 /\ found = 0
    /\ \A u \in 1..Users : u > r + 1 => made[u] = 0
    /\ \/ /\ \A t \in Thread : pc[t] \in {"pull", "done"} \union Before1
          /\ Len(summaries) = r
          /\ (\E t \in Thread : pc[t] \in Scanning \union {"barrier1"}) => complete = 0
          /\ r < Users => IsSum(Pending, made[r + 1] - hash_count)
       \/ /\ complete = 0 /\ Len(summaries) = r /\ r < Users /\ made[r + 1] = hash_count
          /\ \A t \in Thread : pc[t] = "summary"
       \/ /\ complete = 1 /\ Len(summaries) = r + 1
          /\ \A t \in Thread : pc[t] \in Between

Search(r) ==
    /\ r < Users /\ found = 1 => password \in solution[r + 1]
    /\ \A t \in Thread :
          /\ pc[t] \in {"check", "guess", "tell"} => Missed(t, Count - left[t])
          /\ pc[t] \in {"guess", "tell"} => left[t] > 0
          /\ pc[t] = "tell" => Current(t) \in solution[task[t].user]
          /\ pc[t] \in {"report", "barrier1", "summary"}
                => found = 1 \/ complete = 1 \/ Missed(t, Count)

Books(r) == BookTypes /\ SummariesAreRight /\ Ledger(r) /\ Search(r)

\* A thread that works has a job of the user of this round.
LEMMA AtUser ==
  ASSUME IInv, NEW r \in Int, Round(r), NEW t \in Thread, pc[t] \in Working
  PROVE  /\ task[t] \in Job /\ task[t].user = r + 1 /\ r \in 0..Users /\ r < Users
         /\ r + 1 \in 1..Users /\ task[t].part \in Part
<1>1. task[t] \in Job /\ task[t].user = r + 1 /\ r \in 0..Users
  BY DEF Round, TasksOf
<1>2. task[t].user \in 1..Users /\ task[t].part \in Part
  BY <1>1 DEF Job
<1>. QED
  BY <1>1, <1>2, CrackerAssumption

LEMMA Appended ==
  ASSUME NEW S, NEW s \in Seq(S), NEW e \in S
  PROVE  /\ Append(s, e) \in Seq(S) /\ Len(Append(s, e)) = Len(s) + 1 /\ Len(s) \in Nat
         /\ \A k \in DOMAIN Append(s, e) : \/ k = Len(s) + 1 /\ Append(s, e)[k] = e
                                           \/ k \in DOMAIN s /\ Append(s, e)[k] = s[k]
  OBVIOUS

LEMMA BeginBooks ==
  ASSUME IInv, NEW r \in Int, Round(r), Books(r), NEW t \in Thread, Begin(t)
  PROVE  Books(r)'
<1>1. /\ pc[t] = "begin" /\ complete' = 0
      /\ starts' = IF complete = 1 THEN Append(starts, r + 1) ELSE starts
      /\ left' = [left EXCEPT ![t] = Count] /\ hashes' = [hashes EXCEPT ![t] = 0]
      /\ pc' = [pc EXCEPT ![t] = "check"]
      /\ UNCHANGED <<solution, jobs, found, password, hash_count, task, summaries, made>>
      /\ r < Users /\ r + 1 \in 1..Users /\ Count \in Nat
  BY AtUser, CrackerAssumption DEF Begin, Goto, Working
<1>2. /\ \A u \in Thread : /\ pc'[u] = IF u = t THEN "check" ELSE pc[u]
                           /\ left'[u] = IF u = t THEN Count ELSE left[u]
                           /\ hashes'[u] = IF u = t THEN 0 ELSE hashes[u]
  BY <1>1 DEF IInv, Books, BookTypes
<1>3. /\ \A u \in Thread : pc[u] \in {"pull", "done"} \union Before1
      /\ Len(summaries) = r /\ IsSum(Pending, made[r + 1] - hash_count)
  BY <1>1 DEF Books, Ledger, Between
<1>4. BookTypes'
  <2>1. starts' \in Seq(1..Users)
    BY <1>1, Appended DEF Books, BookTypes
  <2>2. left' \in [Thread -> 0..Count] /\ hashes' \in [Thread -> Int]
    BY <1>1 DEF Books, BookTypes
  <2>. QED
    BY <1>1, <2>1, <2>2 DEF Books, BookTypes
<1>5. SummariesAreRight'
  <2>1. CASE complete = 0
    BY <1>1, <2>1 DEF Books, SummariesAreRight, OpenedThenClosed
  <2>2. CASE complete = 1
    <3>1. Len(starts) = r /\ starts \in Seq(1..Users)
      BY <1>3, <2>2 DEF Books, BookTypes, SummariesAreRight, OpenedThenClosed
    <3>2. /\ Len(starts') = r + 1
          /\ \A k \in DOMAIN starts' : \/ k = r + 1 /\ starts'[k] = r + 1
                                       \/ k \in DOMAIN starts /\ starts'[k] = starts[k]
      BY <1>1, <2>2, <3>1, Appended
    <3>3. \A k \in DOMAIN starts' : starts'[k] = k
      BY <3>2 DEF Books, SummariesAreRight, OpenedThenClosed
    <3>. QED
      BY <1>1, <1>3, <3>2, <3>3 DEF Books, SummariesAreRight, OpenedThenClosed
  <2>. QED
    BY <2>1, <2>2 DEF Books, BookTypes
<1>6. Pending' = Pending
  BY <1>1, <1>2 DEF Pending, Scanning
<1>7. Ledger(r)'
  BY <1>1, <1>2, <1>3, <1>6 DEF Ledger, Books, Before1
<1>8. ASSUME NEW u \in Thread
      PROVE  /\ pc'[u] \in {"check", "guess", "tell"} => Missed(u, Count - left[u])'
             /\ pc'[u] \in {"guess", "tell"} => left'[u] > 0
             /\ pc'[u] = "tell" => (Current(u) \in solution[task[u].user])'
             /\ pc'[u] \in {"report", "barrier1", "summary"}
                   => found' = 1 \/ complete' = 1 \/ Missed(u, Count)'
  <2>1. CASE u = t
    BY <1>1, <1>2, <2>1 DEF Missed
  <2>2. CASE u # t
    <3>1. pc'[u] = pc[u] /\ left'[u] = left[u] /\ task'[u] = task[u]
      BY <1>1, <1>2, <2>2
    <3>2. pc[u] \in {"report", "barrier1", "summary"} => complete = 0
      BY <1>3, <1>1 DEF Books, Ledger, Scanning, Before1, Between
    <3>. QED
      BY <1>1, <3>1, <3>2 DEF Books, Search, Missed, Current
  <2>. QED
    BY <2>1, <2>2
<1>9. Search(r)'
  BY <1>1, <1>8 DEF Books, Search
<1>. QED
  BY <1>4, <1>5, <1>7, <1>9 DEF Books

\* A thread that searches goes on.
LEMMA ScanBooks ==
  ASSUME IInv, NEW r \in Int, Round(r), Books(r), NEW t \in Thread, NEW p,
         pc[t] \in Scanning, p \in Scanning \union {"barrier1"}, pc' = [pc EXCEPT ![t] = p],
         UNCHANGED <<solution, complete, task, starts, summaries>>, BookTypes',
         \A u \in Thread : u # t => left'[u] = left[u],
         \A u \in 1..Users : u # r + 1 => made'[u] = made[u],
         IsSum(Pending', made'[r + 1] - hash_count'),
         found' = 1 => password' \in solution[r + 1], found = 1 => found' = 1,
         p \in {"check", "guess", "tell"} => Missed(t, Count - left[t])',
         p \in {"guess", "tell"} => left'[t] > 0,
         p = "tell" => (Current(t) \in solution[task[t].user])',
         p \in {"report", "barrier1"} => found' = 1 \/ Missed(t, Count)
  PROVE  Books(r)'
<1>1. /\ \A u \in Thread : pc'[u] = IF u = t THEN p ELSE pc[u]
      /\ r < Users /\ r \in 0..Users /\ r + 1 \in 1..Users /\ Count \in Nat
  BY AtUser, CrackerAssumption DEF IInv, Scanning, Working
<1>2. /\ \A u \in Thread : pc[u] \in {"pull", "done"} \union Before1
      /\ Len(summaries) = r /\ complete = 0
  BY <1>1 DEF Books, Ledger, Scanning, Between
<1>3. SummariesAreRight'
  <2>1. DOMAIN summaries = 1..Len(summaries)
    BY DEF Books, BookTypes
  <2>2. \A k \in DOMAIN summaries : k \in 1..Users /\ k # r + 1
    BY <1>1, <1>2, <2>1, Numbers
  <2>. QED
    BY <1>1, <1>2, <2>2 DEF Books, SummariesAreRight, OpenedThenClosed
<1>4. Ledger(r)'
  BY <1>1, <1>2 DEF Ledger, Books, Before1, Scanning
<1>5. ASSUME NEW u \in Thread
      PROVE  /\ pc'[u] \in {"check", "guess", "tell"} => Missed(u, Count - left[u])'
             /\ pc'[u] \in {"guess", "tell"} => left'[u] > 0
             /\ pc'[u] = "tell" => (Current(u) \in solution[task[u].user])'
             /\ pc'[u] \in {"report", "barrier1", "summary"}
                   => found' = 1 \/ complete' = 1 \/ Missed(u, Count)'
  <2>1. CASE u = t
    BY <1>1, <2>1 DEF Missed, Scanning
  <2>2. CASE u # t
    BY <1>1, <2>2 DEF Books, Search, Missed, Current
  <2>. QED
    BY <2>1, <2>2
<1>6. Search(r)'
  BY <1>1, <1>5 DEF Books, Search
<1>. QED
  BY <1>3, <1>4, <1>6 DEF Books

LEMMA CheckBooks ==
  ASSUME IInv, NEW r \in Int, Round(r), Books(r), NEW t \in Thread, Check(t)
  PROVE  Books(r)'
<1>. DEFINE p == IF left[t] > 0 /\ found = 0 THEN "guess" ELSE "report"
<1>1. /\ pc[t] = "check" /\ pc' = [pc EXCEPT ![t] = p]
      /\ UNCHANGED <<solution, jobs, shared, local, ghosts>>
      /\ r < Users /\ r + 1 \in 1..Users /\ Count \in Nat /\ left[t] \in 0..Count
  BY AtUser, CrackerAssumption DEF Check, Goto, Working, Books, BookTypes
<1>2. UNCHANGED <<solution, complete, task, starts, summaries, left, made, hash_count, found, password, hashes>>
  BY <1>1 DEF shared, local, ghosts
<1>3. Pending' = Pending
  BY <1>1, <1>2 DEF Pending, Scanning, IInv
<1>4. IsSum(Pending, made[r + 1] - hash_count)
  BY <1>1 DEF Books, Ledger, Between
<1>5. Missed(t, Count - left[t]) /\ Missed(t, Count - left[t])'
  BY <1>1, <1>2 DEF Books, Search, Missed
<1>6. p = "report" => found = 1 \/ Missed(t, Count)
  BY <1>1, <1>5 DEF Books, BookTypes
<1>7. BookTypes'
  BY <1>2 DEF Books, BookTypes
<1>8. found = 1 => password \in solution[r + 1]
  BY <1>1 DEF Books, Search
<1>9. p \in {"guess", "report"} /\ (p = "guess" => left[t] > 0)
  OBVIOUS
<1>. HIDE DEF p
<1>. QED
  BY <1>1, <1>2, <1>3, <1>4, <1>5, <1>6, <1>7, <1>8, <1>9, ScanBooks DEF Scanning

LEMMA TryBooks ==
  ASSUME IInv, NEW r \in Int, Round(r), Books(r), NEW t \in Thread, Try(t)
  PROVE  Books(r)'
<1>1. /\ pc[t] = "guess" /\ hashes' = [hashes EXCEPT ![t] = @ + 1]
      /\ made' = [made EXCEPT ![r + 1] = @ + 1] /\ task[t].user = r + 1
      /\ UNCHANGED <<solution, jobs, complete, found, password, hash_count, task, starts, summaries>>
      /\ r < Users /\ r + 1 \in 1..Users /\ Count \in Nat /\ left[t] \in 0..Count /\ left[t] > 0
  BY AtUser, CrackerAssumption DEF Try, shared, Working, Books, BookTypes, Search
<1>2. PICK p : /\ pc' = [pc EXCEPT ![t] = p]
               /\ \/ p = "tell" /\ Current(t) \in solution[task[t].user] /\ left' = left
                  \/ p = "check" /\ Current(t) \notin solution[task[t].user] /\ left' = [left EXCEPT ![t] = @ - 1]
  BY DEF Try, Goto
<1>3. BookTypes'
  <2>1. left' \in [Thread -> 0..Count]
    <3>1. left \in [Thread -> 0..Count] /\ left[t] - 1 \in 0..Count
      BY <1>1 DEF Books, BookTypes
    <3>. QED
      BY <1>2, <3>1
  <2>2. hashes' \in [Thread -> Int] /\ made' \in [1..Users -> Int]
    <3>1. hashes \in [Thread -> Int] /\ made \in [1..Users -> Int]
      BY DEF Books, BookTypes
    <3>2. hashes[t] + 1 \in Int /\ made[r + 1] + 1 \in Int
      BY <1>1, <3>1
    <3>. QED
      BY <1>1, <3>1, <3>2
  <2>. QED
    BY <1>1, <2>1, <2>2 DEF Books, BookTypes
<1>4. \A u \in Thread : /\ left'[u] = IF u = t /\ p = "check" THEN left[u] - 1 ELSE left[u]
                        /\ hashes'[u] = IF u = t THEN hashes[u] + 1 ELSE hashes[u]
                        /\ pc'[u] = IF u = t THEN p ELSE pc[u]
                        /\ hashes[u] \in Int
  BY <1>1, <1>2 DEF IInv, Books, BookTypes
<1>5. IsSum(Pending', made'[r + 1] - hash_count')
  <2>1. IsSum(Pending, made[r + 1] - hash_count)
    BY <1>1 DEF Books, Ledger, Between
  <2>2. Pending \in [Thread -> Int] /\ Pending' \in [Thread -> Int]
    BY <1>4 DEF Pending
  <2>3. \A u \in Thread : Pending'[u] = IF u = t THEN Pending[u] + 1 ELSE Pending[u]
    BY <1>1, <1>2, <1>4 DEF Pending, Scanning
  <2>4. /\ made[r + 1] \in Int /\ hash_count \in Int
        /\ made'[r + 1] = made[r + 1] + 1 /\ hash_count' = hash_count
    BY <1>1 DEF Books, BookTypes
  <2>5. IsSum(Pending', (made[r + 1] - hash_count) + 1)
    BY <2>1, <2>2, <2>3, <2>4, SumChanges
  <2>6. (made[r + 1] - hash_count) + 1 = made'[r + 1] - hash_count'
    BY <2>4
  <2>. QED
    BY <2>5, <2>6
<1>6. Missed(t, Count - left[t])'
  <2>1. Missed(t, Count - left[t])
    BY <1>1 DEF Books, Search
  <2>2. CASE p = "tell"
    BY <1>1, <1>2, <2>1, <2>2 DEF Missed
  <2>3. CASE p = "check"
    <3>1. Count - left'[t] = (Count - left[t]) + 1 /\ Count - left[t] \in Nat
      BY <1>1, <1>4, <2>3
    <3>2. <<task[t].part, (Count - left[t]) + 1>> \notin solution[task[t].user]
      BY <1>2, <2>3 DEF Current
    <3>. QED
      BY <1>1, <2>1, <3>1, <3>2 DEF Missed
  <2>. QED
    BY <1>2, <2>2, <2>3
<1>7. /\ p = "tell" => (Current(t) \in solution[task[t].user])' /\ left'[t] > 0
      /\ found = 1 => password \in solution[r + 1]
      /\ \A u \in 1..Users : u # r + 1 => made'[u] = made[u]
  BY <1>1, <1>2, <1>4 DEF Current, Books, Search, BookTypes
<1>. QED
  BY <1>1, <1>2, <1>3, <1>4, <1>5, <1>6, <1>7, ScanBooks DEF Scanning

LEMMA TellBooks ==
  ASSUME IInv, NEW r \in Int, Round(r), Books(r), NEW t \in Thread, Tell(t)
  PROVE  Books(r)'
<1>1. /\ pc[t] = "tell" /\ pc' = [pc EXCEPT ![t] = "report"] /\ found' = 1 /\ password' = Current(t)
      /\ UNCHANGED <<solution, jobs, complete, hash_count, task, left, hashes, starts, summaries, made>>
      /\ r < Users /\ r + 1 \in 1..Users /\ task[t].user = r + 1
      /\ Current(t) \in solution[r + 1]
  BY AtUser DEF Tell, Goto, local, ghosts, Working, Books, Search
<1>2. BookTypes'
  BY <1>1 DEF Books, BookTypes
<1>3. Pending' = Pending
  BY <1>1 DEF Pending, Scanning, IInv
<1>4. IsSum(Pending, made[r + 1] - hash_count)
  BY <1>1 DEF Books, Ledger, Between
<1>. QED
  BY <1>1, <1>2, <1>3, <1>4, ScanBooks DEF Scanning

LEMMA ReportBooks ==
  ASSUME IInv, NEW r \in Int, Round(r), Books(r), NEW t \in Thread, Report(t)
  PROVE  Books(r)'
<1>1. /\ pc[t] = "report" /\ pc' = [pc EXCEPT ![t] = "barrier1"] /\ hash_count' = hash_count + hashes[t]
      /\ UNCHANGED <<solution, jobs, complete, found, password, task, left, hashes, starts, summaries, made>>
      /\ r < Users /\ r + 1 \in 1..Users /\ task[t].user = r + 1
  BY AtUser DEF Report, Goto, local, ghosts, Working
<1>2. BookTypes'
  BY <1>1 DEF Books, BookTypes
<1>3. IsSum(Pending', made'[r + 1] - hash_count')
  <2>1. IsSum(Pending, made[r + 1] - hash_count)
    BY <1>1 DEF Books, Ledger, Between
  <2>2. Pending \in [Thread -> Int] /\ Pending' \in [Thread -> Int]
    BY <1>1 DEF Pending, Books, BookTypes
  <2>3. \A u \in Thread : hashes[u] \in Int /\ pc'[u] = IF u = t THEN "barrier1" ELSE pc[u]
    BY <1>1 DEF IInv, Books, BookTypes
  <2>4. \A u \in Thread : Pending'[u] = IF u = t THEN Pending[u] + (- hashes[t]) ELSE Pending[u]
    BY <1>1, <2>3 DEF Pending, Scanning
  <2>8. made[r + 1] \in Int /\ hash_count \in Int /\ hashes[t] \in Int
    BY <1>1 DEF Books, BookTypes
  <2>5. made[r + 1] \in Int /\ hash_count \in Int /\ (- hashes[t]) \in Int
    BY <2>8
  <2>6. IsSum(Pending', (made[r + 1] - hash_count) + (- hashes[t]))
    BY <2>1, <2>2, <2>4, <2>5, SumChanges
  <2>7. (made[r + 1] - hash_count) + (- hashes[t]) = made'[r + 1] - hash_count'
    BY <1>1, <2>8
  <2>. QED
    BY <2>6, <2>7
<1>4. found = 1 \/ Missed(t, Count)
  <2>1. complete = 0
    BY <1>1 DEF Books, Ledger, Scanning, Between
  <2>. QED
    BY <1>1, <2>1 DEF Books, Search
<1>5. /\ found = 1 => password \in solution[r + 1]
      /\ \A u \in Thread : left'[u] = left[u]
      /\ \A u \in 1..Users : made'[u] = made[u]
      /\ found' = found /\ password' = password
  BY <1>1 DEF Books, Search
<1>6. UNCHANGED <<solution, complete, task, starts, summaries>>
  BY <1>1
<1>7. PICK p : p = "barrier1"
  OBVIOUS
<1>8. /\ pc[t] \in Scanning /\ p \in Scanning \union {"barrier1"} /\ pc' = [pc EXCEPT ![t] = p]
      /\ p \notin {"check", "guess", "tell"} /\ p # "tell" /\ p \notin {"guess", "tell"}
  BY <1>1, <1>7 DEF Scanning
<1>. QED
  BY <1>2, <1>3, <1>4, <1>5, <1>6, <1>8, ScanBooks

LEMMA PullBooks ==
  ASSUME IInv, NEW r \in Int, Round(r), Books(r), NEW t \in Thread, Pull(t)
  PROVE  Books(r)'
<1>1. PICK p \in {"done", "begin"} : pc' = [pc EXCEPT ![t] = p]
  BY DEF Pull, Goto
<1>2. /\ pc[t] = "pull" /\ \A u \in Thread : u # t => task'[u] = task[u]
      /\ UNCHANGED <<solution, complete, found, password, hash_count, left, hashes, starts, summaries, made>>
  BY DEF Pull, shared, ghosts, IInv
<1>3. \A u \in Thread : pc'[u] = IF u = t THEN p ELSE pc[u]
  BY <1>1 DEF IInv
<1>4. Pending' = Pending
  BY <1>2, <1>3 DEF Pending, Scanning
<1>5. BookTypes' /\ SummariesAreRight'
  BY <1>2 DEF Books, BookTypes, SummariesAreRight, OpenedThenClosed
<1>6. Ledger(r)'
  <2>1. /\ \A u \in Thread : pc[u] \in {"pull", "done"} \union Before1
        /\ Len(summaries) = r
        /\ (\E u \in Thread : pc[u] \in Scanning \union {"barrier1"}) => complete = 0
        /\ r < Users => IsSum(Pending, made[r + 1] - hash_count)
    BY <1>2 DEF Books, Ledger, Between
  <2>2. \A u \in Thread : pc'[u] \in {"pull", "done"} \union Before1
    BY <1>3, <2>1 DEF Before1
  <2>3. (\E u \in Thread : pc'[u] \in Scanning \union {"barrier1"}) => complete' = 0
    BY <1>2, <1>3, <2>1 DEF Scanning
  <2>. QED
    BY <1>2, <1>4, <2>1, <2>2, <2>3 DEF Books, Ledger
<1>7. Search(r)'
  BY <1>2, <1>3 DEF Books, Search, Missed, Current
<1>. QED
  BY <1>5, <1>6, <1>7 DEF Books

\* Together the threads have searched every part.
LEMMA NoneLeft ==
  ASSUME IInv, NEW r \in Int, Round(r), Books(r), r + 1 \in 1..Users,
         \A t \in Thread : pc[t] = "summary", complete = 0, found = 0
  PROVE  solution[r + 1] = {}
<1>. DEFINE f == [t \in Thread |-> task[t].part]
<1>1. \A t \in Thread : task[t].user = r + 1 /\ task[t].part \in Part /\ Missed(t, Count)
  BY AtUser DEF Working, Books, Search
<1>2. f \in [Thread -> 1..N] /\ \A t, u \in Thread : f[t] = f[u] => t = u
  BY <1>1 DEF Part, N, Round, TasksOf, Working
<1>3. f \in Surjection(Thread, 1..N)
  <2>1. f \in Injection(Thread, 1..N)
    BY <1>2, Fun_IsInj
  <2>2. IsFiniteSet(1..N) /\ Cardinality(1..N) = N
    BY FS_Interval, Numbers
  <2>. QED
    BY <2>1, <2>2, FS_Injection DEF N
<1>4. \A k \in 1..N : \E t \in Thread : f[t] = k
  BY <1>3 DEF Surjection
<1>5. ASSUME NEW g \in solution[r + 1] PROVE FALSE
  <2>1. g \in Guess
    BY DEF Books, BookTypes
  <2>2. PICK k \in 1..N, n \in 1..Count : g = <<k, n>>
    BY <2>1 DEF Guess, Part, N
  <2>3. PICK t \in Thread : task[t].part = k
    BY <1>4
  <2>. QED
    BY <1>1, <1>5, <2>2, <2>3 DEF Missed
<1>. QED
  BY <1>5

LEMMA SummaryBooks ==
  ASSUME IInv, NEW r \in Int, Round(r), Books(r), NEW t \in Thread, Summary(t)
  PROVE  Books(r)'
<1>1. /\ pc[t] = "summary" /\ pc' = [pc EXCEPT ![t] = "barrier2"]
      /\ UNCHANGED <<solution, jobs, password, task, left, hashes, starts, made>>
      /\ r < Users /\ r + 1 \in 1..Users /\ task[t].user = r + 1 /\ r \in 0..Users
  BY AtUser DEF Summary, Goto, local, Working
<1>2. \A u \in Thread : pc'[u] = IF u = t THEN "barrier2" ELSE pc[u]
  BY <1>1 DEF IInv
<1>3. \A u \in Thread : pc[u] \in Between /\ pc'[u] \in Between
  BY <1>1, <1>2 DEF Books, Ledger, Between, Before1
<1>4. CASE complete = 1
  <2>1. UNCHANGED <<summaries, complete, hash_count, found>>
    BY <1>4 DEF Summary
  <2>2. BookTypes' /\ SummariesAreRight'
    BY <1>1, <2>1 DEF Books, BookTypes, SummariesAreRight, OpenedThenClosed
  <2>3. Ledger(r)'
    <3>1. Len(summaries) = r + 1
      BY <1>1, <1>4 DEF Books, Ledger, Before1
    <3>. QED
      BY <1>1, <1>3, <1>4, <2>1, <3>1 DEF Books, Ledger
  <2>4. Search(r)'
    BY <1>1, <1>2, <1>3, <1>4, <2>1 DEF Books, Search, Between
  <2>. QED
    BY <2>2, <2>3, <2>4 DEF Books
<1>5. CASE complete = 0
  <2>. DEFINE e == [user |-> r + 1, hashes |-> hash_count, password |-> IF found = 1 THEN password ELSE Nothing]
              S == [user : 1..Users, hashes : Int, password : Guess \union {Nothing}]
  <2>1. /\ summaries' = Append(summaries, e) /\ complete' = 1 /\ hash_count' = 0 /\ found' = 0
    BY <1>1, <1>5 DEF Summary
  <2>2. /\ Len(summaries) = r /\ made[r + 1] = hash_count /\ \A u \in Thread : pc[u] = "summary"
    BY <1>1, <1>5 DEF Books, Ledger, Before1
  <2>3. e \in S /\ summaries \in Seq(S)
    BY <1>1 DEF Books, BookTypes
  <2>4. /\ e.user = r + 1 /\ e.hashes = made[r + 1]
        /\ IF solution[r + 1] = {} THEN e.password = Nothing ELSE e.password \in solution[r + 1]
    <3>1. CASE found = 1
      <4>1. password \in solution[r + 1]
        BY <1>1, <3>1 DEF Books, Search
      <4>. QED
        BY <2>2, <3>1, <4>1
    <3>2. CASE found = 0
      <4>1. solution[r + 1] = {}
        BY <1>1, <1>5, <2>2, <3>2, NoneLeft
      <4>. QED
        BY <2>2, <3>2, <4>1
    <3>. QED
      BY <3>1, <3>2 DEF Books, BookTypes
  <2>. HIDE DEF e, S
  <2>5. /\ summaries' \in Seq(S) /\ Len(summaries') = r + 1
        /\ \A k \in DOMAIN summaries' : \/ k = r + 1 /\ summaries'[k] = e
                                        \/ k \in DOMAIN summaries /\ summaries'[k] = summaries[k]
    BY <2>1, <2>2, <2>3, Appended
  <2>6. BookTypes'
    BY <1>1, <2>1, <2>5 DEF Books, BookTypes, S
  <2>7. \A k \in DOMAIN summaries' :
            /\ summaries'[k].user = k /\ summaries'[k].hashes = made[k]
            /\ IF solution[k] = {} THEN summaries'[k].password = Nothing
               ELSE summaries'[k].password \in solution[k]
    BY <2>4, <2>5 DEF Books, SummariesAreRight, OpenedThenClosed
  <2>8. \A k \in DOMAIN starts : starts[k] = k /\ Len(starts) - Len(summaries) = 1
    BY <1>5 DEF Books, SummariesAreRight, OpenedThenClosed
  <2>9. Len(starts) = r + 1
    <3>1. Len(starts) - Len(summaries) = 1 /\ Len(starts) \in Nat
      BY <1>5 DEF Books, BookTypes, SummariesAreRight, OpenedThenClosed
    <3>. QED
      BY <1>1, <2>2, <3>1
  <2>10. SummariesAreRight'
    <3>1. Len(starts') - Len(summaries') = 0
      BY <1>1, <2>5, <2>9
    <3>2. \A k \in DOMAIN starts' : starts'[k] = k
      BY <1>1, <2>8
    <3>. QED
      BY <1>1, <2>1, <2>7, <3>1, <3>2 DEF SummariesAreRight, OpenedThenClosed
  <2>11. Ledger(r)'
    BY <1>1, <1>3, <2>1, <2>5 DEF Books, Ledger
  <2>12. Search(r)'
    BY <1>1, <1>2, <1>3, <2>1 DEF Books, Search, Between
  <2>. QED
    BY <2>6, <2>10, <2>11, <2>12 DEF Books
<1>. QED
  BY <1>4, <1>5 DEF Books, BookTypes

LEMMA MeetBooks ==
  ASSUME IInv, NEW r \in Int, Round(r), Books(r), Meet
  PROVE  (Round(r)' /\ Books(r)') \/ (Round(r + 1)' /\ Books(r + 1)')
<1>1. /\ UNCHANGED <<solution, complete, found, password, hash_count, task, left, hashes, starts, summaries, made>>
      /\ r < Users /\ r \in 0..Users /\ r + 1 \in 1..Users
  BY MeetIInv, Numbers DEF Meet, shared, local, ghosts
<1>2. BookTypes' /\ SummariesAreRight'
  BY <1>1 DEF Books, BookTypes, SummariesAreRight, OpenedThenClosed
<1>3. ASSUME \A t \in Thread : pc[t] = "barrier1" /\ pc'[t] = "summary", Round(r)'
      PROVE  Round(r)' /\ Books(r)'
  <2>0. PICK t \in Thread : TRUE
    BY CrackerAssumption
  <2>1. complete = 0 /\ Len(summaries) = r /\ IsSum(Pending, made[r + 1] - hash_count)
    BY <1>1, <1>3, <2>0 DEF Books, Ledger, Between
  <2>2. \A u \in Thread : Pending[u] = 0
    BY <1>3 DEF Pending, Scanning
  <2>3. made[r + 1] - hash_count = 0 /\ made[r + 1] \in Int /\ hash_count \in Int
    BY <1>1, <2>1, <2>2, SumOfZeros DEF Books, BookTypes
  <2>4. Ledger(r)'
    BY <1>1, <1>3, <2>1, <2>3 DEF Books, Ledger
  <2>5. Search(r)'
    BY <1>1, <1>3 DEF Books, Search, Missed
  <2>. QED
    BY <1>2, <1>3, <2>4, <2>5 DEF Books
<1>4. ASSUME \A t \in Thread : pc[t] = "barrier2" /\ pc'[t] = "pull", Round(r + 1)'
      PROVE  Round(r + 1)' /\ Books(r + 1)'
  <2>0. PICK t \in Thread : TRUE
    BY CrackerAssumption
  <2>1. complete = 1 /\ Len(summaries) = r + 1 /\ hash_count = 0 /\ found = 0
    BY <1>4, <2>0 DEF Books, Ledger, Before1
  <2>2. \A u \in Thread : Pending'[u] = 0
    BY <1>4 DEF Pending, Scanning
  <2>3. r + 1 < Users => made[r + 2] = 0 /\ (r + 1) + 1 = r + 2
    BY <1>1, Numbers DEF Books, Ledger
  <2>4. r + 1 < Users => IsSum(Pending', made[(r + 1) + 1] - hash_count)
    <3>1. IsSum(Pending', 0)
      BY <2>2, ZeroIsSum
    <3>. QED
      BY <2>1, <2>3, <3>1
  <2>5. \A u \in 1..Users : u > (r + 1) + 1 => made[u] = 0
    BY <1>1 DEF Books, Ledger
  <2>6. Ledger(r + 1)'
    <3>1. \A u \in Thread : pc'[u] \in {"pull", "done"} \union Before1
      BY <1>4
    <3>2. ~ \E u \in Thread : pc'[u] \in Scanning \union {"barrier1"}
      BY <1>4 DEF Scanning
    <3>. QED
      BY <1>1, <2>1, <2>4, <2>5, <3>1, <3>2 DEF Ledger
  <2>7. Search(r + 1)'
    BY <1>1, <1>4, <2>1 DEF Search
  <2>. QED
    BY <1>2, <1>4, <2>6, <2>7 DEF Books
<1>. QED
  BY <1>3, <1>4, MeetIInv

BookInv == IInv /\ \E r \in Int : Round(r) /\ Books(r)

LEMMA InitBooks == Init => BookInv
<1>. SUFFICES ASSUME Init PROVE \E r \in Int : Round(r) /\ Books(r)
  BY InitIInv DEF BookInv
<1>1. PICK r \in Int : Round(r)
  BY InitIInv DEF IInv
<1>2. r = 0
  <2>1. Pulled = 0 /\ Cardinality(Moved) = 0
    <3>1. Moved = {}
      BY DEF Init, Moved
    <3>2. Len(jobs) = (Users + 1) * N
      BY FilledOK DEF Init
    <3>. QED
      BY <3>1, <3>2, Numbers, FS_EmptySet DEF Pulled
  <2>2. r * N = 0 /\ r \in 0..Users
    BY <1>1, <2>1, Numbers DEF Round
  <2>3. ASSUME r >= 1 PROVE FALSE
    <3>1. (r - 1) * N >= 0 /\ (r - 1) * N = r * N - N
      BY <2>2, <2>3, Numbers
    <3>. QED
      BY <2>2, <3>1, Numbers
  <2>. QED
    BY <2>2, <2>3, Numbers
<1>3. BookTypes
  BY CrackerAssumption DEF Init, BookTypes
<1>4. SummariesAreRight
  BY DEF Init, SummariesAreRight, OpenedThenClosed
<1>5. Ledger(0)
  <2>1. \A t \in Thread : Pending[t] = 0
    BY DEF Init, Pending, Scanning
  <2>2. IsSum(Pending, 0)
    BY <2>1, ZeroIsSum
  <2>3. 0 < Users => made[0 + 1] - hash_count = 0
    BY Numbers DEF Init
  <2>4. Len(summaries) = 0
    BY DEF Init
  <2>5. ~ \E t \in Thread : pc[t] \in Scanning \union {"barrier1"}
    BY DEF Init, Scanning
  <2>6. complete = 1 /\ hash_count = 0 /\ found = 0 /\ \A u \in 1..Users : made[u] = 0
    BY DEF Init
  <2>7. \A t \in Thread : pc[t] \in {"pull", "done"} \union Before1
    BY DEF Init
  <2>. QED
    BY <2>2, <2>3, <2>4, <2>5, <2>6, <2>7 DEF Ledger
<1>6. Search(0)
  BY DEF Init, Search
<1>. QED
  BY <1>1, <1>2, <1>3, <1>4, <1>5, <1>6 DEF Books

LEMMA NextBooks == BookInv /\ [Next]_vars => BookInv'
<1>. SUFFICES ASSUME BookInv, [Next]_vars PROVE BookInv'
  OBVIOUS
<1>1. PICK r \in Int : Round(r) /\ Books(r)
  BY DEF BookInv
<1>2. IInv /\ IInv' /\ (~Meet => Round(r)')
  BY <1>1, NextIInv DEF BookInv
<1>3. CASE Meet
  <2>1. (Round(r)' /\ Books(r)') \/ (Round(r + 1)' /\ Books(r + 1)')
    BY <1>1, <1>2, <1>3, MeetBooks
  <2>2. r \in Int /\ r + 1 \in Int
    OBVIOUS
  <2>. QED
    BY <1>2, <2>1, <2>2 DEF BookInv
<1>4. CASE ~Meet
  <2>1. ASSUME UNCHANGED vars PROVE Books(r)'
    <3>1. UNCHANGED <<solution, complete, found, password, hash_count, pc, task, left, hashes, starts, summaries, made>>
      BY <2>1 DEF vars, shared, local, ghosts
    <3>2. Pending' = Pending
      BY <3>1 DEF Pending
    <3>3. BookTypes' /\ SummariesAreRight'
      BY <1>1, <3>1 DEF Books, BookTypes, SummariesAreRight, OpenedThenClosed
    <3>4. Ledger(r)'
      BY <1>1, <3>1, <3>2 DEF Books, Ledger
    <3>5. Search(r)'
      BY <1>1, <3>1 DEF Books, Search, Missed, Current
    <3>. QED
      BY <3>3, <3>4, <3>5 DEF Books
  <2>2. Books(r)'
    BY <1>1, <1>2, <1>4, <2>1, PullBooks, BeginBooks, CheckBooks, TryBooks, TellBooks,
       ReportBooks, SummaryBooks DEF Next, Step, Finished
  <2>. QED
    BY <1>2, <1>4, <2>2 DEF BookInv
<1>. QED
  BY <1>3, <1>4

(* Every summary is right: the number of guesses is the one all threads made, *)
(* a password is one of that user, and a failure means there is none.         *)
THEOREM SummariesCorrect == Spec => []SummariesAreRight
<1>1. BookInv => SummariesAreRight
  BY DEF BookInv, Books
<1>. QED
  BY <1>1, InitBooks, NextBooks, PTL DEF Spec
-----------------------------------------------------------------------------
(* MapReduce.                                                                 *)

Splitting == {"split", "wait_split"}
Mapping == {"map", "wait_map"}

PipelineTypeOK ==
    /\ at \in Splitting \union Mapping \union {"reduce", "wait_reduce", "done"}
    /\ i \in Mapper
    /\ status \in [Process -> {"new", "running", "ended", "failed"}]
    /\ data \in [Workers -> Nat] /\ in_pipe \in [Pipe -> Nat]
    /\ writers \in [Pipe -> SUBSET Process]

\* The parent has forked every process that its program point says.
AllForked ==
    /\ \A m \in Mapper : at # "split" \/ m < i => status[<<"splitter", m>>] # "new"
    /\ \A m \in Mapper : (at \notin Splitting \union {"map"}) \/ (at = "map" /\ m < i)
                            => status[<<"mapper", m>>] # "new"
    /\ at \in {"wait_reduce", "done"} => status[REDUCER] # "new"

\* The parent keeps the write ends that its later children need.
ParentWrites ==
    /\ at \in Splitting => \A q \in Pipe : PARENT \in writers[q]
    /\ at \in Mapping \union {"reduce"} => PARENT \in writers[0]

\* A worker that runs can write its output; one that has ended wrote all of
\* it, after the end of its input.
WorkersWrite == \A p \in Workers : status[p] = "running" => p \in writers[Output(p)]
EndedIsDone ==
    /\ \A p \in Workers : status[p] = "ended" => data[p] = 0
    /\ \A m \in Mapper : status[<<"mapper", m>>] = "ended" => AtEnd(m)
    /\ status[REDUCER] = "ended" => AtEnd(0)
    /\ at = "done" => Ended(REDUCER)

PipelineInv == PipelineTypeOK /\ AllForked /\ ParentWrites /\ WorkersWrite /\ EndedIsDone

LEMMA Pipes ==
  /\ Mappers \in Nat \ {0} /\ Capacity \in Nat /\ 0 \in Pipe /\ Mapper \subseteq Pipe /\ 1 \in Mapper
  /\ PARENT \in Process /\ REDUCER \in Process /\ PARENT # REDUCER
  /\ PARENT \notin Workers /\ REDUCER \notin Workers
  /\ \A m \in Mapper : /\ <<"splitter", m>> \in Workers /\ <<"mapper", m>> \in Workers
                       /\ Output(<<"splitter", m>>) = m /\ Output(<<"mapper", m>>) = 0 /\ m # 0
  /\ \A p \in Workers : /\ p \in Process /\ Output(p) \in Pipe
                        /\ \E m \in Mapper : p = <<"splitter", m>> \/ p = <<"mapper", m>>
  BY MapReduceAssumption DEF Pipe, Mapper, PARENT, REDUCER, Process, Workers, Output

LEMMA PipelineInit == MapReduceInit => PipelineInv
<1>. SUFFICES ASSUME MapReduceInit PROVE PipelineInv
  OBVIOUS
<1>1. data \in [Workers -> Nat]
  <2>1. PICK d \in [Mapper -> 0..MaxData] :
          data = [p \in Workers |-> IF p[1] = "splitter" THEN d[p[2]] ELSE 0]
    BY DEF MapReduceInit
  <2>2. \A p \in Workers : p[2] \in Mapper
    BY DEF Workers
  <2>3. \A m \in Mapper : d[m] \in Nat
    BY MapReduceAssumption
  <2>. QED
    BY <2>1, <2>2, <2>3
<1>2. PipelineTypeOK
  BY <1>1, Pipes DEF MapReduceInit, PipelineTypeOK, Splitting
<1>3. \A m \in Mapper : ~(m < 1)
  BY DEF Mapper
<1>. QED
  BY <1>2, <1>3, Pipes DEF MapReduceInit, PipelineInv, AllForked, ParentWrites, WorkersWrite,
     EndedIsDone, Splitting, Mapping

\* What a fork leaves: the child runs, or counts as failed; nobody but the
\* child gets a write end, and the child gets those the parent has.
LEMMA ForkDoes ==
  ASSUME PipelineInv, NEW p \in Process, NEW input, NEW closed \in [Pipe -> SUBSET {PARENT}],
         Fork(p, input, closed)
  PROVE  /\ \E s \in {"running", "failed"} : status' = [status EXCEPT ![p] = s]
         /\ writers' \in [Pipe -> SUBSET Process]
         /\ \A q \in Pipe : /\ \A r \in Process : r \in writers'[q] => r \in writers[q] \/ (r = p /\ PARENT \in writers[q])
                            /\ \A r \in Process \ {PARENT} : r \in writers[q] => r \in writers'[q]
                            /\ closed[q] = {} => writers[q] \subseteq writers'[q]
                            /\ q # input /\ p # PARENT /\ PARENT \in writers[q] /\ status'[p] = "running" => p \in writers'[q]
<1>. USE DEF PipelineInv, PipelineTypeOK
<1>1. CASE /\ status' = [status EXCEPT ![p] = "running"]
           /\ writers' = [q \in Pipe |->
                 IF PARENT \in writers[q] /\ q # input THEN (writers[q] \union {p}) \ closed[q]
                 ELSE writers[q] \ closed[q]]
  BY <1>1
<1>2. CASE /\ status' = [status EXCEPT ![p] = "failed"]
           /\ writers' = [q \in Pipe |-> writers[q] \ closed[q]]
  BY <1>2
<1>. QED
  BY <1>1, <1>2 DEF Fork

LEMMA LoopDoes ==
  ASSUME NEW here, NEW there, Loop(here, there), i \in Mapper
  PROVE  /\ i' \in Mapper
         /\ \/ at' = here /\ i < Mappers /\ \A m \in Mapper : m < i' => m < i \/ m = i
            \/ at' = there /\ i = Mappers /\ i' = 1 /\ \A m \in Mapper : (m < i \/ m = i) /\ ~(m < i')
<1>. USE MapReduceAssumption DEF Mapper, Loop
<1>1. CASE i < Mappers
  BY <1>1
<1>2. CASE ~(i < Mappers)
  BY <1>2
<1>. QED
  BY <1>1, <1>2

LEMMA NothingClosed == NoEnds \in [Pipe -> SUBSET {PARENT}] /\ \A q \in Pipe : NoEnds[q] = {}
  BY DEF NoEnds

LEMMA OneClosed ==
  ASSUME NEW q \in Pipe
  PROVE  /\ Close(q) \in [Pipe -> SUBSET {PARENT}] /\ \A r \in Pipe : r # q => Close(q)[r] = {}
  BY DEF NoEnds, Close

\* A fork for a worker whose output the parent still holds open.
LEMMA ForkKeeps ==
  ASSUME PipelineInv, NEW p \in Process \ {PARENT}, NEW input, NEW closed \in [Pipe -> SUBSET {PARENT}],
         Fork(p, input, closed), UNCHANGED <<data, in_pipe>>,
         p \in Workers => Output(p) # input /\ PARENT \in writers[Output(p)]
  PROVE  /\ WorkersWrite'
         /\ status' \in [Process -> {"new", "running", "ended", "failed"}]
         /\ data' \in [Workers -> Nat] /\ in_pipe' \in [Pipe -> Nat]
         /\ writers' \in [Pipe -> SUBSET Process]
         /\ \A r \in Process : (status[r] # "new" => status'[r] # "new") /\ status'[p] # "new"
         /\ \A r \in Workers : status'[r] = "ended" => data'[r] = 0
         /\ \A m \in Mapper : status'[<<"mapper", m>>] = "ended" => AtEnd(m)'
         /\ status'[REDUCER] = "ended" => AtEnd(0)'
         /\ \A q \in Pipe : closed[q] = {} => writers[q] \subseteq writers'[q]
<1>. USE DEF PipelineInv, PipelineTypeOK
<1>1. PICK s \in {"running", "failed"} : status' = [status EXCEPT ![p] = s]
  BY ForkDoes
<1>2. /\ writers' \in [Pipe -> SUBSET Process]
      /\ \A q \in Pipe : /\ \A r \in Process : r \in writers'[q] => r \in writers[q] \/ (r = p /\ PARENT \in writers[q])
                         /\ \A r \in Process \ {PARENT} : r \in writers[q] => r \in writers'[q]
                         /\ closed[q] = {} => writers[q] \subseteq writers'[q]
                         /\ q # input /\ PARENT \in writers[q] /\ status'[p] = "running" => p \in writers'[q]
  BY ForkDoes
<1>3. \A q \in Pipe : AtEnd(q) => AtEnd(q)'
  BY <1>2 DEF AtEnd
<1>4. \A r \in Process : status'[r] = "ended" => status[r] = "ended"
  BY <1>1
<1>5. WorkersWrite'
  <2>1. \A r \in Workers : r \in Process /\ r # PARENT /\ Output(r) \in Pipe
    BY Pipes
  <2>. SUFFICES ASSUME NEW r \in Workers, status'[r] = "running" PROVE r \in writers'[Output(r)]
    BY DEF WorkersWrite
  <2>2. CASE r = p
    BY <1>2, <2>1, <2>2
  <2>3. CASE r # p
    <3>1. status[r] = "running"
      BY <1>1, <2>1, <2>3
    <3>2. r \in writers[Output(r)]
      BY <3>1 DEF WorkersWrite
    <3>. QED
      BY <1>2, <2>1, <3>2
  <2>. QED
    BY <2>2, <2>3
<1>6. /\ \A r \in Workers : status'[r] = "ended" => data'[r] = 0
      /\ \A m \in Mapper : status'[<<"mapper", m>>] = "ended" => AtEnd(m)'
      /\ status'[REDUCER] = "ended" => AtEnd(0)'
  BY <1>3, <1>4, Pipes DEF EndedIsDone
<1>7. \A r \in Process : (status[r] # "new" => status'[r] # "new") /\ status'[p] # "new"
  BY <1>1
<1>. QED
  BY <1>1, <1>2, <1>5, <1>6, <1>7

LEMMA SplitKeeps == ASSUME PipelineInv, Split PROVE PipelineInv'
<1>. DEFINE p == <<"splitter", i>>
<1>0. /\ at = "split" /\ i \in Mapper /\ i # 0
      /\ p \in Workers /\ p \in Process /\ p # PARENT /\ Output(p) = i /\ i \in Pipe
  BY Pipes DEF Split, PipelineInv, PipelineTypeOK
<1>1. Fork(p, -1, NoEnds) /\ UNCHANGED <<data, in_pipe>> /\ Loop("split", "wait_split")
  BY DEF Split
<1>2. i # -1 /\ PARENT \in writers[i]
  BY <1>0 DEF PipelineInv, ParentWrites, Splitting, Mapper
<1>. HIDE DEF p
<1>3. /\ WorkersWrite'
      /\ status' \in [Process -> {"new", "running", "ended", "failed"}]
      /\ data' \in [Workers -> Nat] /\ in_pipe' \in [Pipe -> Nat]
      /\ writers' \in [Pipe -> SUBSET Process]
      /\ \A r \in Process : (status[r] # "new" => status'[r] # "new") /\ status'[p] # "new"
      /\ \A r \in Workers : status'[r] = "ended" => data'[r] = 0
      /\ \A m \in Mapper : status'[<<"mapper", m>>] = "ended" => AtEnd(m)'
      /\ status'[REDUCER] = "ended" => AtEnd(0)'
      /\ \A q \in Pipe : writers[q] \subseteq writers'[q]
  BY <1>0, <1>1, <1>2, NothingClosed, ForkKeeps
<1>4. /\ i' \in Mapper
      /\ \/ at' = "split" /\ \A m \in Mapper : m < i' => m < i \/ m = i
         \/ at' = "wait_split" /\ i' = 1 /\ \A m \in Mapper : (m < i \/ m = i) /\ ~(m < i')
  BY <1>0, <1>1, LoopDoes
<1>5. AllForked'
  <2>1. \A m \in Mapper : at' # "split" \/ m < i' => m < i \/ m = i
    BY <1>4
  <2>2. \A m \in Mapper : <<"splitter", m>> \in Process
    BY Pipes
  <2>3. \A m \in Mapper : at' # "split" \/ m < i' => status'[<<"splitter", m>>] # "new"
    BY <1>0, <1>3, <2>1, <2>2 DEF p, PipelineInv, AllForked
  <2>. QED
    BY <1>4, <2>3 DEF AllForked, Splitting
<1>6. ParentWrites'
  BY <1>0, <1>3, <1>4, Pipes DEF PipelineInv, ParentWrites, Splitting, Mapping
<1>7. PipelineTypeOK'
  BY <1>3, <1>4 DEF PipelineTypeOK, Splitting
<1>8. EndedIsDone'
  BY <1>3, <1>4 DEF EndedIsDone
<1>. QED
  BY <1>3, <1>5, <1>6, <1>7, <1>8 DEF PipelineInv

LEMMA MapKeeps == ASSUME PipelineInv, Map PROVE PipelineInv'
<1>. DEFINE p == <<"mapper", i>>
<1>0. /\ at = "map" /\ i \in Mapper /\ i # 0 /\ 0 \in Pipe
      /\ p \in Workers /\ p \in Process /\ p # PARENT /\ Output(p) = 0 /\ i \in Pipe
  BY Pipes DEF Map, PipelineInv, PipelineTypeOK
<1>1. Fork(p, i, Close(i)) /\ UNCHANGED <<data, in_pipe>> /\ Loop("map", "wait_map")
  BY DEF Map
<1>2. PARENT \in writers[0]
  BY <1>0 DEF PipelineInv, ParentWrites, Mapping
<1>3. Close(i) \in [Pipe -> SUBSET {PARENT}] /\ Close(i)[0] = {}
  BY <1>0, OneClosed
<1>. HIDE DEF p
<1>4. /\ WorkersWrite'
      /\ status' \in [Process -> {"new", "running", "ended", "failed"}]
      /\ data' \in [Workers -> Nat] /\ in_pipe' \in [Pipe -> Nat]
      /\ writers' \in [Pipe -> SUBSET Process]
      /\ \A r \in Process : (status[r] # "new" => status'[r] # "new") /\ status'[p] # "new"
      /\ \A r \in Workers : status'[r] = "ended" => data'[r] = 0
      /\ \A m \in Mapper : status'[<<"mapper", m>>] = "ended" => AtEnd(m)'
      /\ status'[REDUCER] = "ended" => AtEnd(0)'
      /\ writers[0] \subseteq writers'[0]
  BY <1>0, <1>1, <1>2, <1>3, ForkKeeps
<1>5. /\ i' \in Mapper
      /\ \/ at' = "map" /\ \A m \in Mapper : m < i' => m < i \/ m = i
         \/ at' = "wait_map" /\ i' = 1 /\ \A m \in Mapper : (m < i \/ m = i) /\ ~(m < i')
  BY <1>0, <1>1, LoopDoes
<1>6. AllForked'
  <2>1. \A m \in Mapper : (at' \notin Splitting \union {"map"}) \/ (at' = "map" /\ m < i') => m < i \/ m = i
    BY <1>5
  <2>2. \A m \in Mapper : <<"mapper", m>> \in Process /\ <<"splitter", m>> \in Process
    BY Pipes
  <2>3. \A m \in Mapper : (at' \notin Splitting \union {"map"}) \/ (at' = "map" /\ m < i')
                              => status'[<<"mapper", m>>] # "new"
    BY <1>0, <1>4, <2>1, <2>2 DEF p, PipelineInv, AllForked
  <2>4. \A m \in Mapper : status'[<<"splitter", m>>] # "new"
    BY <1>0, <1>4, <2>2 DEF PipelineInv, AllForked
  <2>. QED
    BY <1>5, <2>3, <2>4 DEF AllForked
<1>7. ParentWrites'
  BY <1>2, <1>4, <1>5 DEF ParentWrites, Splitting
<1>8. PipelineTypeOK'
  BY <1>4, <1>5 DEF PipelineTypeOK, Mapping
<1>9. EndedIsDone'
  BY <1>4, <1>5 DEF EndedIsDone
<1>. QED
  BY <1>4, <1>6, <1>7, <1>8, <1>9 DEF PipelineInv

LEMMA ReduceKeeps == ASSUME PipelineInv, Reduce PROVE PipelineInv'
<1>0. /\ at = "reduce" /\ at' = "wait_reduce" /\ i' = i /\ UNCHANGED <<data, in_pipe>>
      /\ 0 \in Pipe /\ REDUCER \in Process /\ REDUCER # PARENT /\ REDUCER \notin Workers
      /\ Fork(REDUCER, 0, Close(0))
  BY Pipes DEF Reduce
<1>1. Close(0) \in [Pipe -> SUBSET {PARENT}]
  BY <1>0, OneClosed
<1>2. /\ WorkersWrite'
      /\ status' \in [Process -> {"new", "running", "ended", "failed"}]
      /\ data' \in [Workers -> Nat] /\ in_pipe' \in [Pipe -> Nat]
      /\ writers' \in [Pipe -> SUBSET Process]
      /\ \A r \in Process : (status[r] # "new" => status'[r] # "new") /\ status'[REDUCER] # "new"
      /\ \A r \in Workers : status'[r] = "ended" => data'[r] = 0
      /\ \A m \in Mapper : status'[<<"mapper", m>>] = "ended" => AtEnd(m)'
      /\ status'[REDUCER] = "ended" => AtEnd(0)'
  BY <1>0, <1>1, ForkKeeps
<1>3. AllForked'
  <2>1. \A m \in Mapper : <<"mapper", m>> \in Process /\ <<"splitter", m>> \in Process
    BY Pipes
  <2>. QED
    BY <1>0, <1>2, <2>1 DEF AllForked, PipelineInv, Splitting
<1>. QED
  BY <1>0, <1>2, <1>3 DEF PipelineInv, PipelineTypeOK, ParentWrites, EndedIsDone, Splitting, Mapping

LEMMA WaitsKeep == ASSUME PipelineInv, WaitSplit \/ WaitMap \/ WaitReduce PROVE PipelineInv'
<1>. USE DEF PipelineInv, PipelineTypeOK
<1>1. CASE WaitSplit
  <2>1. /\ at = "wait_split" /\ at' \in {"wait_split", "map"} /\ i' \in Mapper
        /\ at' = "map" => i' = 1
        /\ UNCHANGED <<status, data, in_pipe, writers>>
    BY <1>1, LoopDoes DEF WaitSplit
  <2>2. \A m \in Mapper : ~(m < 1)
    BY DEF Mapper
  <2>3. AllForked'
    BY <2>1, <2>2 DEF AllForked, Splitting
  <2>. QED
    BY <2>1, <2>3, Pipes DEF ParentWrites, WorkersWrite, EndedIsDone, AtEnd, Ended, Splitting, Mapping
<1>2. CASE WaitMap
  <2>1. /\ at = "wait_map" /\ at' \in {"wait_map", "reduce"} /\ i' \in Mapper
        /\ UNCHANGED <<status, data, in_pipe, writers>>
    BY <1>2, LoopDoes DEF WaitMap
  <2>. QED
    BY <2>1 DEF AllForked, ParentWrites, WorkersWrite, EndedIsDone, AtEnd, Ended, Splitting, Mapping
<1>3. CASE WaitReduce
  BY <1>3 DEF WaitReduce, AllForked, ParentWrites, WorkersWrite, EndedIsDone, AtEnd, Ended, Splitting, Mapping
<1>. QED
  BY <1>1, <1>2, <1>3

\* A pipe at its end stays so: whoever could write to it would hold its end.
LEMMA WriteKeeps == ASSUME PipelineInv, NEW p \in Workers, Write(p) PROVE PipelineInv'
<1>. USE DEF PipelineInv, PipelineTypeOK
<1>1. /\ status[p] = "running" /\ data[p] > 0 /\ Output(p) \in Pipe /\ p \in Process
      /\ in_pipe' = [in_pipe EXCEPT ![Output(p)] = @ + 1]
      /\ data' = [data EXCEPT ![p] = @ - 1]
      /\ UNCHANGED <<parent, status, writers>>
  BY Pipes DEF Write
<1>2. in_pipe' \in [Pipe -> Nat] /\ data' \in [Workers -> Nat]
  BY <1>1
<1>3. \A q \in Pipe : AtEnd(q) => AtEnd(q)'
  <2>1. p \in writers[Output(p)]
    BY <1>1 DEF WorkersWrite
  <2>. QED
    BY <1>1, <2>1 DEF AtEnd
<1>4. \A r \in Workers : status[r] = "ended" => data'[r] = data[r]
  BY <1>1
<1>5. EndedIsDone'
  BY <1>1, <1>3, <1>4, Pipes DEF EndedIsDone, parent, Ended
<1>. QED
  BY <1>1, <1>2, <1>5 DEF AllForked, ParentWrites, WorkersWrite, parent

LEMMA ReadMapperKeeps == ASSUME PipelineInv, NEW m \in Mapper, ReadMapper(m) PROVE PipelineInv'
<1>. USE DEF PipelineInv, PipelineTypeOK
<1>1. /\ <<"mapper", m>> \in Workers /\ m \in Pipe
      /\ status[<<"mapper", m>>] = "running" /\ in_pipe[m] > 0
      /\ in_pipe' = [in_pipe EXCEPT ![m] = @ - 1]
      /\ data' = [data EXCEPT ![<<"mapper", m>>] = @ + 1]
      /\ UNCHANGED <<parent, status, writers>>
  BY Pipes DEF ReadMapper
<1>2. in_pipe' \in [Pipe -> Nat] /\ data' \in [Workers -> Nat]
  BY <1>1
<1>3. \A q \in Pipe : AtEnd(q) => AtEnd(q)'
  BY <1>1 DEF AtEnd
<1>4. \A r \in Workers : status[r] = "ended" => data'[r] = data[r]
  BY <1>1
<1>5. EndedIsDone'
  BY <1>1, <1>3, <1>4, Pipes DEF EndedIsDone, parent, Ended
<1>. QED
  BY <1>1, <1>2, <1>5 DEF AllForked, ParentWrites, WorkersWrite, parent

LEMMA ReadReducerKeeps == ASSUME PipelineInv, ReadReducer PROVE PipelineInv'
<1>. USE DEF PipelineInv, PipelineTypeOK
<1>1. /\ 0 \in Pipe /\ status[REDUCER] = "running" /\ in_pipe[0] > 0
      /\ in_pipe' = [in_pipe EXCEPT ![0] = @ - 1]
      /\ UNCHANGED <<parent, status, data, writers>>
  BY Pipes DEF ReadReducer
<1>2. in_pipe' \in [Pipe -> Nat]
  BY <1>1
<1>3. \A q \in Pipe : AtEnd(q) => AtEnd(q)'
  BY <1>1 DEF AtEnd
<1>4. EndedIsDone'
  BY <1>1, <1>3, Pipes DEF EndedIsDone, parent, Ended
<1>. QED
  BY <1>1, <1>2, <1>4 DEF AllForked, ParentWrites, WorkersWrite, parent

LEMMA LeaveKeeps == ASSUME PipelineInv, NEW p \in Process, Exit(p) \/ Fail(p) PROVE PipelineInv'
<1>. USE DEF PipelineInv, PipelineTypeOK
<1>1. /\ p # PARENT /\ status[p] = "running"
      /\ \/ status' = [status EXCEPT ![p] = "ended"] /\ CanExit(p)
         \/ status' = [status EXCEPT ![p] = "failed"]
      /\ writers' = [q \in Pipe |-> writers[q] \ {p}]
      /\ UNCHANGED <<parent, data, in_pipe>>
  BY DEF Exit, Fail
<1>2. /\ status' \in [Process -> {"new", "running", "ended", "failed"}]
      /\ writers' \in [Pipe -> SUBSET Process]
      /\ \A r \in Process : /\ status'[r] = "new" <=> status[r] = "new"
                            /\ status'[r] = "running" => status[r] = "running" /\ r # p
                            /\ status'[r] = "ended" => status[r] = "ended" \/ (r = p /\ CanExit(p))
                            /\ Ended(r) => Ended(r)'
  BY <1>1 DEF Ended
<1>3. \A q \in Pipe : AtEnd(q) => AtEnd(q)'
  BY <1>1 DEF AtEnd
<1>4. AllForked'
  BY <1>1, <1>2, Pipes DEF AllForked, parent
<1>5. ParentWrites'
  BY <1>1, Pipes DEF ParentWrites, parent
<1>6. WorkersWrite'
  BY <1>1, <1>2, Pipes DEF WorkersWrite
<1>7. EndedIsDone'
  <2>1. ASSUME NEW r \in Workers, status'[r] = "ended" PROVE data'[r] = 0
    BY <1>1, <1>2, <2>1, Pipes DEF EndedIsDone, CanExit
  <2>2. ASSUME NEW m \in Mapper, status'[<<"mapper", m>>] = "ended" PROVE AtEnd(m)'
    <3>1. <<"mapper", m>> \in Process /\ <<"mapper", m>> # REDUCER /\ m \in Pipe
      BY Pipes
    <3>2. AtEnd(m)
      BY <1>2, <2>2, <3>1 DEF EndedIsDone, CanExit
    <3>. QED
      BY <1>3, <3>1, <3>2
  <2>3. ASSUME status'[REDUCER] = "ended" PROVE AtEnd(0)'
    BY <1>2, <1>3, <2>3, Pipes DEF EndedIsDone, CanExit
  <2>4. at' = "done" => Ended(REDUCER)'
    BY <1>1, <1>2, Pipes DEF EndedIsDone, parent
  <2>. QED
    BY <2>1, <2>2, <2>3, <2>4 DEF EndedIsDone
<1>. QED
  BY <1>1, <1>2, <1>4, <1>5, <1>6, <1>7 DEF parent

LEMMA PipelineStep == PipelineInv /\ [MapReduceNext]_mapReduceVars => PipelineInv'
<1>. SUFFICES ASSUME PipelineInv, [MapReduceNext]_mapReduceVars PROVE PipelineInv'
  OBVIOUS
<1>1. CASE Parent
  BY <1>1, SplitKeeps, MapKeeps, ReduceKeeps, WaitsKeep DEF Parent
<1>2. ASSUME NEW p \in Process, Child(p) \/ Fail(p) PROVE PipelineInv'
  BY <1>2, WriteKeeps, ReadMapperKeeps, ReadReducerKeeps, LeaveKeeps DEF Child
<1>3. CASE UNCHANGED mapReduceVars
  BY <1>3 DEF mapReduceVars, parent, PipelineInv, PipelineTypeOK, AllForked, ParentWrites,
     WorkersWrite, EndedIsDone, AtEnd, Ended
<1>. QED
  BY <1>1, <1>2, <1>3 DEF MapReduceNext, Done

\* When the reducer has met the end of its input nobody can write to it, so
\* that no worker runs; all were forked, none has failed, so all have ended.
LEMMA PipelineComplete == PipelineInv => OutputIsComplete
<1>. SUFFICES ASSUME PipelineInv, at = "done", AllSucceeded
              PROVE  (\A p \in Workers : data[p] = 0) /\ \A q \in Pipe : in_pipe[q] = 0
  BY DEF OutputIsComplete
<1>. USE DEF PipelineInv, PipelineTypeOK
<1>1. \A p \in Process : status[p] \in {"new", "running", "ended"}
  BY DEF AllSucceeded
<1>2. status[REDUCER] = "ended" /\ AtEnd(0)
  BY <1>1, Pipes DEF EndedIsDone, Ended
<1>3. \A p \in Workers : status[p] # "new"
  BY Pipes DEF AllForked, Splitting
<1>4. \A m \in Mapper : status[<<"mapper", m>>] = "ended"
  BY <1>1, <1>2, <1>3, Pipes DEF WorkersWrite, AtEnd
<1>5. \A m \in Mapper : AtEnd(m)
  BY <1>4 DEF EndedIsDone
<1>6. ASSUME NEW m \in Mapper PROVE status[<<"splitter", m>>] = "ended"
  <2>1. /\ <<"splitter", m>> \in Workers /\ <<"splitter", m>> \in Process
        /\ Output(<<"splitter", m>>) = m
    BY Pipes
  <2>2. writers[m] = {}
    BY <1>5 DEF AtEnd
  <2>3. status[<<"splitter", m>>] # "running"
    BY <2>1, <2>2 DEF WorkersWrite
  <2>. QED
    BY <1>1, <1>3, <2>1, <2>3
<1>7. \A p \in Workers : data[p] = 0
  BY <1>4, <1>6, Pipes DEF EndedIsDone
<1>8. \A q \in Pipe : q = 0 \/ q \in Mapper
  BY MapReduceAssumption DEF Pipe, Mapper
<1>. QED
  BY <1>2, <1>5, <1>7, <1>8 DEF AtEnd

(* Nothing that was split is missing in the output, whatever the order in     *)
(* which splitters, mappers and the reducer write, read, end or fail, and     *)
(* whatever ends the children have inherited (mapreduce.c:56-133).            *)
THEOREM OutputCorrect == MapReduceSpec => []OutputIsComplete
<1>1. PipelineInv => OutputIsComplete
  BY PipelineComplete
<1>. QED
  BY <1>1, PipelineInit, PipelineStep, PTL DEF MapReduceSpec
-----------------------------------------------------------------------------
(* FileServer.                                                                *)

Units == (Clients \X Nat) \cup {Hole}
Handles == [inode : Clients, pos : Nat, pending : Seq(Units)]
Answering == {"WRITING_RESPONSE", "SENDING_SIZE", "SENDING_DATA"}
States == {"READING_VERB", "READING_FILENAME", "READING_SIZE", "READING_DATA", "COMPLETE"} \cup Answering
Infos == [state : States, req : Requests, fp : Handles \cup {NoFile}, error_type : Int,
          buffer_size : Nat, boffset : Nat, req_size : Nat, file_offset : Nat]
Words == {"OK", "ERROR"} \cup Nat \cup (SUBSET Names) \cup Units
Sockets == [sent : Nat, eof : BOOLEAN, got : Nat, out : Seq(Words), shut : BOOLEAN]
Asking == {c \in Clients : request[c] # NoRequest}

ServerTypeOK ==
  /\ request \in [Clients -> Requests \cup {NoRequest}]
  /\ backlog \subseteq Asking /\ freed \subseteq Asking
  /\ conn \in [Clients -> Infos \cup {NoConn}]
  /\ \A c \in Clients : conn[c] # NoConn => c \in Asking
  /\ net \in [Clients -> Sockets]
  /\ \A c \in Clients : net[c].got <= net[c].sent
  /\ dir \in [Names -> Clients \cup {NoInode}]
  /\ content \in [Clients -> Seq(Units)]
  /\ snapshot \in [Clients -> Seq(Units)]
  /\ client \in [Clients -> Over \cup {"idle", "sending", "waiting"}]
  /\ owner \in [Names -> Clients \cup {NoClient}]
  /\ disturbed \subseteq Clients /\ clipped \subseteq Clients
  /\ DOMAIN received = Clients

At(c, states) == conn[c] # NoConn /\ conn[c].state \in states
Dead(c) == client[c] = "dead"

\* A name has a file of its own.
NamesApart == \A f, g \in Names : dir[f] = dir[g] /\ dir[f] # NoInode => f = g

\* A client connects once; until its request has been read it has no file,
\* and nothing was said to it.
Early(c) == client[c] \in {"idle", "absent"} \/ c \in backlog \/ At(c, {"READING_VERB", "READING_FILENAME"})
Once(c) == /\ request[c] = NoRequest => client[c] = "absent"
           /\ client[c] \in {"idle", "absent"} => c \notin backlog /\ conn[c] = NoConn
           /\ c \in backlog => conn[c] = NoConn
           /\ Early(c) => /\ net[c].out = <<>> /\ client[c] # "ok"
                          /\ \A f \in Names : dir[f] # c
           /\ client[c] \in {"idle", "absent"} \/ c \in backlog \/ At(c, {"READING_VERB"}) => net[c].got = 0

\* The server works for the request of the client, if that is alive.
Asked(c) ==
  /\ c \in Asking /\ net[c].eof /\ ~Dead(c) => net[c].sent > 0
  /\ conn[c] # NoConn =>
       LET info == conn[c]
       IN /\ info.req # request[c] => Dead(c)
          /\ info.state = "READING_VERB" => info.req = request[c] /\ info.fp = NoFile
          /\ info.state # "READING_VERB" /\ info.buffer_size > 0 => info.boffset <= info.buffer_size
          /\ info.state \in {"READING_SIZE", "READING_DATA"} =>
               /\ info.fp # NoFile /\ info.req.verb = "PUT"
               /\ net[c].out = <<>> /\ client[c] # "ok"
          /\ info.state = "READING_SIZE" => info.file_offset = 0
          /\ info.state = "READING_DATA" => info.req_size = info.req.size /\ info.file_offset <= info.req_size
          /\ info.state = "WRITING_RESPONSE" =>
               /\ info.error_type # -1 => net[c].out = <<>>
               /\ info.error_type = -1 /\ info.req.verb = "GET" => info.fp # NoFile
          /\ info.state \in {"SENDING_SIZE", "SENDING_DATA"} =>
               /\ info.error_type = -1 /\ info.req.verb \in {"GET", "LIST"}
               /\ info.req.verb = "GET" => info.fp # NoFile /\ info.file_offset = 0

\* PUT: while the data are read, the file has all but what is pending ...
Written(c, n) == [k \in 1..n |-> <<c, k>>]
Storing(c) ==
  up /\ At(c, {"READING_SIZE", "READING_DATA"}) /\ owner[conn[c].req.name] = c =>
     /\ dir[conn[c].req.name] = conn[c].fp.inode
     /\ AfterSeek(c) = Written(c, conn[c].file_offset)

\* ... and from the last event on it has all.
Said(c, word) == net[c].out # <<>> /\ net[c].out[1] = word
Answered(c) == \/ client[c] = "ok" \/ Said(c, "OK")
               \/ At(c, Answering \cup {"COMPLETE"}) /\ conn[c].error_type = -1
Stored(c) ==
  (/\ up /\ c \in Asking /\ ~Dead(c) /\ Answered(c)
   /\ request[c].verb = "PUT" /\ owner[request[c].name] = c) =>
     /\ dir[request[c].name] \in Clients
     /\ content[dir[request[c].name]] = Written(c, request[c].size)

\* GET: the open file is the snapshot, and what was said is its beginning ...
SaidOf(file, n) == <<"OK", Len(file)>> \o SubSeq(file, 1, n)
Spoiled == disturbed \cup clipped
Reading(c) ==
  up /\ conn[c] # NoConn /\ conn[c].req.verb = "GET" /\ conn[c].fp # NoFile =>
    /\ c \notin disturbed => content[conn[c].fp.inode] = snapshot[c]
    /\ conn[c].state = "WRITING_RESPONSE" /\ conn[c].error_type = -1 /\ c \notin Spoiled =>
         /\ conn[c].file_offset <= Len(snapshot[c])
         /\ IF conn[c].file_offset = 0 THEN net[c].out = <<>>
            ELSE net[c].out = SaidOf(snapshot[c], conn[c].file_offset) /\ conn[c].req_size = Len(snapshot[c])
    /\ conn[c].state = "SENDING_SIZE" /\ c \notin Spoiled => net[c].out = <<"OK">>
    /\ conn[c].state = "SENDING_DATA" /\ c \notin Spoiled =>
         net[c].out = SaidOf(snapshot[c], 0) /\ conn[c].req_size = Len(snapshot[c])

\* ... also when the file has been closed.
AnswerOf(out, file) == \/ out \in {<<>>, <<"OK">>, <<"ERROR">>}
                       \/ \E n \in 0..Len(file) : out = SaidOf(file, n)
Getting(c) == c \in Asking \ Spoiled /\ ~Dead(c) /\ request[c].verb = "GET"
Delivered(c) ==
  Getting(c) => /\ AnswerOf(net[c].out, snapshot[c])
                /\ client[c] = "ok" /\ ~Headless(c) => received[c] = snapshot[c]

\* A connection is shut down when its answer is complete, and a GET read after that.
Closing(c) ==
  /\ net[c].shut /\ up => ~Early(c) /\ (conn[c] = NoConn \/ conn[c].state = "COMPLETE")
  /\ client[c] = "ok" /\ c \in Asking /\ request[c].verb = "GET" => net[c].shut
  /\ Getting(c) /\ up /\ (net[c].shut \/ At(c, {"COMPLETE"})) =>
       net[c].out # <<"OK">> \/ net[c].sent > net[c].got

Served(c) == Once(c) /\ Asked(c) /\ Storing(c) /\ Stored(c) /\ Reading(c) /\ Delivered(c) /\ Closing(c)

ServerInv == ServerTypeOK /\ NamesApart /\ \A c \in Clients : Served(c)
-----------------------------------------------------------------------------
(* Files and what is sent.                                                    *)

LEMMA WordsHold == Units \subseteq Words /\ "OK" \in Words /\ "ERROR" \in Words /\ Nat \subseteq Words
                   /\ SUBSET Names \subseteq Words
  BY DEF Words

LEMMA WrittenSeq ==
  ASSUME NEW c \in Clients, NEW n \in Nat
  PROVE  /\ Written(c, n) \in Seq(Units) /\ Len(Written(c, n)) = n
         /\ \A k \in 1..n : Written(c, n)[k] = <<c, k>>
<1>1. \A k \in 1..n : <<c, k>> \in Units
  BY DEF Units
<1>2. Written(c, n) \in [1..n -> Units]
  BY <1>1, Zenon DEF Written
<1>3. Written(c, n) \in Seq(Units)
  BY <1>2, SeqDef
<1>4. Len(Written(c, n)) = n
  BY <1>2, <1>3, LenProperties
<1>. QED
  BY <1>3, <1>4 DEF Written

LEMMA OverlaySeq ==
  ASSUME NEW file \in Seq(Units), NEW pos \in Nat, NEW units \in Seq(Units)
  PROVE  Overlay(file, pos, units) \in Seq(Units)
<1>. DEFINE end == IF pos + Len(units) > Len(file) THEN pos + Len(units) ELSE Len(file)
            unit(n) == IF n > pos /\ n <= pos + Len(units) THEN units[n - pos]
                     ELSE IF n <= Len(file) THEN file[n] ELSE Hole
<1>1. CASE units = <<>>
  BY <1>1 DEF Overlay
<1>2. CASE units # <<>>
  <2>1. end \in Nat /\ Len(units) \in Nat /\ Len(file) \in Nat
    BY LenProperties
  <2>2. ASSUME NEW n \in 1..end PROVE unit(n) \in Units
    <3>1. CASE n > pos /\ n <= pos + Len(units)
      BY <3>1, <2>1, ElementOfSeq
    <3>2. CASE ~(n > pos /\ n <= pos + Len(units)) /\ n <= Len(file)
      BY <3>2, <2>1, ElementOfSeq
    <3>3. CASE ~(n > pos /\ n <= pos + Len(units)) /\ ~(n <= Len(file))
      BY <3>3 DEF Units
    <3>. QED
      BY <3>1, <3>2, <3>3
  <2>. HIDE DEF unit, end
  <2>3. [n \in 1..end |-> unit(n)] \in Seq(Units)
    BY <2>1, <2>2, IsASeq
  <2>. QED
    BY <1>2, <2>3 DEF Overlay, unit, end
<1>. QED
  BY <1>1, <1>2

LEMMA OverlayNothing == \A file, pos : Overlay(file, pos, <<>>) = file
  BY DEF Overlay

\* What the next event adds to a file that has the first n units.
NextUnits(c, n, k) == [m \in 1..k |-> <<c, n + m>>]
LEMMA NextUnitsSeq ==
  ASSUME NEW c \in Clients, NEW n \in Nat, NEW k \in Nat
  PROVE  /\ NextUnits(c, n, k) \in Seq(Units) /\ Len(NextUnits(c, n, k)) = k
         /\ \A m \in 1..k : NextUnits(c, n, k)[m] = <<c, n + m>>
<1>1. \A m \in 1..k : <<c, n + m>> \in Units
  BY DEF Units
<1>2. NextUnits(c, n, k) \in [1..k -> Units]
  BY <1>1, Zenon DEF NextUnits
<1>3. NextUnits(c, n, k) \in Seq(Units)
  BY <1>2, SeqDef
<1>4. Len(NextUnits(c, n, k)) = k
  BY <1>2, <1>3, LenProperties
<1>. QED
  BY <1>3, <1>4 DEF NextUnits

LEMMA OverlayWritten ==
  ASSUME NEW c \in Clients, NEW n \in Nat, NEW k \in Nat
  PROVE  Overlay(Written(c, n), n, NextUnits(c, n, k)) = Written(c, n + k)
<1>. DEFINE file == Written(c, n)
            units == NextUnits(c, n, k)
<1>1. Len(file) = n /\ Len(units) = k /\ units \in Seq(Units) /\ file \in Seq(Units)
  BY WrittenSeq, NextUnitsSeq
<1>2. CASE k = 0
  <2>1. units = <<>>
    BY <1>1, <1>2, EmptySeq
  <2>. QED
    BY <2>1, <1>2, OverlayNothing
<1>3. CASE k # 0
  <2>1. units # <<>>
    BY <1>1, <1>3, EmptySeq
  <2>2. Overlay(file, n, units) =
          [j \in 1..(n + k) |-> IF j > n /\ j <= n + k THEN units[j - n] ELSE IF j <= n THEN file[j] ELSE Hole]
    BY <1>1, <1>3, <2>1 DEF Overlay
  <2>3. ASSUME NEW j \in 1..(n + k)
        PROVE  (IF j > n /\ j <= n + k THEN units[j - n] ELSE IF j <= n THEN file[j] ELSE Hole) = <<c, j>>
    <3>1. CASE j > n
      <4>1. j - n \in 1..k /\ n + (j - n) = j
        BY <3>1
      <4>2. units[j - n] = <<c, n + (j - n)>>
        BY <4>1, NextUnitsSeq
      <4>. QED
        BY <3>1, <4>1, <4>2
    <3>2. CASE j <= n
      <4>1. j \in 1..n /\ ~(j > n)
        BY <3>2
      <4>2. file[j] = <<c, j>>
        BY <4>1, WrittenSeq
      <4>. QED
        BY <3>2, <4>1, <4>2
    <3>. QED
      BY <3>1, <3>2
  <2>. QED
    BY <2>2, <2>3 DEF Written
<1>. QED
  BY <1>2, <1>3

\* What a GET sends.
LEMMA SubSeqOfUnits ==
  ASSUME NEW S, NEW file \in Seq(S), NEW m \in Nat, NEW n \in Nat, n <= Len(file)
  PROVE  /\ SubSeq(file, m + 1, n) \in Seq(S)
         /\ Len(SubSeq(file, m + 1, n)) = IF m < n THEN n - m ELSE 0
         /\ \A ino \in 1..(n - m) : SubSeq(file, m + 1, n)[ino] = file[m + ino]
<1>1. m + 1 \in Int /\ n \in Int /\ Len(file) \in Nat
  BY LenProperties
<1>2. \A ino \in (m + 1)..n : file[ino] \in S
  BY <1>1, ElementOfSeq
<1>3. /\ SubSeq(file, m + 1, n) \in Seq(S)
      /\ Len(SubSeq(file, m + 1, n)) = IF m + 1 <= n THEN n - (m + 1) + 1 ELSE 0
      /\ \A ino \in 1..(n - (m + 1) + 1) : SubSeq(file, m + 1, n)[ino] = file[m + 1 + ino - 1]
  BY <1>1, <1>2, SubSeqProperties
<1>4. \A ino \in 1..(n - m) : ino \in 1..(n - (m + 1) + 1) /\ m + 1 + ino - 1 = m + ino
  OBVIOUS
<1>. QED
  BY <1>3, <1>4

LEMMA ConcatThree ==
  ASSUME NEW S, NEW h \in Seq(S), NEW s \in Seq(S), NEW t \in Seq(S), NEW u \in Seq(S), u = s \o t,
         NEW hs, NEW hu, hs = h \o s, hu = h \o u
  PROVE  hs \o t = hu
<1>1. Len(h) \in Nat /\ Len(s) \in Nat /\ Len(t) \in Nat
  BY LenProperties
<1>2. /\ hs \in Seq(S) /\ Len(hs) = Len(h) + Len(s)
      /\ \A ino \in 1..(Len(h) + Len(s)) : hs[ino] = IF ino <= Len(h) THEN h[ino] ELSE s[ino - Len(h)]
  BY ConcatProperties
<1>3. /\ Len(u) = Len(s) + Len(t)
      /\ \A ino \in 1..(Len(s) + Len(t)) : u[ino] = IF ino <= Len(s) THEN s[ino] ELSE t[ino - Len(s)]
  BY ConcatProperties
<1>4. /\ hs \o t \in Seq(S) /\ Len(hs \o t) = Len(hs) + Len(t)
      /\ \A ino \in 1..(Len(hs) + Len(t)) : (hs \o t)[ino] = IF ino <= Len(hs) THEN hs[ino] ELSE t[ino - Len(hs)]
  BY <1>2, ConcatProperties
<1>5. /\ h \o u \in Seq(S) /\ Len(h \o u) = Len(h) + Len(u)
      /\ \A ino \in 1..(Len(h) + Len(u)) : (h \o u)[ino] = IF ino <= Len(h) THEN h[ino] ELSE u[ino - Len(h)]
  BY ConcatProperties
<1>6. Len(hs \o t) = Len(h \o u)
  BY <1>1, <1>2, <1>3, <1>4, <1>5
<1>7. ASSUME NEW ino \in 1..Len(hs \o t) PROVE (hs \o t)[ino] = (h \o u)[ino]
  <2>1. ino \in 1..(Len(hs) + Len(t)) /\ ino \in 1..(Len(h) + Len(u)) /\ ino \in Int
    BY <1>1, <1>4, <1>5, <1>6
  <2>2. CASE ino <= Len(h)
    BY <1>1, <1>2, <1>4, <1>5, <2>1, <2>2
  <2>3. CASE ino > Len(h) /\ ino <= Len(h) + Len(s)
    <3>1. ino - Len(h) \in 1..(Len(s) + Len(t)) /\ ino - Len(h) <= Len(s)
      BY <1>1, <2>1, <2>3
    <3>2. u[ino - Len(h)] = s[ino - Len(h)]
      BY <1>3, <3>1
    <3>. QED
      BY <1>1, <1>2, <1>4, <1>5, <2>1, <2>3, <3>2
  <2>4. CASE ino > Len(h) + Len(s)
    <3>1. /\ ino - Len(h) \in 1..(Len(s) + Len(t)) /\ ~(ino - Len(h) <= Len(s))
          /\ (ino - Len(h)) - Len(s) = ino - Len(hs)
      BY <1>1, <1>2, <1>3, <2>1, <2>4
    <3>2. u[ino - Len(h)] = t[ino - Len(hs)]
      BY <1>3, <3>1
    <3>3. ~(ino <= Len(hs)) /\ ~(ino <= Len(h))
      BY <1>1, <1>2, <2>1, <2>4
    <3>. QED
      BY <1>4, <1>5, <2>1, <3>2, <3>3
  <2>. QED
    BY <1>1, <2>1, <2>2, <2>3, <2>4
<1>. QED
  BY <1>4, <1>5, <1>6, <1>7, SeqEqual

LEMMA SendAllUnits ==
  ASSUME NEW units \in Seq(Units), NEW sent \in SendAll(units)
  PROVE  sent \in Seq(Units)
<1>1. ASSUME NEW short \in Beginnings(units) PROVE short \in Seq(Units)
  <2>1. PICK n \in 0..Len(units) : short = SubSeq(units, 1, n)
    BY DEF Beginnings
  <2>2. n \in Nat /\ n <= Len(units)
    BY LenProperties
  <2>3. SubSeq(units, 0 + 1, n) \in Seq(Units)
    BY <2>2, SubSeqOfUnits
  <2>. QED
    BY <2>1, <2>3
<1>2. CASE sent = units
  BY <1>2
<1>3. CASE \E short \in Beginnings(units) \ {units}, again \in Beginnings(units) : sent = short \o again
  BY <1>1, <1>3, ConcatProperties
<1>. QED
  BY <1>2, <1>3 DEF SendAll

LEMMA SaidOfSeq ==
  ASSUME NEW file \in Seq(Units), NEW n \in 0..Len(file)
  PROVE  /\ SaidOf(file, n) \in Seq(Words) /\ Len(SaidOf(file, n)) = n + 2
         /\ SaidOf(file, n)[1] = "OK" /\ SaidOf(file, n)[2] = Len(file)
         /\ DataOf(SaidOf(file, n)) = SubSeq(file, 1, n)
<1>. DEFINE header == <<"OK", Len(file)>>
            rest == SubSeq(file, 1, n)
<1>1. Len(file) \in Nat
  BY LenProperties
<1>2. header \in Seq(Words) /\ Len(header) = 2 /\ header[1] = "OK" /\ header[2] = Len(file)
  BY <1>1, WordsHold
<1>3. file \in Seq(Words)
  BY WordsHold, SeqMonotonic
<1>4. SubSeq(file, 0 + 1, n) \in Seq(Words) /\ Len(SubSeq(file, 0 + 1, n)) = n
  BY <1>1, <1>3, SubSeqOfUnits
<1>5. rest \in Seq(Words) /\ Len(rest) = n
  BY <1>4
<1>. HIDE DEF header, rest
<1>6. /\ header \o rest \in Seq(Words) /\ Len(header \o rest) = 2 + n
      /\ \A ino \in 1..(2 + n) : (header \o rest)[ino] = IF ino <= 2 THEN header[ino] ELSE rest[ino - 2]
  <2>1. /\ header \o rest \in Seq(Words) /\ Len(header \o rest) = Len(header) + Len(rest)
        /\ \A ino \in 1..(Len(header) + Len(rest)) :
             (header \o rest)[ino] = IF ino <= Len(header) THEN header[ino] ELSE rest[ino - Len(header)]
    BY <1>2, <1>5, ConcatProperties, Zenon
  <2>. QED
    BY <1>2, <1>5, <2>1, Zenon
<1>7. SaidOf(file, n) = header \o rest
  BY DEF SaidOf, header, rest
<1>8. SubSeq(header \o rest, 3, 2 + n) = rest
  <2>. DEFINE said == header \o rest
              end == 2 + n
  <2>0. said \in Seq(Words) /\ 2 \in Nat /\ end \in Nat /\ end <= Len(said) /\ 2 + 1 = 3
    BY <1>1, <1>6
  <2>. HIDE DEF said, end
  <2>6. /\ SubSeq(said, 2 + 1, end) \in Seq(Words)
        /\ Len(SubSeq(said, 2 + 1, end)) = IF 2 < end THEN end - 2 ELSE 0
        /\ \A ino \in 1..(end - 2) : SubSeq(said, 2 + 1, end)[ino] = said[2 + ino]
    BY <2>0, SubSeqOfUnits
  <2>2. /\ SubSeq(header \o rest, 3, 2 + n) \in Seq(Words)
        /\ Len(SubSeq(header \o rest, 3, 2 + n)) = n
        /\ \A ino \in 1..n : SubSeq(header \o rest, 3, 2 + n)[ino] = (header \o rest)[2 + ino]
    BY <1>1, <2>0, <2>6 DEF said, end
  <2>3. Len(SubSeq(header \o rest, 3, 2 + n)) = n
    BY <1>1, <2>2
  <2>4. \A ino \in 1..n : SubSeq(header \o rest, 3, 2 + n)[ino] = rest[ino]
    BY <1>1, <1>6, <2>2
  <2>. QED
    BY <1>5, <2>2, <2>3, <2>4, SeqEqual
<1>9. (header \o rest)[1] = "OK" /\ (header \o rest)[2] = Len(file)
  BY <1>1, <1>2, <1>6
<1>10. DataOf(SaidOf(file, n)) = rest
  BY <1>6, <1>7, <1>8, <1>1 DEF DataOf
<1>. QED
  BY <1>1, <1>6, <1>7, <1>9, <1>10 DEF rest

LEMMA SaidMore ==
  ASSUME NEW file \in Seq(Units), NEW m \in Nat, NEW n \in Nat, m <= n, n <= Len(file)
  PROVE  SaidOf(file, m) \o SubSeq(file, m + 1, n) = SaidOf(file, n)
<1>. DEFINE header == <<"OK", Len(file)>>
<1>1. Len(file) \in Nat
  BY LenProperties
<1>2. header \in Seq(Words) /\ file \in Seq(Words)
  BY <1>1, WordsHold, SeqMonotonic
<1>3. /\ SubSeq(file, 0 + 1, m) \in Seq(Words) /\ SubSeq(file, m + 1, n) \in Seq(Words)
  BY <1>1, <1>2, SubSeqOfUnits
<1>4. SubSeq(file, 1, m) \o SubSeq(file, m + 1, n) = SubSeq(file, 1, n)
  BY <1>1, ConcatAdjacentSubSeq
<1>7. SubSeq(file, 1, n) \in Seq(Words)
  <2>1. SubSeq(file, 0 + 1, n) \in Seq(Words)
    BY <1>1, <1>2, SubSeqOfUnits
  <2>. QED
    BY <2>1
<1>6. SubSeq(file, 1, m) \in Seq(Words)
  BY <1>3
<1>. DEFINE begin == SubSeq(file, 1, m)
            more == SubSeq(file, m + 1, n)
            all == SubSeq(file, 1, n)
            before == header \o begin
            after == header \o all
<1>8. begin \in Seq(Words) /\ more \in Seq(Words) /\ all \in Seq(Words) /\ all = begin \o more
  BY <1>3, <1>4, <1>6, <1>7
<1>9. before = header \o begin /\ after = header \o all
  OBVIOUS
<1>. HIDE DEF header, begin, more, all, before, after
<1>5. before \o more = after
  BY <1>2, <1>8, <1>9, ConcatThree, SMT
<1>. QED
  BY <1>5 DEF SaidOf, header, begin, more, all, before, after

\* The beginning of an answer is an answer that ended too soon.
LEMMA BeginningOfAnswer ==
  ASSUME NEW file \in Seq(Units), NEW out \in Seq(Words), AnswerOf(out, file), NEW n \in 0..(Len(out) - 1)
  PROVE  AnswerOf(SubSeq(out, 1, n), file)
<1>. DEFINE begin == SubSeq(out, 1, n)
<1>1. /\ Len(out) \in Nat /\ n \in Nat /\ n < Len(out)
      /\ begin \in Seq(Words) /\ Len(begin) = n /\ \A ino \in 1..n : begin[ino] = out[ino]
  <2>1. Len(out) \in Nat /\ n \in Nat /\ n < Len(out) /\ 0 \in Nat /\ 0 + 1 = 1
    BY LenProperties
  <2>2. /\ SubSeq(out, 0 + 1, n) \in Seq(Words)
        /\ Len(SubSeq(out, 0 + 1, n)) = IF 0 < n THEN n - 0 ELSE 0
        /\ \A ino \in 1..(n - 0) : SubSeq(out, 0 + 1, n)[ino] = out[0 + ino]
    BY <2>1, SubSeqOfUnits
  <2>. QED
    BY <2>1, <2>2
<1>. HIDE DEF begin
<1>2. CASE n = 0
  <2>1. begin = <<>>
    BY <1>1, <1>2, EmptySeq
  <2>. QED
    BY <2>1 DEF AnswerOf, begin
<1>3. CASE n # 0
  <2>1. out \notin {<<>>, <<"OK">>, <<"ERROR">>}
    <3>1. Len(<<"OK">>) = 1 /\ Len(<<"ERROR">>) = 1
      OBVIOUS
    <3>. QED
      BY <1>1, <1>3, <3>1, EmptySeq
  <2>2. PICK m \in 0..Len(file) : out = SaidOf(file, m)
    BY <2>1 DEF AnswerOf
  <2>3. Len(out) = m + 2 /\ out[1] = "OK" /\ Len(file) \in Nat
    BY <2>2, SaidOfSeq, LenProperties
  <2>4. CASE n = 1
    <3>1. <<"OK">> \in Seq(Words) /\ Len(<<"OK">>) = 1 /\ <<"OK">>[1] = "OK"
      BY WordsHold
    <3>2. Len(begin) = 1 /\ begin[1] = "OK"
      BY <1>1, <2>3, <2>4
    <3>3. begin = <<"OK">>
      BY <1>1, <3>1, <3>2, SeqEqual
    <3>. QED
      BY <3>3 DEF AnswerOf, begin
  <2>5. CASE n > 1
    <3>. DEFINE k == n - 2
                short == SaidOf(file, k)
                more == SubSeq(file, k + 1, m)
    <3>1. k \in Nat /\ m \in Nat /\ k <= m /\ m <= Len(file) /\ k \in 0..Len(file)
      BY <1>1, <2>3, <2>5
    <3>2. short \o more = out
      BY <2>2, <3>1, SaidMore
    <3>3. short \in Seq(Words) /\ Len(short) = n
      <4>1. Len(short) = k + 2
        BY <3>1, SaidOfSeq
      <4>. QED
        BY <1>1, <3>1, <4>1, SaidOfSeq
    <3>4. more \in Seq(Words)
      <4>1. file \in Seq(Words)
        BY WordsHold, SeqMonotonic
      <4>. QED
        BY <3>1, <4>1, SubSeqOfUnits
    <3>. HIDE DEF short, more, k
    <3>5. \A ino \in 1..(Len(short) + Len(more)) :
             (short \o more)[ino] = IF ino <= Len(short) THEN short[ino] ELSE more[ino - Len(short)]
      BY <3>3, <3>4, ConcatProperties
    <3>6. Len(more) \in Nat
      BY <3>4, LenProperties
    <3>7. \A ino \in 1..n : out[ino] = short[ino]
      <4>. SUFFICES ASSUME NEW ino \in 1..n PROVE out[ino] = short[ino]
        OBVIOUS
      <4>1. ino \in 1..(Len(short) + Len(more)) /\ ino <= Len(short)
        BY <1>1, <3>3, <3>6
      <4>. QED
        BY <3>2, <3>5, <4>1
    <3>8. begin = short
      BY <1>1, <3>3, <3>7, SeqEqual
    <3>. QED
      BY <3>1, <3>8 DEF AnswerOf, begin, short
  <2>. QED
    BY <1>1, <1>3, <2>4, <2>5
<1>. QED
  BY <1>2, <1>3

\* What the client accepts is the whole file.
LEMMA AcceptedIsWhole ==
  ASSUME NEW file \in Seq(Units), NEW n \in 0..Len(file), Accepted("GET", SaidOf(file, n))
  PROVE  DataOf(SaidOf(file, n)) = file
<1>1. Len(DataOf(SaidOf(file, n))) = Len(file)
  BY SaidOfSeq DEF Accepted, Whole, SizeIn
<1>2. DataOf(SaidOf(file, n)) = SubSeq(file, 1, n)
  BY SaidOfSeq
<1>3. Len(file) \in Nat
  BY LenProperties
<1>4. Len(SubSeq(file, 0 + 1, n)) = n
  BY <1>3, SubSeqOfUnits
<1>5. n = Len(file)
  BY <1>1, <1>2, <1>4
<1>. QED
  BY <1>2, <1>5, SubSeqFull
-----------------------------------------------------------------------------
(* What a step leaves alone.                                                  *)

\* A step that is not about client d leaves its connection as it is ...
SameConnection(d) ==
  /\ conn'[d] = conn[d] /\ client'[d] = client[d] /\ received'[d] = received[d]
  /\ net'[d].out = net[d].out /\ net'[d].sent = net[d].sent /\ net'[d].got = net[d].got
  /\ net'[d].eof = net[d].eof /\ (up' => net'[d].shut = net[d].shut)
  /\ net[d].shut => net'[d].shut
  /\ d \in backlog' => d \in backlog

\* ... and the files that d wrote alone or reads, or marks them.
FilesKept(d) ==
  /\ disturbed \subseteq disturbed' /\ clipped \subseteq clipped' /\ snapshot'[d] = snapshot[d]
  /\ \A f \in Names : dir'[f] = d => dir[f] = d
  /\ up' => up /\ \A f \in Names :
       owner'[f] = d => /\ owner[f] = d /\ dir'[f] = dir[f]
                        /\ dir[f] \in Clients => content'[dir[f]] = content[dir[f]]
  /\ conn[d] # NoConn /\ conn[d].req.verb = "GET" /\ conn[d].fp # NoFile /\ d \notin disturbed' =>
       content'[conn[d].fp.inode] = content[conn[d].fp.inode]

\* A client that sends, or is done with it, is as steady.
SentSomething(d) == d \in Asking /\ net[d].eof /\ ~Dead(d) => net[d].sent > 0
Steady(d) ==
  /\ conn'[d] = conn[d] /\ received'[d] = received[d]
  /\ client'[d] = client[d] \/ {client[d], client'[d]} \subseteq {"sending", "waiting"}
  /\ net'[d].out = net[d].out /\ net'[d].got = net[d].got
  /\ net[d].sent > net[d].got => net'[d].sent > net'[d].got
  /\ up' => net'[d].shut = net[d].shut
  /\ net[d].shut => net'[d].shut
  /\ d \in backlog' => d \in backlog
  /\ SentSomething(d)'

LEMMA InfoFields ==
  ASSUME ServerTypeOK, NEW c \in Clients, conn[c] # NoConn
  PROVE  /\ conn[c] \in Infos /\ c \in Asking /\ request[c] \in Requests /\ conn[c].req.name \in Names
         /\ conn[c].fp # NoFile => conn[c].fp.inode \in Clients /\ conn[c].fp.pos \in Nat /\ conn[c].fp.pending \in Seq(Units)
<1>1. conn[c] \in Infos /\ c \in Asking /\ request[c] \in Requests
  BY DEF ServerTypeOK, Asking
<1>2. conn[c].req \in Requests /\ conn[c].fp \in Handles \cup {NoFile}
  BY <1>1 DEF Infos
<1>. QED
  BY <1>1, <1>2 DEF Requests, Handles

LEMMA SteadyServed ==
  ASSUME ServerInv, request' = request, NEW d \in Clients, Steady(d), FilesKept(d)
  PROVE  Served(d)'
<1>. USE DEF Steady, FilesKept
<1>1. Served(d) /\ ServerTypeOK
  BY DEF ServerInv
<1>2. Once(d)'
  <2>1. Once(d)
    BY <1>1 DEF Served
  <2>. QED
    BY <2>1 DEF Once, Early, At
<1>3. Asked(d)'
  <2>1. Asked(d)
    BY <1>1 DEF Served
  <2>. QED
    BY <2>1 DEF Asked, Dead, Asking, SentSomething
<1>4. Storing(d)'
  <2>1. Storing(d) /\ Asked(d)
    BY <1>1 DEF Served
  <2>. SUFFICES ASSUME up', At(d, {"READING_SIZE", "READING_DATA"})', owner'[conn'[d].req.name] = d
                PROVE  /\ dir'[conn'[d].req.name] = conn'[d].fp.inode
                       /\ AfterSeek(d)' = Written(d, conn'[d].file_offset)
    BY DEF Storing, Written
  <2>2. /\ conn[d] # NoConn /\ conn[d].state \in {"READING_SIZE", "READING_DATA"}
        /\ conn[d].req.name \in Names /\ conn[d].fp # NoFile /\ conn[d].fp.inode \in Clients
    BY <1>1, <2>1, InfoFields DEF At, Asked
  <2>3. owner[conn[d].req.name] = d /\ dir'[conn[d].req.name] = dir[conn[d].req.name] /\ up
    BY <2>2
  <2>4. dir[conn[d].req.name] = conn[d].fp.inode /\ AfterSeek(d) = Written(d, conn[d].file_offset)
    BY <2>1, <2>2, <2>3 DEF Storing, At
  <2>5. content'[conn[d].fp.inode] = content[conn[d].fp.inode]
    BY <2>2, <2>3, <2>4
  <2>. QED
    BY <2>3, <2>4, <2>5 DEF AfterSeek
<1>5. Stored(d)'
  <2>1. Stored(d)
    BY <1>1 DEF Served
  <2>. SUFFICES ASSUME up', d \in Asking, ~Dead(d), Answered(d)', request[d].verb = "PUT",
                       owner'[request[d].name] = d
                PROVE  /\ dir'[request[d].name] \in Clients
                       /\ content'[dir'[request[d].name]] = Written(d, request[d].size)
    BY DEF Stored, Asking, Dead, Written
  <2>2. Answered(d)
    BY DEF Answered, Said, At
  <2>3. request[d].name \in Names
    BY <1>1 DEF ServerTypeOK, Asking, Requests
  <2>. QED
    BY <2>1, <2>2, <2>3 DEF Stored
<1>6. Reading(d)'
  <2>1. Reading(d)
    BY <1>1 DEF Served
  <2>. QED
    BY <2>1 DEF Reading, Spoiled
<1>7. Delivered(d)'
  <2>1. Delivered(d)
    BY <1>1 DEF Served
  <2>2. Getting(d)' => Getting(d)
    BY DEF Getting, Asking, Spoiled, Dead
  <2>3. Headless(d) => Headless(d)'
    BY DEF Headless
  <2>. QED
    BY <2>1, <2>2, <2>3 DEF Delivered, AnswerOf
<1>8. Closing(d)'
  <2>1. Closing(d)
    BY <1>1 DEF Served
  <2>2. Getting(d)' => Getting(d)
    BY DEF Getting, Asking, Spoiled, Dead
  <2>. QED
    BY <2>1, <2>2 DEF Closing, Early, At, Asking
<1>. QED
  BY <1>2, <1>3, <1>4, <1>5, <1>6, <1>7, <1>8 DEF Served

LEMMA KeptServed ==
  ASSUME ServerInv, request' = request, NEW d \in Clients, SameConnection(d), FilesKept(d)
  PROVE  Served(d)'
<1>1. SentSomething(d)'
  BY DEF ServerInv, Served, Asked, SameConnection, SentSomething, Asking, Dead
<1>2. Steady(d)
  BY <1>1 DEF SameConnection, Steady
<1>. QED
  BY <1>2, SteadyServed

\* Steps that change no file.
LEMMA SameFiles ==
  ASSUME ServerInv, UNCHANGED <<request, up, fs, owner, snapshot, disturbed>>, clipped \subseteq clipped',
         NEW c \in Clients, ServerTypeOK', \A d \in Clients \ {c} : SameConnection(d), Served(c)'
  PROVE  ServerInv'
<1>1. ASSUME NEW d \in Clients PROVE FilesKept(d)
  BY DEF FilesKept, fs
<1>2. ASSUME NEW d \in Clients \ {c} PROVE Served(d)'
  BY <1>1, KeptServed
<1>3. NamesApart'
  BY DEF ServerInv, NamesApart, fs
<1>. QED
  BY <1>2, <1>3 DEF ServerInv

LEMMA NetMoves ==
  ASSUME ServerTypeOK, NEW c \in Clients, NEW s \in Sockets, s.got <= s.sent, net' = [net EXCEPT ![c] = s]
  PROVE  /\ net' \in [Clients -> Sockets] /\ \A d \in Clients : net'[d].got <= net'[d].sent
         /\ net'[c] = s /\ \A d \in Clients \ {c} : net'[d] = net[d]
  BY DEF ServerTypeOK

\* Until the answer is complete the connection is open, and no GET has been
\* accepted.
LEMMA StillClosing ==
  ASSUME ServerInv, request' = request, NEW c \in Clients, up, conn[c] # NoConn, conn[c].state # "COMPLETE",
         conn'[c].state # "COMPLETE", client'[c] = client[c], net'[c].shut = net[c].shut
  PROVE  /\ Closing(c)' /\ ~net[c].shut
         /\ client[c] = "ok" /\ c \in Asking => request[c].verb # "GET"
  BY DEF ServerInv, Served, Closing, At, Asking

LEMMA StillDelivered ==
  ASSUME ServerInv, request' = request, NEW c \in Clients, up, conn[c] # NoConn, conn[c].state # "COMPLETE",
         conn'[c].state # "COMPLETE", client'[c] = client[c], net'[c].shut = net[c].shut,
         net'[c].out = net[c].out, disturbed \subseteq disturbed', clipped \subseteq clipped',
         snapshot'[c] = snapshot[c] \/ net[c].out = <<>>
  PROVE  Delivered(c)' /\ Closing(c)'
<1>1. Closing(c)' /\ (client[c] = "ok" /\ c \in Asking => request[c].verb # "GET")
  BY StillClosing
<1>2. Getting(c)' => Getting(c)
  BY DEF Getting, Spoiled, Asking, Dead
<1>3. Delivered(c)'
  BY <1>1, <1>2 DEF ServerInv, Served, Delivered, AnswerOf, Getting
<1>. QED
  BY <1>1, <1>3

\* A step about the connection of c that changes no file keeps what is known
\* of c's files.
LEMMA SameFilesOf ==
  ASSUME UNCHANGED <<request, up, fs, owner, snapshot, disturbed>>, clipped \subseteq clipped', NEW c \in Clients
  PROVE  FilesKept(c)
  BY DEF FilesKept, fs
-----------------------------------------------------------------------------
(* The initial states and the clients' steps.                                 *)

LEMMA InitServerInv == ServerInit => ServerInv
<1>. SUFFICES ASSUME ServerInit PROVE ServerInv
  OBVIOUS
<1>. USE FileServerAssumption DEF ServerInit
<1>1. ServerTypeOK
  <2>1. request \in [Clients -> Requests \cup {NoRequest}]
    OBVIOUS
  <2>2. net \in [Clients -> Sockets]
    BY DEF Sockets
  <2>3. client \in [Clients -> Over \cup {"idle", "sending", "waiting"}]
    BY DEF Over
  <2>4. content \in [Clients -> Seq(Units)] /\ snapshot \in [Clients -> Seq(Units)]
    OBVIOUS
  <2>5. \A c \in Clients : net[c].got <= net[c].sent
    OBVIOUS
  <2>. QED
    BY <2>1, <2>2, <2>3, <2>4, <2>5 DEF ServerTypeOK
<1>2. NamesApart
  BY DEF NamesApart
<1>3. ASSUME NEW c \in Clients PROVE Served(c)
  <2>1. Once(c)
    BY DEF Once, Early, At
  <2>2. Asked(c)
    BY DEF Asked
  <2>3. Storing(c)
    BY DEF Storing, At
  <2>4. Stored(c)
    BY DEF Stored, Answered, Said, At
  <2>5. Reading(c)
    BY DEF Reading
  <2>6. Delivered(c)
    BY DEF Delivered, AnswerOf
  <2>7. Closing(c)
    BY DEF Closing, Early, At
  <2>. QED
    BY <2>1, <2>2, <2>3, <2>4, <2>5, <2>6, <2>7 DEF Served
<1>. QED
  BY <1>1, <1>2, <1>3 DEF ServerInv

LEMMA ConnectInv == ASSUME ServerInv, NEW c \in Clients, Connect(c) PROVE ServerInv'
<1>. USE DEF Connect, Moves, ServerStays, fs, marks
<1>1. ServerTypeOK /\ Served(c)
  BY DEF ServerInv
<1>2. conn[c] = NoConn /\ c \notin backlog /\ net[c].out = <<>> /\ (\A f \in Names : dir[f] # c)
      /\ c \in Asking
  BY <1>1 DEF Served, Once, Early, Asking, ServerTypeOK
<1>3. client'[c] \in {"sending", "refused"}
  BY <1>1 DEF ServerTypeOK
<1>4. ServerTypeOK'
  <2>1. client' \in [Clients -> Over \cup {"idle", "sending", "waiting"}]
    BY <1>1 DEF ServerTypeOK, Over
  <2>2. backlog' \subseteq Asking
    BY <1>1, <1>2 DEF ServerTypeOK
  <2>. QED
    BY <1>1, <2>1, <2>2 DEF ServerTypeOK, Asking
<1>5. \A d \in Clients \ {c} : SameConnection(d)
  BY <1>1 DEF SameConnection, ServerTypeOK
<1>6. Served(c)'
  <2>1. Once(c)'
    BY <1>1, <1>2, <1>3 DEF Served, Once, Early, At, Asking
  <2>2. Asked(c)'
    BY <1>1, <1>2, <1>3 DEF Served, Asked, Dead, Asking
  <2>3. Storing(c)' /\ Reading(c)'
    BY <1>2 DEF Storing, Reading, At
  <2>4. Stored(c)'
    BY <1>2, <1>3 DEF Stored, Answered, Said, At
  <2>5. Delivered(c)'
    BY <1>2, <1>3 DEF Delivered, AnswerOf
  <2>6. Closing(c)'
    BY <1>1, <1>2, <1>3 DEF Served, Closing, Early, At
  <2>. QED
    BY <2>1, <2>2, <2>3, <2>4, <2>5, <2>6 DEF Served
<1>. QED
  BY <1>4, <1>5, <1>6, SameFiles

\* A client that dies asks for nothing more.
LEMMA DeadServed ==
  ASSUME ServerInv, NEW c \in Clients, UNCHANGED <<request, up, backlog, conn, fs, owner, snapshot, disturbed, clipped>>,
         client[c] \in {"sending", "waiting"}, client'[c] = "dead", net'[c].out = net[c].out, net'[c].got = net[c].got,
         net'[c].shut = net[c].shut
  PROVE  Served(c)'
<1>. USE DEF fs
<1>1. Served(c)
  BY DEF ServerInv
<1>2. Once(c)'
  BY <1>1 DEF Served, Once, Early, At
<1>3. Asked(c)'
  BY <1>1 DEF Served, Asked, Dead
<1>4. Storing(c)'
  BY <1>1 DEF Served, Storing, At, AfterSeek, Written
<1>5. Stored(c)' /\ Delivered(c)'
  BY DEF Stored, Delivered, Getting, Dead
<1>6. Reading(c)'
  BY <1>1 DEF Served, Reading, Spoiled
<1>7. Closing(c)'
  BY <1>1 DEF Served, Closing, Getting, Early, At, Dead
<1>. QED
  BY <1>2, <1>3, <1>4, <1>5, <1>6, <1>7 DEF Served

LEMMA DiesInv ==
  ASSUME ServerInv, NEW c \in Clients, client[c] \in {"sending", "waiting"}, Dies(c), UNCHANGED <<backlog, received>>,
         ServerStays
  PROVE  ServerInv'
<1>. USE DEF Dies, Moves, ServerStays, fs, marks
<1>1. ServerTypeOK
  BY DEF ServerInv
<1>2. ServerTypeOK'
  <2>1. client' \in [Clients -> Over \cup {"idle", "sending", "waiting"}]
    BY <1>1 DEF ServerTypeOK, Over
  <2>2. net' \in [Clients -> Sockets] /\ \A d \in Clients : net'[d].got <= net'[d].sent
    <3>. DEFINE s == [net[c] EXCEPT !.eof = TRUE]
    <3>1. net' = [net EXCEPT ![c] = s]
      OBVIOUS
    <3>2. s \in Sockets /\ s.got <= s.sent
      <4>1. net[c] \in Sockets /\ net[c].got <= net[c].sent
        BY <1>1 DEF ServerTypeOK
      <4>2. s \in Sockets
        BY <4>1 DEF Sockets
      <4>3. s.got = net[c].got /\ s.sent = net[c].sent
        BY <4>1 DEF Sockets
      <4>. QED
        BY <4>1, <4>2, <4>3
    <3>. QED
      BY <1>1, <3>1, <3>2, NetMoves
  <2>. QED
    BY <1>1, <2>1, <2>2 DEF ServerTypeOK, Asking
<1>3. \A d \in Clients \ {c} : SameConnection(d)
  BY <1>1 DEF SameConnection, ServerTypeOK
<1>4. client'[c] = "dead" /\ net'[c].out = net[c].out /\ net'[c].got = net[c].got /\ net'[c].shut = net[c].shut
  BY <1>1 DEF ServerTypeOK, Sockets
<1>5. Served(c)'
  BY <1>4, DeadServed
<1>. QED
  BY <1>2, <1>3, <1>5, SameFiles

LEMMA ClientSendInv == ASSUME ServerInv, NEW c \in Clients, ClientSend(c) PROVE ServerInv'
<1>. USE DEF ClientSend, ServerStays, fs, marks
<1>1. CASE net[c].shut
  BY <1>1, DiesInv
<1>2. CASE ~net[c].shut
  <2>. DEFINE s == [net[c] EXCEPT !.sent = @ + 1]
  <2>1. ServerTypeOK /\ Served(c)
    BY DEF ServerInv
  <2>2. net' = [net EXCEPT ![c] = s] /\ UNCHANGED client
    BY <1>2
  <2>3. net[c] \in Sockets /\ net[c].got <= net[c].sent
    BY <2>1 DEF ServerTypeOK
  <2>4. s \in Sockets /\ s.out = net[c].out /\ s.got = net[c].got /\ s.sent = net[c].sent + 1 /\ s.shut = net[c].shut
    BY <2>3 DEF Sockets
  <2>5. s.got <= s.sent /\ s.sent > 0 /\ (net[c].sent > net[c].got => s.sent > s.got)
    BY <2>3, <2>4 DEF Sockets
  <2>. HIDE DEF s
  <2>6. /\ net' \in [Clients -> Sockets] /\ \A d \in Clients : net'[d].got <= net'[d].sent
        /\ net'[c] = s /\ \A d \in Clients \ {c} : net'[d] = net[d]
    BY <2>1, <2>2, <2>4, <2>5, NetMoves
  <2>7. ServerTypeOK'
    BY <2>1, <2>2, <2>6 DEF ServerTypeOK, Asking
  <2>8. \A d \in Clients \ {c} : SameConnection(d)
    BY <2>2, <2>6 DEF SameConnection
  <2>9. Steady(c)
    BY <2>2, <2>4, <2>5, <2>6 DEF Steady, SentSomething
  <2>10. Served(c)'
    BY <2>9, SteadyServed, SameFilesOf
  <2>. QED
    BY <2>7, <2>8, <2>10, SameFiles
<1>. QED
  BY <1>1, <1>2

LEMMA ClientShutdownInv == ASSUME ServerInv, NEW c \in Clients, ClientShutdown(c) PROVE ServerInv'
<1>. USE DEF ClientShutdown, ServerStays, Moves, fs, marks
<1>. DEFINE s == [net[c] EXCEPT !.eof = TRUE]
<1>1. ServerTypeOK /\ Served(c)
  BY DEF ServerInv
<1>2. net' = [net EXCEPT ![c] = s]
  OBVIOUS
<1>3. net[c] \in Sockets /\ net[c].got <= net[c].sent
  BY <1>1 DEF ServerTypeOK
<1>4. s \in Sockets /\ s.out = net[c].out /\ s.got = net[c].got /\ s.sent = net[c].sent /\ s.shut = net[c].shut
  BY <1>3 DEF Sockets
<1>5. c \in Asking => s.sent > 0
  <2>1. c \in Asking => request[c].units \in Nat
    BY <1>1 DEF ServerTypeOK, Asking, Requests
  <2>. QED
    BY <1>3, <1>4, <2>1 DEF Sockets
<1>. HIDE DEF s
<1>6. /\ net' \in [Clients -> Sockets] /\ \A d \in Clients : net'[d].got <= net'[d].sent
      /\ net'[c] = s /\ \A d \in Clients \ {c} : net'[d] = net[d]
  BY <1>1, <1>2, <1>3, <1>4, NetMoves
<1>7. ServerTypeOK'
  <2>1. client' \in [Clients -> Over \cup {"idle", "sending", "waiting"}]
    BY <1>1 DEF ServerTypeOK, Over
  <2>. QED
    BY <1>1, <1>6, <2>1 DEF ServerTypeOK, Asking
<1>8. \A d \in Clients \ {c} : SameConnection(d)
  BY <1>1, <1>6 DEF SameConnection, ServerTypeOK
<1>9. Steady(c)
  <2>1. client[c] = "sending" /\ client'[c] = "waiting"
    BY <1>1 DEF ServerTypeOK
  <2>. QED
    BY <2>1, <1>4, <1>5, <1>6 DEF Steady, SentSomething, Asking
<1>10. Served(c)'
  BY <1>9, SteadyServed, SameFilesOf
<1>. QED
  BY <1>7, <1>8, <1>10, SameFiles

LEMMA ClientDiesInv == ASSUME ServerInv, NEW c \in Clients, ClientDies(c) PROVE ServerInv'
  BY DiesInv DEF ClientDies

LEMMA GetFromServerInv == ASSUME ServerInv, NEW c \in Clients, GetFromServer(c) PROVE ServerInv'
<1>. DEFINE out == net[c].out
            verb == request[c].verb
            good == Accepted(verb, out)
<1>. USE DEF ServerStays, Moves, fs, marks
<1>1. ServerTypeOK /\ Served(c)
  BY DEF ServerInv
<1>2. /\ client[c] = "waiting" /\ UNCHANGED <<request, up, busy, conn, dir, content, freed, marks, net, backlog>>
      /\ client' = [client EXCEPT ![c] = IF out = <<>> THEN "invalid" ELSE IF good THEN "ok" ELSE "error"]
      /\ received' = [received EXCEPT ![c] = IF good /\ Whole(verb) THEN DataOf(out) ELSE @]
  BY DEF GetFromServer
<1>2a. net[c].shut \/ (out # <<>> /\ (out[1] = "ERROR" \/ ~Whole(verb)))
  BY DEF GetFromServer
<1>3. /\ client'[c] \in {"ok", "error", "invalid"} /\ client'[c] = "ok" => good /\ out # <<>> /\ out[1] = "OK"
      /\ received'[c] = IF good /\ Whole(verb) THEN DataOf(out) ELSE received[c]
      /\ \A d \in Clients \ {c} : client'[d] = client[d] /\ received'[d] = received[d]
  BY <1>1, <1>2 DEF ServerTypeOK, Accepted
<1>4. ServerTypeOK'
  <2>1. client' \in [Clients -> Over \cup {"idle", "sending", "waiting"}]
    BY <1>1, <1>2 DEF ServerTypeOK, Over
  <2>. QED
    BY <1>1, <1>2, <2>1 DEF ServerTypeOK, Asking
<1>5. \A d \in Clients \ {c} : SameConnection(d)
  BY <1>2, <1>3 DEF SameConnection
<1>6. Served(c)'
  <2>1. Once(c)'
    BY <1>1, <1>2, <1>3 DEF Served, Once, Early, At
  <2>2. Asked(c)'
    BY <1>1, <1>2, <1>3 DEF Served, Asked, Dead, Asking
  <2>3. Storing(c)'
    BY <1>1, <1>2 DEF Served, Storing, At, AfterSeek, Written
  <2>4. Stored(c)'
    BY <1>1, <1>2, <1>3 DEF Served, Stored, Answered, Said, At, Written, Dead, Asking
  <2>5. Reading(c)'
    BY <1>1, <1>2 DEF Served, Reading, Spoiled
  <2>6. Delivered(c)'
    <3>. SUFFICES ASSUME Getting(c)
                  PROVE  /\ AnswerOf(out, snapshot[c])
                         /\ client'[c] = "ok" /\ ~Headless(c)' => received'[c] = snapshot[c]
      BY <1>2, <1>3 DEF Delivered, Getting, Spoiled, Asking, Dead
    <3>1. AnswerOf(out, snapshot[c]) /\ verb = "GET"
      BY <1>1 DEF Served, Delivered, Getting
    <3>2. ASSUME client'[c] = "ok", ~Headless(c)' PROVE received'[c] = snapshot[c]
      <4>1. good /\ out # <<>> /\ out[1] = "OK"
        BY <1>3, <3>2
      <4>2. out # <<"ERROR">>
        BY <4>1
      <4>6. out # <<"OK">>
        <5>1. net[c].shut
          BY <1>2a, <3>1, <4>1 DEF Whole
        <5>2. up => out # <<"OK">> \/ net[c].sent > net[c].got
          BY <1>1, <5>1 DEF Served, Closing
        <5>3. Headless(c)' <=> Len(out) = 1 /\ (~up \/ net[c].sent > net[c].got)
          BY <1>2 DEF Headless
        <5>. QED
          BY <3>2, <5>2, <5>3
      <4>3. PICK n \in 0..Len(snapshot[c]) : out = SaidOf(snapshot[c], n)
        BY <3>1, <4>1, <4>2, <4>6 DEF AnswerOf
      <4>4. snapshot[c] \in Seq(Units)
        BY <1>1 DEF ServerTypeOK
      <4>5. DataOf(out) = snapshot[c]
        BY <3>1, <4>1, <4>3, <4>4, AcceptedIsWhole
      <4>. QED
        BY <1>3, <3>1, <4>1, <4>5 DEF Whole
    <3>. QED
      BY <3>1, <3>2
  <2>7. Closing(c)'
    <3>1. client'[c] = "ok" /\ verb = "GET" => net[c].shut
      BY <1>2a, <1>3 DEF Whole
    <3>2. Getting(c)' => Getting(c)
      BY <1>2, <1>3 DEF Getting, Spoiled, Asking, Dead
    <3>3. Early(c)' => Early(c)
      BY <1>2, <1>3 DEF Early, At
    <3>. QED
      BY <1>1, <1>2, <3>1, <3>2, <3>3 DEF Served, Closing, At, Asking
  <2>. QED
    BY <2>1, <2>2, <2>3, <2>4, <2>5, <2>6, <2>7 DEF Served
<1>. QED
  BY <1>2, <1>4, <1>5, <1>6, SameFiles
-----------------------------------------------------------------------------
(* The server's steps that change no file.                                    *)

LEMMA ConnMoves ==
  ASSUME ServerTypeOK, NEW c \in Clients, NEW info \in Infos \cup {NoConn}, Update(c, info)
  PROVE  /\ conn' \in [Clients -> Infos \cup {NoConn}]
         /\ conn'[c] = info /\ \A d \in Clients \ {c} : conn'[d] = conn[d]
  BY DEF ServerTypeOK, Update

LEMMA TypeKept ==
  ASSUME ServerTypeOK, NEW c \in Asking, UNCHANGED <<request, fs, people, owner, snapshot, disturbed>>,
         clipped' \subseteq clipped \cup {c}, backlog' \subseteq backlog, freed' \subseteq freed \cup {c},
         conn' \in [Clients -> Infos \cup {NoConn}], \A d \in Clients \ {c} : conn'[d] = conn[d],
         net' \in [Clients -> Sockets], \A d \in Clients : net'[d].got <= net'[d].sent
  PROVE  ServerTypeOK'
<1>. USE DEF ServerTypeOK, fs, people
<1>1. Asking' = Asking /\ c \in Clients
  BY DEF Asking
<1>2. \A d \in Clients : conn'[d] # NoConn => d \in Asking'
  BY <1>1
<1>. QED
  BY <1>1, <1>2

LEMMA AcceptInv == ASSUME ServerInv, NEW c \in Clients, Accept(c) PROVE ServerInv'
<1>. DEFINE info == [state |-> "READING_VERB", req |-> request[c], fp |-> NoFile, error_type |-> -1,
                     buffer_size |-> 0, boffset |-> 0, req_size |-> 0, file_offset |-> 0]
<1>. USE DEF fs, people, marks
<1>1. ServerTypeOK /\ Served(c)
  BY DEF ServerInv
<1>2. /\ c \in backlog /\ backlog' = backlog \ {c} /\ Update(c, info)
      /\ UNCHANGED <<request, up, busy, net, dir, content, client, received, freed, marks>>
  BY DEF Accept
<1>3. /\ conn[c] = NoConn /\ c \in Asking /\ net[c].out = <<>> /\ client[c] \notin {"ok", "idle", "absent"}
      /\ \A f \in Names : dir[f] # c
  BY <1>1, <1>2 DEF ServerTypeOK, Served, Once, Early
<1>4. info \in Infos
  <2>1. request[c] \in Requests
    BY <1>1, <1>3 DEF ServerTypeOK, Asking
  <2>. QED
    BY <2>1 DEF Infos, States, Answering
<1>5. /\ info.state = "READING_VERB" /\ info.req = request[c] /\ info.fp = NoFile
  OBVIOUS
<1>. HIDE DEF info
<1>6. /\ conn' \in [Clients -> Infos \cup {NoConn}]
      /\ conn'[c] = info /\ \A d \in Clients \ {c} : conn'[d] = conn[d]
  BY <1>1, <1>2, <1>4, ConnMoves
<1>7. ServerTypeOK'
  BY <1>1, <1>2, <1>3, <1>6, TypeKept DEF ServerTypeOK
<1>8. \A d \in Clients \ {c} : SameConnection(d)
  BY <1>2, <1>6 DEF SameConnection
<1>9. Served(c)'
  <2>1. Once(c)'
    <3>1. net[c].got = 0
      BY <1>1, <1>2 DEF Served, Once
    <3>. QED
      BY <1>2, <1>3, <1>5, <1>6, <3>1 DEF Once, Asking
  <2>2. Asked(c)'
    BY <1>1, <1>2, <1>5, <1>6 DEF Served, Asked, Asking, Dead
  <2>3. Storing(c)' /\ Reading(c)'
    BY <1>5, <1>6 DEF Storing, Reading, At
  <2>4. Stored(c)' /\ Delivered(c)'
    BY <1>2, <1>3, <1>5, <1>6 DEF Stored, Answered, Said, At, Delivered, AnswerOf, Answering
  <2>5. Closing(c)'
    BY <1>1, <1>2, <1>3, <1>5, <1>6 DEF Served, Closing, Early, At
  <2>. QED
    BY <2>1, <2>2, <2>3, <2>4, <2>5 DEF Served
<1>. QED
  BY <1>2, <1>7, <1>8, <1>9, SameFiles

LEMMA ResetInv == ASSUME ServerInv, NEW c \in Clients, Reset(c) PROVE ServerInv'
<1>. USE DEF ServerStays, people, fs, marks
<1>1. ServerTypeOK /\ Served(c)
  BY DEF ServerInv
<1>2. PICK n \in 0..(Len(net[c].out) - 1) : net' = [net EXCEPT ![c].out = SubSeq(@, 1, n)]
  BY DEF Reset
<1>3. /\ client[c] \in {"sending", "waiting"} /\ (conn[c] = NoConn \/ ~up) /\ net[c].sent > net[c].got
      /\ UNCHANGED <<request, up, backlog, busy, conn, dir, content, client, received, freed, owner, snapshot, disturbed, clipped>>
  BY DEF Reset
<1>5. c \in Asking
  BY <1>1, <1>3 DEF Served, Once, Asking
<1>. DEFINE out == net[c].out
            begin == SubSeq(out, 1, n)
            s == [net[c] EXCEPT !.out = begin]
<1>6. net[c] \in Sockets /\ net[c].got <= net[c].sent /\ out \in Seq(Words) /\ Len(out) \in Nat /\ n \in Nat /\ n < Len(out)
  <2>1. net[c] \in Sockets /\ net[c].got <= net[c].sent /\ out \in Seq(Words)
    BY <1>1 DEF ServerTypeOK, Sockets
  <2>. QED
    BY <2>1, LenProperties
<1>7. /\ begin \in Seq(Words) /\ (begin # <<>> => begin[1] = out[1]) /\ out # <<>>
  <2>1. /\ SubSeq(out, 0 + 1, n) \in Seq(Words)
        /\ Len(SubSeq(out, 0 + 1, n)) = IF 0 < n THEN n - 0 ELSE 0
        /\ \A ino \in 1..(n - 0) : SubSeq(out, 0 + 1, n)[ino] = out[0 + ino]
    BY <1>6, SubSeqOfUnits
  <2>2. begin # <<>> => n # 0
    BY <2>1, EmptySeq
  <2>. QED
    BY <1>6, <2>1, <2>2, EmptySeq
<1>8. net' = [net EXCEPT ![c] = s]
  BY <1>2
<1>9. /\ s \in Sockets /\ s.out = begin /\ s.sent = net[c].sent /\ s.got = net[c].got /\ s.eof = net[c].eof
      /\ s.shut = net[c].shut
  BY <1>6, <1>7 DEF Sockets
<1>. HIDE DEF s, begin, out
<1>10. /\ net' \in [Clients -> Sockets] /\ \A d \in Clients : net'[d].got <= net'[d].sent
       /\ net'[c] = s /\ \A d \in Clients \ {c} : net'[d] = net[d]
  BY <1>1, <1>6, <1>8, <1>9, NetMoves
<1>11. ServerTypeOK'
  BY <1>1, <1>3, <1>5, <1>10, TypeKept DEF ServerTypeOK
<1>12. \A d \in Clients \ {c} : SameConnection(d)
  BY <1>3, <1>10 DEF SameConnection
<1>13. Served(c)'
  <2>0. ~Early(c)
    BY <1>1, <1>7 DEF Served, Once, out
  <2>1. Once(c)'
    BY <1>1, <1>3, <1>5, <2>0 DEF Served, Once, Early, At, Asking
  <2>2. Asked(c)'
    BY <1>1, <1>3, <1>5, <1>7, <1>9, <1>10 DEF Served, Asked, Asking, Dead, out
  <2>3. Storing(c)' /\ Reading(c)'
    BY <1>3 DEF Storing, Reading, At
  <2>4. Stored(c)'
    <3>1. up => (Answered(c)' => Answered(c))
      BY <1>3, <1>7, <1>9, <1>10 DEF Answered, Said, At, out
    <3>. QED
      BY <1>1, <1>3, <3>1 DEF Served, Stored, Dead, Asking, Written
  <2>5. Delivered(c)'
    <3>1. ASSUME Getting(c)' PROVE AnswerOf(begin, snapshot[c])
      <4>1. Getting(c)
        BY <1>3, <3>1 DEF Getting, Asking, Spoiled, Dead
      <4>2. AnswerOf(out, snapshot[c]) /\ snapshot[c] \in Seq(Units)
        BY <1>1, <4>1 DEF Served, Delivered, ServerTypeOK, out
      <4>. QED
        BY <1>6, <4>2, BeginningOfAnswer DEF begin, out
    <3>. QED
      BY <1>3, <1>9, <1>10, <3>1 DEF Delivered
  <2>6. Closing(c)'
    BY <1>1, <1>3, <1>6, <1>9, <1>10, <2>0 DEF Served, Closing, Early, At, Asking, Sockets
  <2>. QED
    BY <2>1, <2>2, <2>3, <2>4, <2>5, <2>6 DEF Served
<1>. QED
  BY <1>3, <1>11, <1>12, <1>13, SameFiles

\* While it waits for its file a client has been told nothing.
LEMMA AtFilename ==
  ASSUME ServerInv, NEW c \in Clients, Event(c, "READING_FILENAME")
  PROVE  /\ ServerTypeOK /\ NamesApart /\ Served(c) /\ c \in Asking /\ conn[c] \in Infos /\ conn[c] # NoConn
         /\ conn[c].state = "READING_FILENAME" /\ conn[c].req \in Requests /\ conn[c].req.name \in Names
         /\ net[c].out = <<>> /\ client[c] \notin {"ok", "idle", "absent"} /\ c \notin backlog
         /\ (\A f \in Names : dir[f] # c) /\ up
         /\ conn[c].req # request[c] => Dead(c)
<1>1. /\ ServerTypeOK /\ NamesApart /\ Served(c) /\ c \in Asking /\ conn[c] \in Infos /\ conn[c] # NoConn
      /\ conn[c].state = "READING_FILENAME" /\ up
  BY InfoFields DEF ServerInv, Event
<1>2. conn[c].req \in Requests /\ conn[c].req.name \in Names
  BY <1>1 DEF Infos, Requests
<1>. QED
  BY <1>1, <1>2 DEF Served, Once, Early, At, Asked

\* When a connection is closed its client is told nothing new.
LEMMA CleanupInv ==
  ASSUME ServerInv, NEW c \in Clients, conn[c] # NoConn, CleanupClient(c),
         UNCHANGED <<request, up, backlog, busy, fs, people, marks>>,
         Dead(c) \/ net[c].shut \/ net[c].out = <<>>
  PROVE  ServerInv'
<1>. USE DEF fs, people, marks
<1>1. ServerTypeOK /\ Served(c) /\ c \in Asking
  BY InfoFields DEF ServerInv
<1>. DEFINE s == [net[c] EXCEPT !.shut = TRUE]
<1>3. net' = [net EXCEPT ![c] = s]
  BY DEF CleanupClient
<1>4. net[c] \in Sockets /\ net[c].got <= net[c].sent
  BY <1>1 DEF ServerTypeOK
<1>6. /\ s \in Sockets /\ s.out = net[c].out /\ s.sent = net[c].sent /\ s.got = net[c].got /\ s.eof = net[c].eof
      /\ s.shut
  BY <1>4 DEF Sockets
<1>. HIDE DEF s
<1>7. /\ net' \in [Clients -> Sockets] /\ \A d \in Clients : net'[d].got <= net'[d].sent
      /\ net'[c] = s /\ \A d \in Clients \ {c} : net'[d] = net[d]
  BY <1>1, <1>3, <1>4, <1>6, NetMoves
<1>8. /\ conn' \in [Clients -> Infos \cup {NoConn}]
      /\ conn'[c] = NoConn /\ \A d \in Clients \ {c} : conn'[d] = conn[d]
  BY <1>1, ConnMoves DEF CleanupClient, Update
<1>9. ServerTypeOK'
  BY <1>1, <1>7, <1>8, TypeKept DEF CleanupClient
<1>10. \A d \in Clients \ {c} : SameConnection(d)
  BY <1>7, <1>8 DEF SameConnection
<1>11. Served(c)'
  <2>1. Once(c)'
    BY <1>1, <1>6, <1>7, <1>8 DEF Served, Once, Early, At
  <2>2. Asked(c)'
    BY <1>1, <1>6, <1>7, <1>8 DEF Served, Asked, Dead, Asking
  <2>3. Storing(c)' /\ Reading(c)'
    BY <1>8 DEF Storing, Reading, At
  <2>4. Stored(c)'
    <3>1. Answered(c)' => Answered(c)
      BY <1>6, <1>7, <1>8 DEF Answered, Said, At
    <3>. QED
      BY <1>1, <3>1 DEF Served, Stored, Dead, Asking, Written
  <2>5. Getting(c)' => Getting(c)
    BY DEF Getting, Asking, Spoiled, Dead
  <2>6. Delivered(c)'
    BY <1>1, <1>6, <1>7, <2>5 DEF Served, Delivered, AnswerOf, Headless
  <2>7. Closing(c)'
    <3>1. ~Early(c)'
      BY <1>1, <1>8 DEF Served, Once, Early, At
    <3>2. Getting(c) /\ up => net[c].out # <<"OK">> \/ net[c].sent > net[c].got
      BY <1>1 DEF Served, Closing, Getting
    <3>. QED
      BY <1>1, <1>6, <1>7, <1>8, <2>5, <3>1, <3>2 DEF Closing
  <2>. QED
    BY <2>1, <2>2, <2>3, <2>4, <2>6, <2>7 DEF Served
<1>. QED
  BY <1>9, <1>10, <1>11, SameFiles

LEMMA HangUpInv == ASSUME ServerInv, NEW c \in Clients, HangUp(c) PROVE ServerInv'
  BY CleanupInv DEF HangUp, Dead

LEMMA PutOpenFailsInv == ASSUME ServerInv, NEW c \in Clients, PutOpenFails(c) PROVE ServerInv'
  BY CleanupInv, AtFilename DEF PutOpenFails, Event

LEMMA BlockInRecvallInv == ASSUME ServerInv, NEW c \in Clients, BlockInRecvall(c) PROVE ServerInv'
<1>. USE DEF BlockInRecvall, fs, people, marks
<1>1. ServerTypeOK'
  BY DEF ServerInv, ServerTypeOK, Asking
<1>2. \A d \in Clients : SameConnection(d)
  BY DEF SameConnection
<1>3. Served(c)'
  BY <1>2, KeptServed, SameFilesOf
<1>. QED
  BY <1>1, <1>2, <1>3, SameFiles

LEMMA ShutDownInv == ASSUME ServerInv, NEW c \in Clients, ShutDown(c) PROVE ServerInv'
<1>. USE DEF ShutDown, fs, people, marks
<1>. DEFINE s == [net[c] EXCEPT !.shut = TRUE]
<1>1. ServerTypeOK /\ c \in Asking /\ Served(c) /\ conn[c] # NoConn /\ conn[c].state = "COMPLETE"
  BY InfoFields DEF ServerInv, Event
<1>2. net' = [net EXCEPT ![c] = s]
  OBVIOUS
<1>3. net[c] \in Sockets /\ net[c].got <= net[c].sent
  BY <1>1 DEF ServerTypeOK
<1>4. /\ s \in Sockets /\ s.out = net[c].out /\ s.sent = net[c].sent /\ s.got = net[c].got /\ s.eof = net[c].eof
      /\ s.shut
  BY <1>3 DEF Sockets
<1>. HIDE DEF s
<1>5. /\ net' \in [Clients -> Sockets] /\ \A d \in Clients : net'[d].got <= net'[d].sent
      /\ net'[c] = s /\ \A d \in Clients \ {c} : net'[d] = net[d]
  BY <1>1, <1>2, <1>3, <1>4, NetMoves
<1>6. ServerTypeOK'
  BY <1>1, <1>5 DEF ServerTypeOK, Asking
<1>7. \A d \in Clients \ {c} : SameConnection(d)
  BY <1>5 DEF SameConnection
<1>8. Served(c)'
  <2>1. Once(c)' /\ Asked(c)'
    BY <1>1, <1>4, <1>5 DEF Served, Once, Early, At, Asked, Dead, Asking
  <2>2. Storing(c)' /\ Reading(c)'
    BY <1>1 DEF Storing, Reading, At, Served, Spoiled
  <2>3. Stored(c)'
    BY <1>1, <1>4, <1>5 DEF Served, Stored, Answered, Said, At, Dead, Asking, Written
  <2>4. Delivered(c)' /\ Closing(c)'
    BY <1>1, <1>4, <1>5 DEF Served, Once, Delivered, AnswerOf, Headless, Closing, Getting, Spoiled, Dead, Asking, Early, At
  <2>. QED
    BY <2>1, <2>2, <2>3, <2>4 DEF Served
<1>. QED
  BY <1>6, <1>7, <1>8, SameFiles

LEMMA ReadSizeInv == ASSUME ServerInv, NEW c \in Clients, ReadSize(c) PROVE ServerInv'
<1>. DEFINE info == [conn[c] EXCEPT !.req_size = conn[c].req.size, !.state = "READING_DATA"]
<1>. USE DEF fs, people, marks
<1>1. /\ ServerTypeOK /\ Served(c) /\ c \in Asking /\ conn[c] \in Infos /\ conn[c] # NoConn
      /\ conn[c].state = "READING_SIZE" /\ up
  BY InfoFields DEF ServerInv, ReadSize, Event
<1>2. /\ Update(c, info)
      /\ UNCHANGED <<request, up, backlog, busy, net, dir, content, client, received, freed, marks>>
  BY DEF ReadSize
<1>3. conn[c].req \in Requests /\ conn[c].req.size \in Nat
  BY <1>1 DEF Infos, Requests
<1>4. /\ info \in Infos /\ info.state = "READING_DATA" /\ info.req_size = info.req.size
      /\ info.req = conn[c].req /\ info.fp = conn[c].fp /\ info.file_offset = conn[c].file_offset
      /\ info.buffer_size = conn[c].buffer_size /\ info.boffset = conn[c].boffset
  BY <1>1, <1>3 DEF Infos, States, Answering
<1>. HIDE DEF info
<1>5. /\ conn' \in [Clients -> Infos \cup {NoConn}]
      /\ conn'[c] = info /\ \A d \in Clients \ {c} : conn'[d] = conn[d]
  BY <1>1, <1>2, <1>4, ConnMoves
<1>6. ServerTypeOK'
  BY <1>1, <1>2, <1>5, TypeKept DEF ServerTypeOK
<1>7. \A d \in Clients \ {c} : SameConnection(d)
  BY <1>2, <1>5 DEF SameConnection
<1>8. Served(c)'
  <2>1. Once(c)'
    BY <1>1, <1>2, <1>4, <1>5 DEF Served, Once, Early, At
  <2>2. Asked(c)'
    BY <1>1, <1>2, <1>3, <1>4, <1>5 DEF Served, Asked, Dead, Asking
  <2>3. Storing(c)'
    BY <1>1, <1>2, <1>4, <1>5 DEF Served, Storing, At, AfterSeek, Written
  <2>4. Stored(c)'
    BY <1>1, <1>2, <1>4, <1>5 DEF Served, Stored, Answered, Said, At, Written, Dead, Asking, Answering
  <2>5. Reading(c)'
    BY <1>1, <1>2, <1>4, <1>5 DEF Served, Reading, Asked
  <2>6. Delivered(c)' /\ Closing(c)'
    BY <1>1, <1>2, <1>4, <1>5, StillDelivered
  <2>. QED
    BY <2>1, <2>2, <2>3, <2>4, <2>5, <2>6 DEF Served
<1>. QED
  BY <1>2, <1>6, <1>7, <1>8, SameFiles

LEMMA ArrivedNat ==
  ASSUME ServerTypeOK, NEW c \in Clients
  PROVE  /\ Arrived(c) \in Nat /\ net[c].got + Arrived(c) <= net[c].sent
         /\ Arrived(c) = 0 => net[c].sent = net[c].got
<1>1. net[c] \in Sockets /\ net[c].got <= net[c].sent
  BY DEF ServerTypeOK
<1>2. net[c].got \in Nat /\ net[c].sent \in Nat
  BY <1>1 DEF Sockets
<1>. QED
  BY <1>1, <1>2, FileServerAssumption DEF Arrived

LEMMA ParsedRequests ==
  ASSUME ServerTypeOK, NEW c \in Asking, NEW r \in Parsed(c)
  PROVE  r \in Requests
<1>1. \A d \in Asking : request[d] \in Requests
  BY DEF ServerTypeOK, Asking
<1>2. BadRequest \in Requests
  <2>1. (CHOOSE f \in Names : TRUE) \in Names
    BY FileServerAssumption
  <2>. QED
    BY <2>1 DEF BadRequest, Requests
<1>. QED
  BY <1>1, <1>2 DEF Parsed, ServerTypeOK

LEMMA ReadVerbInv == ASSUME ServerInv, NEW c \in Clients, ReadVerb(c) PROVE ServerInv'
<1>. USE DEF fs, people, marks
<1>1. /\ ServerTypeOK /\ Served(c) /\ c \in Asking /\ conn[c] \in Infos /\ conn[c] # NoConn
      /\ conn[c].state = "READING_VERB" /\ conn[c].fp = NoFile /\ up
  BY InfoFields DEF ServerInv, ReadVerb, Event, Served, Asked
<1>2. /\ net[c].eof \/ Arrived(c) = DataSize
      /\ net' = [net EXCEPT ![c].got = @ + Arrived(c)]
      /\ UNCHANGED <<request, up, backlog, dir, content, client, received, freed, marks>>
  BY DEF ReadVerb
<1>3. PICK r \in Parsed(c) :
        Update(c, [conn[c] EXCEPT !.buffer_size = Arrived(c), !.boffset = 1, !.req = r,
                    !.state = IF r.verb \in {"GET", "PUT", "DELETE"} THEN "READING_FILENAME"
                              ELSE "WRITING_RESPONSE",
                    !.error_type = IF r.verb = "OTHER" THEN 0 ELSE -1])
  BY DEF ReadVerb
<1>. DEFINE info == [conn[c] EXCEPT !.buffer_size = Arrived(c), !.boffset = 1, !.req = r,
                    !.state = IF r.verb \in {"GET", "PUT", "DELETE"} THEN "READING_FILENAME"
                              ELSE "WRITING_RESPONSE",
                    !.error_type = IF r.verb = "OTHER" THEN 0 ELSE -1]
            s == [net[c] EXCEPT !.got = @ + Arrived(c)]
<1>4. r \in Requests /\ Arrived(c) \in Nat /\ net[c].got + Arrived(c) <= net[c].sent
  BY <1>1, ArrivedNat, ParsedRequests
<1>5. /\ info \in Infos /\ info.req = r /\ info.fp = NoFile
      /\ info.state = IF r.verb \in {"GET", "PUT", "DELETE"} THEN "READING_FILENAME" ELSE "WRITING_RESPONSE"
      /\ info.error_type = IF r.verb = "OTHER" THEN 0 ELSE -1
      /\ info.buffer_size > 0 => info.boffset <= info.buffer_size
  <2>. DEFINE state == IF r.verb \in {"GET", "PUT", "DELETE"} THEN "READING_FILENAME" ELSE "WRITING_RESPONSE"
              error == IF r.verb = "OTHER" THEN 0 ELSE -1
  <2>1. state \in States /\ error \in Int
    BY DEF States, Answering
  <2>2. info = [conn[c] EXCEPT !.buffer_size = Arrived(c), !.boffset = 1, !.req = r,
                               !.state = state, !.error_type = error]
    OBVIOUS
  <2>. HIDE DEF state, error, info
  <2>3. /\ info \in Infos /\ info.req = r /\ info.fp = NoFile /\ info.state = state /\ info.error_type = error
        /\ info.buffer_size = Arrived(c) /\ info.boffset = 1
    BY <1>1, <1>4, <2>1, <2>2 DEF Infos
  <2>. QED
    BY <1>4, <2>3 DEF state, error
<1>6. net' = [net EXCEPT ![c] = s]
  BY <1>2
<1>7. net[c] \in Sockets /\ net[c].got <= net[c].sent
  BY <1>1 DEF ServerTypeOK
<1>8. /\ s \in Sockets /\ s.out = net[c].out /\ s.sent = net[c].sent /\ s.got <= s.sent /\ s.eof = net[c].eof
      /\ s.shut = net[c].shut
  BY <1>4, <1>7 DEF Sockets
<1>9. Update(c, info)
  BY <1>3
<1>. HIDE DEF info, s
<1>10. /\ net' \in [Clients -> Sockets] /\ \A d \in Clients : net'[d].got <= net'[d].sent
       /\ net'[c] = s /\ \A d \in Clients \ {c} : net'[d] = net[d]
  BY <1>1, <1>6, <1>8, NetMoves
<1>11. /\ conn' \in [Clients -> Infos \cup {NoConn}]
       /\ conn'[c] = info /\ \A d \in Clients \ {c} : conn'[d] = conn[d]
  BY <1>1, <1>5, <1>9, ConnMoves
<1>12. ServerTypeOK'
  BY <1>1, <1>2, <1>10, <1>11, TypeKept DEF ServerTypeOK
<1>13. \A d \in Clients \ {c} : SameConnection(d)
  BY <1>2, <1>10, <1>11 DEF SameConnection
<1>14. /\ net[c].got = 0 /\ net[c].out = <<>> /\ client[c] \notin {"ok", "idle", "absent"} /\ c \notin backlog
       /\ \A f \in Names : dir[f] # c
  BY <1>1 DEF Served, Once, Early, At
<1>15. r # request[c] => Dead(c)
  <2>. SUFFICES ASSUME r # request[c] PROVE Dead(c)
    OBVIOUS
  <2>1. Arrived(c) = 0
    BY <1>4 DEF Parsed
  <2>2. net[c].sent = 0
    BY <1>1, <1>14, <2>1, ArrivedNat
  <2>3. net[c].eof
    BY <1>2, <2>1, FileServerAssumption
  <2>. QED
    BY <1>1, <2>2, <2>3 DEF Served, Asked
<1>16. Served(c)'
  <2>1. Once(c)'
    BY <1>1, <1>2, <1>5, <1>8, <1>10, <1>11, <1>14 DEF Once, At, Asking
  <2>2. Asked(c)'
    <3>1. (c \in Asking /\ net[c].eof /\ ~Dead(c) => net[c].sent > 0)'
      BY <1>1, <1>2, <1>8, <1>10 DEF Served, Asked, Asking, Dead
    <3>. QED
      BY <1>2, <1>5, <1>8, <1>10, <1>11, <1>14, <1>15, <3>1 DEF Asked, Dead
  <2>3. Storing(c)' /\ Reading(c)'
    BY <1>5, <1>11 DEF Storing, Reading, At
  <2>4. Stored(c)'
    BY <1>2, <1>4, <1>5, <1>8, <1>10, <1>11, <1>14, <1>15 DEF Stored, Answered, Said, At, Dead, Requests, Answering
  <2>5. Delivered(c)' /\ Closing(c)'
    BY <1>1, <1>2, <1>5, <1>8, <1>10, <1>11, StillDelivered
  <2>. QED
    BY <2>1, <2>2, <2>3, <2>4, <2>5 DEF Served
<1>. QED
  BY <1>2, <1>12, <1>13, <1>16, SameFiles

\* A reply, and where the connection goes with it.
LEMMA ReplyInv ==
  ASSUME ServerInv, NEW c \in Clients, up, conn[c] # NoConn, conn[c].state \in Answering,
         NEW said \in Seq(Words), NEW info \in Infos,
         Reply(c, said), Update(c, info), UNCHANGED <<request, up, backlog, fs, people, freed>>,
         UNCHANGED <<owner, snapshot, disturbed>>, clipped' \subseteq clipped \cup {c}, clipped \subseteq clipped',
         info.req = conn[c].req, info.state \in Answering \cup {"COMPLETE"}, info.error_type = conn[c].error_type,
         info.buffer_size = conn[c].buffer_size, info.boffset = conn[c].boffset,
         conn[c].error_type # -1 => said = <<"ERROR">> /\ info.state = "COMPLETE",
         info.state # "COMPLETE" => /\ conn[c].req.verb \in {"GET", "LIST"}
                                    /\ conn[c].req.verb = "GET" => info.fp # NoFile,
         info.state \in {"SENDING_SIZE", "SENDING_DATA"} /\ conn[c].req.verb = "GET" => info.file_offset = 0,
         net'[c].out = net[c].out \o said =>
           (Reading(c)' /\ (Getting(c)' => /\ AnswerOf(net'[c].out, snapshot[c])
                                           /\ info.state = "COMPLETE" => net'[c].out # <<"OK">>))
  PROVE  ServerInv'
<1>. USE DEF fs, people
<1>. DEFINE s == [net[c] EXCEPT !.out = @ \o said]
<1>1. /\ ServerTypeOK /\ Served(c) /\ c \in Asking /\ conn[c] \in Infos
      /\ conn[c].state \notin {"READING_VERB", "READING_FILENAME", "READING_SIZE", "READING_DATA", "COMPLETE"}
  BY InfoFields DEF ServerInv, Answering
<1>2. net' = [net EXCEPT ![c] = s]
  BY DEF Reply
<1>3. net[c] \in Sockets /\ net[c].got <= net[c].sent /\ net[c].out \in Seq(Words)
  BY <1>1 DEF ServerTypeOK, Sockets
<1>4. net[c].out \o said \in Seq(Words)
  BY <1>3, ConcatProperties
<1>5. /\ s \in Sockets /\ s.out = net[c].out \o said /\ s.sent = net[c].sent /\ s.got = net[c].got
      /\ s.eof = net[c].eof /\ s.shut = net[c].shut
  BY <1>3, <1>4 DEF Sockets
<1>. HIDE DEF s
<1>6. /\ net' \in [Clients -> Sockets] /\ \A d \in Clients : net'[d].got <= net'[d].sent
      /\ net'[c] = s /\ \A d \in Clients \ {c} : net'[d] = net[d]
  BY <1>1, <1>2, <1>3, <1>5, NetMoves
<1>7. /\ conn' \in [Clients -> Infos \cup {NoConn}]
      /\ conn'[c] = info /\ \A d \in Clients \ {c} : conn'[d] = conn[d]
  BY <1>1, ConnMoves
<1>8. ServerTypeOK'
  BY <1>1, <1>6, <1>7, TypeKept
<1>9. \A d \in Clients \ {c} : SameConnection(d)
  BY <1>6, <1>7 DEF SameConnection
<1>0. info.state \notin {"READING_VERB", "READING_FILENAME", "READING_SIZE", "READING_DATA"}
  BY DEF Answering
<1>10. Served(c)'
  <2>1. Once(c)'
    BY <1>0, <1>1, <1>7 DEF Served, Once, Early, At
  <2>2. Asked(c)'
    <3>1. (c \in Asking /\ net[c].eof /\ ~Dead(c) => net[c].sent > 0)'
      BY <1>1, <1>5, <1>6 DEF Served, Asked, Asking, Dead
    <3>2. /\ conn[c].req # request[c] => Dead(c)
          /\ conn[c].buffer_size > 0 => conn[c].boffset <= conn[c].buffer_size
      BY <1>1 DEF Served, Asked
    <3>. QED
      BY <1>0, <1>1, <1>7, <3>1, <3>2 DEF Asked, Dead, Asking, Answering
  <2>3. Storing(c)'
    BY <1>0, <1>7 DEF Storing, At
  <2>4. Stored(c)'
    <3>1. Answered(c)' => Answered(c)
      <4>1. CASE conn[c].error_type = -1
        BY <1>1, <4>1 DEF Answered, At
      <4>2. CASE conn[c].error_type # -1
        <5>1. net[c].out = <<>>
          BY <1>1, <4>2 DEF Served, Asked, Answering
        <5>2. net'[c].out = <<"ERROR">>
          BY <1>5, <1>6, <4>2, <5>1
        <5>3. ~Said(c, "OK")'
          BY <5>2 DEF Said
        <5>. QED
          BY <1>7, <4>2, <5>3 DEF Answered, At
      <4>. QED
        BY <4>1, <4>2
    <3>. QED
      BY <1>1, <3>1 DEF Served, Stored, Dead, Asking, Written
  <2>5. net'[c].out = net[c].out \o said
    BY <1>5, <1>6
  <2>6. Reading(c)'
    BY <2>5
  <2>7. Getting(c)' => AnswerOf(net'[c].out, snapshot[c]) /\ (info.state = "COMPLETE" => net'[c].out # <<"OK">>)
    BY <2>5
  <2>8. ~net[c].shut /\ (client[c] = "ok" => request[c].verb # "GET")
    BY <1>1 DEF Served, Closing
  <2>9. Delivered(c)'
    BY <2>7, <2>8 DEF Delivered, Getting
  <2>10. Closing(c)'
    BY <1>5, <1>6, <1>7, <2>7, <2>8 DEF Closing, At
  <2>. QED
    BY <2>1, <2>2, <2>3, <2>4, <2>6, <2>9, <2>10 DEF Served
<1>. QED
  BY <1>8, <1>9, <1>10, SameFiles

\* A reply that completes the request.
LEMMA CompleteInv ==
  ASSUME ServerInv, NEW c \in Clients, up, conn[c] # NoConn, conn[c].state \in Answering,
         NEW said \in Seq(Words), Reply(c, said),
         Update(c, [conn[c] EXCEPT !.state = "COMPLETE"]), UNCHANGED <<request, up, backlog, fs, people, freed>>,
         UNCHANGED marks,
         \/ conn[c].error_type # -1 /\ said = <<"ERROR">>
         \/ conn[c].error_type = -1 /\ conn[c].req.verb # "GET"
  PROVE  ServerInv'
<1>. USE DEF marks
<1>. DEFINE info == [conn[c] EXCEPT !.state = "COMPLETE"]
<1>1. /\ ServerTypeOK /\ Served(c) /\ c \in Asking /\ conn[c] \in Infos
  BY InfoFields DEF ServerInv
<1>2. /\ info \in Infos /\ info.req = conn[c].req /\ info.state = "COMPLETE" /\ info.fp = conn[c].fp
      /\ info.error_type = conn[c].error_type /\ info.buffer_size = conn[c].buffer_size
      /\ info.boffset = conn[c].boffset
  BY <1>1 DEF Infos, States, Answering
<1>. HIDE DEF info
<1>3. Update(c, info)
  BY DEF info
<1>4. conn'[c] = info
  BY <1>1, <1>2, <1>3, ConnMoves
<1>5. Reading(c)'
  BY <1>1, <1>2, <1>4 DEF Served, Reading, fs
<1>6. ASSUME net'[c].out = net[c].out \o said, Getting(c)'
      PROVE  net'[c].out = <<"ERROR">>
  <2>1. conn[c].error_type # -1 /\ said = <<"ERROR">>
    <3>1. request[c].verb = "GET" /\ ~Dead(c)
      BY <1>6 DEF Getting, Dead, people
    <3>. QED
      BY <1>1, <3>1 DEF Served, Asked
  <2>2. net[c].out = <<>>
    BY <1>1, <2>1 DEF Served, Asked, Answering
  <2>. QED
    BY <1>6, <2>1, <2>2
<1>7. net'[c].out = net[c].out \o said =>
        (Reading(c)' /\ (Getting(c)' => /\ AnswerOf(net'[c].out, snapshot[c])
                                        /\ info.state = "COMPLETE" => net'[c].out # <<"OK">>))
  BY <1>5, <1>6 DEF AnswerOf
<1>8. conn[c].error_type # -1 => said = <<"ERROR">> /\ info.state = "COMPLETE"
  BY <1>2
<1>. QED
  BY <1>2, <1>3, <1>7, <1>8, ReplyInv

LEMMA SendStatusInv ==
  ASSUME ServerInv, NEW c \in Clients, Event(c, "WRITING_RESPONSE"), SendStatus(c),
         UNCHANGED <<request, up, backlog, fs, people, freed>>
  PROVE  ServerInv'
<1>. USE DEF marks
<1>. DEFINE info == [conn[c] EXCEPT !.state = "SENDING_SIZE"]
            said == <<"OK">>
<1>1. /\ ServerTypeOK /\ Served(c) /\ c \in Asking /\ conn[c] \in Infos /\ conn[c] # NoConn
      /\ conn[c].state = "WRITING_RESPONSE" /\ up
  BY InfoFields DEF ServerInv, Event
<1>2. /\ conn[c].error_type = -1 /\ conn[c].req.verb \in {"GET", "LIST"}
      /\ conn[c].req.verb = "GET" => conn[c].file_offset = 0
      /\ Reply(c, said) /\ Update(c, info) /\ UNCHANGED <<owner, snapshot, disturbed, clipped>>
  BY DEF SendStatus
<1>3. /\ info \in Infos /\ info.req = conn[c].req /\ info.state = "SENDING_SIZE" /\ info.fp = conn[c].fp
      /\ info.error_type = conn[c].error_type /\ info.buffer_size = conn[c].buffer_size
      /\ info.boffset = conn[c].boffset /\ info.file_offset = conn[c].file_offset
  BY <1>1 DEF Infos, States, Answering
<1>. HIDE DEF info
<1>4. said \in Seq(Words)
  BY WordsHold
<1>5. conn'[c] = info
  BY <1>1, <1>2, <1>3, ConnMoves
<1>6. conn[c].req.verb = "GET" => conn[c].fp # NoFile
  BY <1>1, <1>2 DEF Served, Asked
<1>7. conn[c].req.verb = "GET" /\ c \notin Spoiled => net[c].out = <<>>
  BY <1>1, <1>2, <1>6 DEF Served, Reading
<1>8. ASSUME net'[c].out = net[c].out \o said
      PROVE  Reading(c)' /\ (Getting(c)' => AnswerOf(net'[c].out, snapshot[c]))
  <2>1. conn[c].req.verb = "GET" /\ c \notin Spoiled => net'[c].out = <<"OK">>
    BY <1>4, <1>7, <1>8, ConcatEmptySeq
  <2>2. Reading(c)'
    BY <1>1, <1>2, <1>3, <1>5, <1>6, <2>1 DEF Served, Reading, Spoiled, fs
  <2>3. Getting(c)' => conn[c].req.verb = "GET" /\ c \notin Spoiled
    BY <1>1, <1>2 DEF Served, Asked, Getting, Spoiled, Dead, people
  <2>. QED
    BY <2>1, <2>2, <2>3 DEF AnswerOf
<1>9. info.state \in Answering \cup {"COMPLETE"} /\ conn[c].state \in Answering /\ info.state # "COMPLETE"
  BY <1>1, <1>3 DEF Answering
<1>. HIDE DEF said
<1>. QED
  BY <1>1, <1>2, <1>3, <1>4, <1>6, <1>8, <1>9, ReplyInv

LEMMA SendSizeInv == ASSUME ServerInv, NEW c \in Clients, SendSize(c) PROVE ServerInv'
<1>. USE DEF marks
<1>. DEFINE file == content[conn[c].fp.inode]
            size == IF conn[c].req.verb = "GET" THEN Len(file) ELSE 1
            info == [conn[c] EXCEPT !.req_size = size, !.state = "SENDING_DATA"]
            said == <<size>>
<1>1. /\ ServerTypeOK /\ Served(c) /\ c \in Asking /\ conn[c] \in Infos /\ conn[c] # NoConn
      /\ conn[c].state = "SENDING_SIZE" /\ up
  BY InfoFields DEF ServerInv, Event, SendSize
<1>2. /\ Reply(c, said) /\ Update(c, info) /\ UNCHANGED <<owner, snapshot, disturbed, clipped>>
      /\ UNCHANGED <<request, up, backlog, fs, people, freed>>
  BY DEF SendSize
<1>3. /\ conn[c].error_type = -1 /\ conn[c].req.verb \in {"GET", "LIST"}
      /\ conn[c].req.verb = "GET" => conn[c].fp # NoFile /\ conn[c].file_offset = 0
  BY <1>1 DEF Served, Asked
<1>4. conn[c].req.verb = "GET" => file \in Seq(Units) /\ Len(file) \in Nat
  <2>1. conn[c].req.verb = "GET" => file \in Seq(Units)
    BY <1>1, <1>3, InfoFields DEF ServerTypeOK
  <2>. QED
    BY <2>1, LenProperties
<1>. HIDE DEF file
<1>5. size \in Nat
  BY <1>4
<1>6. /\ info \in Infos /\ info.req = conn[c].req /\ info.state = "SENDING_DATA" /\ info.fp = conn[c].fp
      /\ info.error_type = conn[c].error_type /\ info.buffer_size = conn[c].buffer_size
      /\ info.boffset = conn[c].boffset /\ info.file_offset = conn[c].file_offset /\ info.req_size = size
  <2>. HIDE DEF size
  <2>. QED
    BY <1>1, <1>5 DEF Infos, States, Answering
<1>7. said \in Seq(Words)
  <2>. HIDE DEF size
  <2>1. size \in Words
    BY <1>5, WordsHold
  <2>. QED
    BY <2>1
<1>8. conn[c].req.verb = "GET" => size = Len(file)
  OBVIOUS
<1>. HIDE DEF info, size
<1>9. conn'[c] = info
  BY <1>1, <1>2, <1>6, ConnMoves
<1>10. ASSUME conn[c].req.verb = "GET", c \notin Spoiled, net'[c].out = net[c].out \o said
       PROVE  net'[c].out = SaidOf(snapshot[c], 0) /\ size = Len(snapshot[c])
  <2>1. net[c].out = <<"OK">> /\ file = snapshot[c]
    BY <1>1, <1>3, <1>10 DEF Served, Reading, Spoiled, file
  <2>2. net'[c].out = <<"OK", Len(snapshot[c])>>
    <3>1. <<"OK">> \o <<size>> = <<"OK", size>>
      <4>1. size \in Words /\ "OK" \in Words
        BY <1>5, WordsHold
      <4>. DEFINE front == <<"OK">>
                  back == <<size>>
                  both == <<"OK", size>>
      <4>2. /\ front \in Seq(Words) /\ back \in Seq(Words) /\ both \in Seq(Words)
            /\ Len(front) = 1 /\ Len(back) = 1 /\ Len(both) = 2
            /\ front[1] = "OK" /\ back[1] = size /\ both[1] = "OK" /\ both[2] = size
        BY <4>1
      <4>. HIDE DEF front, back, both
      <4>3. /\ front \o back \in Seq(Words) /\ Len(front \o back) = Len(front) + Len(back)
            /\ \A ino \in 1..(Len(front) + Len(back)) :
                 (front \o back)[ino] = IF ino <= Len(front) THEN front[ino] ELSE back[ino - Len(front)]
        BY <4>2, ConcatProperties
      <4>4. /\ front \o back \in Seq(Words) /\ Len(front \o back) = 2
            /\ (front \o back)[1] = "OK" /\ (front \o back)[2] = size
        BY <4>2, <4>3
      <4>5. front \o back = both
        BY <4>2, <4>4, SeqEqual
      <4>. QED
        BY <4>5 DEF front, back, both
    <3>. QED
      BY <1>8, <1>10, <2>1, <3>1
  <2>3. SubSeq(snapshot[c], 1, 0) = <<>>
    <3>1. snapshot[c] \in Seq(Units) /\ Len(snapshot[c]) \in Nat
      BY <1>4, <1>10, <2>1
    <3>2. SubSeq(snapshot[c], 0 + 1, 0) \in Seq(Units) /\ Len(SubSeq(snapshot[c], 0 + 1, 0)) = 0
      BY <3>1, SubSeqOfUnits
    <3>. QED
      BY <3>2, EmptySeq
  <2>4. <<"OK", Len(snapshot[c])>> \in Seq(Words)
    BY <1>4, <1>10, <2>1, WordsHold
  <2>. QED
    BY <1>8, <1>10, <2>1, <2>2, <2>3, <2>4, ConcatEmptySeq DEF SaidOf
<1>11. ASSUME net'[c].out = net[c].out \o said
       PROVE  Reading(c)' /\ (Getting(c)' => AnswerOf(net'[c].out, snapshot[c]))
  <2>2. Reading(c)'
    BY <1>1, <1>2, <1>3, <1>6, <1>9, <1>10, <1>11 DEF Served, Reading, Spoiled, fs
  <2>3. Getting(c)' => conn[c].req.verb = "GET" /\ c \notin Spoiled
    BY <1>1, <1>2 DEF Served, Asked, Getting, Spoiled, Dead, people
  <2>4. conn[c].req.verb = "GET" /\ c \notin Spoiled => 0 \in 0..Len(snapshot[c])
    BY <1>4, <1>8, <1>10, <1>11
  <2>. QED
    BY <1>10, <1>11, <2>2, <2>3, <2>4 DEF AnswerOf
<1>12. info.state \in Answering \cup {"COMPLETE"} /\ conn[c].state \in Answering /\ info.state # "COMPLETE"
  BY <1>1, <1>6 DEF Answering
<1>. HIDE DEF said
<1>. QED
  BY <1>1, <1>2, <1>3, <1>6, <1>7, <1>11, <1>12, ReplyInv

LEMMA SendGetResponseInv ==
  ASSUME ServerInv, NEW c \in Clients, SendGetResponse(c), UNCHANGED <<request, up, backlog, fs, people, freed>>
  PROVE  ServerInv'
<1>. DEFINE file == content[conn[c].fp.inode]
            off == conn[c].file_offset
            size == conn[c].req_size
            end == IF off + DataSize < size THEN off + DataSize ELSE size
            n == IF end < Len(file) THEN end ELSE Len(file)
            units == SubSeq(file, off + 1, n)
            whole == off + Len(units) >= size
            info == [conn[c] EXCEPT !.file_offset = @ + Len(units),
                                    !.fp = IF whole THEN NoFile ELSE @,
                                    !.state = IF whole THEN "COMPLETE" ELSE "WRITING_RESPONSE"]
<1>1. /\ ServerTypeOK /\ Served(c) /\ c \in Asking /\ conn[c] \in Infos /\ conn[c] # NoConn
      /\ conn[c].state \in {"SENDING_DATA", "WRITING_RESPONSE"} /\ up
  BY InfoFields DEF ServerInv, Event, SendGetResponse
<1>2. /\ conn[c].error_type = -1 /\ conn[c].req.verb = "GET" /\ UNCHANGED <<owner, snapshot, disturbed>>
      /\ IF conn[c].state = "SENDING_DATA" THEN off = 0 ELSE off > 0
  BY <1>1 DEF SendGetResponse, Event, Served, Asked
<1>3. PICK sent \in SendAll(units) :
        Reply(c, sent) /\ clipped' = IF sent = units THEN clipped ELSE clipped \cup {c}
  BY DEF SendGetResponse
<1>4. Update(c, info)
  BY DEF SendGetResponse
<1>5. conn[c].fp # NoFile /\ conn[c].fp.inode \in Clients
  BY <1>1, <1>2, InfoFields DEF Served, Asked
<1>6. file \in Seq(Units) /\ Len(file) \in Nat /\ snapshot[c] \in Seq(Units)
  BY <1>1, <1>5, LenProperties DEF ServerTypeOK
<1>7. off \in Nat /\ size \in Nat /\ DataSize \in Nat \ {0}
  BY <1>1, FileServerAssumption DEF Infos
<1>. HIDE DEF file, off, size, end, n, units, whole, info
<1>8. end \in Nat /\ n \in Nat /\ n <= Len(file)
  <2>2. end \in Nat
    BY <1>7 DEF end
  <2>. QED
    BY <1>6, <2>2 DEF n
<1>9. units \in Seq(Units) /\ Len(units) = IF off < n THEN n - off ELSE 0
  BY <1>6, <1>7, <1>8, SubSeqOfUnits DEF units
<1>9a. off + Len(units) \in Nat
  BY <1>7, <1>8, <1>9
<1>10. sent \in Seq(Units)
  BY <1>9, SendAllUnits
<1>12. sent \in Seq(Words)
  BY <1>10, WordsHold, SeqMonotonic
<1>13. /\ info \in Infos /\ info.req = conn[c].req /\ info.error_type = -1
       /\ info.buffer_size = conn[c].buffer_size /\ info.boffset = conn[c].boffset
       /\ info.state = IF whole THEN "COMPLETE" ELSE "WRITING_RESPONSE"
       /\ info.fp = IF whole THEN NoFile ELSE conn[c].fp
       /\ info.req_size = size /\ info.file_offset = off + Len(units)
  <2>. DEFINE offset == off + Len(units)
              fp == IF whole THEN NoFile ELSE conn[c].fp
              state == IF whole THEN "COMPLETE" ELSE "WRITING_RESPONSE"
  <2>1. offset \in Nat
    BY <1>9a
  <2>2. fp \in Handles \cup {NoFile} /\ state \in States
    BY <1>1 DEF Infos, States, Answering
  <2>3. info = [conn[c] EXCEPT !.file_offset = offset, !.fp = fp, !.state = state]
    BY DEF info, off
  <2>. HIDE DEF offset, fp, state
  <2>4. /\ info \in Infos /\ info.req = conn[c].req /\ info.error_type = conn[c].error_type
        /\ info.buffer_size = conn[c].buffer_size /\ info.boffset = conn[c].boffset
        /\ info.state = state /\ info.fp = fp /\ info.req_size = size /\ info.file_offset = offset
    BY <1>1, <2>1, <2>2, <2>3 DEF Infos, size
  <2>. QED
    BY <1>2, <2>4 DEF offset, fp, state
<1>14. conn'[c] = info
  BY <1>1, <1>4, <1>13, ConnMoves
<1>15. ASSUME net'[c].out = net[c].out \o sent, c \notin Spoiled'
       PROVE  /\ size = Len(snapshot[c]) /\ off + Len(units) <= Len(snapshot[c])
              /\ net'[c].out = SaidOf(snapshot[c], off + Len(units))
              /\ off + Len(units) = 0 => whole
  <2>1. c \notin Spoiled /\ sent = units
    BY <1>3, <1>2, <1>15 DEF Spoiled
  <2>2. file = snapshot[c]
    BY <1>1, <1>2, <1>5, <2>1 DEF Served, Reading, Spoiled, file
  <2>3. off <= Len(snapshot[c]) /\ net[c].out = SaidOf(snapshot[c], off) /\ size = Len(snapshot[c])
    <3>1. CASE conn[c].state = "SENDING_DATA"
      BY <1>1, <1>2, <1>5, <1>6, <2>1, <2>2, <3>1 DEF Served, Reading, size
    <3>2. CASE conn[c].state = "WRITING_RESPONSE"
      <4>1. off > 0 /\ off # 0
        BY <1>2, <1>7, <3>2
      <4>. QED
        BY <1>1, <1>2, <1>5, <2>1, <3>2, <4>1 DEF Served, Reading, size, off
    <3>. QED
      BY <1>1, <3>1, <3>2
  <2>8. n = end /\ off <= n
    BY <1>6, <1>7, <2>2, <2>3 DEF n, end
  <2>4. off + Len(units) = n
    BY <1>7, <1>8, <1>9, <2>8
  <2>5. n = 0 => whole
    BY <1>6, <1>7, <1>8, <2>2, <2>3, <2>4, <2>8 DEF whole, end
  <2>6. net'[c].out = SaidOf(snapshot[c], n)
    <3>2. net'[c].out = SaidOf(snapshot[c], off) \o SubSeq(snapshot[c], off + 1, n)
      BY <1>15, <2>1, <2>2, <2>3 DEF units
    <3>. QED
      BY <1>6, <1>7, <1>8, <2>2, <2>8, <3>2, SaidMore
  <2>. QED
    BY <1>8, <2>2, <2>3, <2>4, <2>5, <2>6
<1>16. ASSUME net'[c].out = net[c].out \o sent
       PROVE  /\ Reading(c)'
              /\ c \notin Spoiled' => AnswerOf(net'[c].out, snapshot[c]) /\ net'[c].out # <<"OK">>
  <2>2. ASSUME c \notin Spoiled' PROVE AnswerOf(net'[c].out, snapshot[c]) /\ net'[c].out # <<"OK">>
    <3>1. off + Len(units) \in 0..Len(snapshot[c])
      BY <1>6, <1>15, <1>16, <1>9a, <2>2
    <3>2. net'[c].out = SaidOf(snapshot[c], off + Len(units))
      BY <1>15, <1>16, <2>2
    <3>3. Len(net'[c].out) # 1
      <4>. DEFINE k == off + Len(units)
      <4>. HIDE DEF k
      <4>1. k \in 0..Len(snapshot[c]) /\ net'[c].out = SaidOf(snapshot[c], k) /\ k \in Nat
        BY <1>9a, <3>1, <3>2 DEF k
      <4>2. Len(net'[c].out) = k + 2
        BY <1>6, <4>1, SaidOfSeq
      <4>. QED
        BY <4>1, <4>2
    <3>5. net'[c].out = <<"OK">> => Len(net'[c].out) = 1
      OBVIOUS
    <3>4. net'[c].out # <<"OK">>
      BY <3>3, <3>5
    <3>. QED
      BY <3>1, <3>2, <3>4 DEF AnswerOf
  <2>3. ASSUME info.fp # NoFile
        PROVE  /\ c \notin disturbed => content[info.fp.inode] = snapshot[c]
               /\ c \notin Spoiled' =>
                    /\ info.file_offset <= Len(snapshot[c])
                    /\ IF info.file_offset = 0 THEN net'[c].out = <<>>
                       ELSE net'[c].out = SaidOf(snapshot[c], info.file_offset) /\ info.req_size = Len(snapshot[c])
    <3>1. ~whole /\ info.fp = conn[c].fp
      BY <1>13, <2>3
    <3>2. c \notin disturbed => content[info.fp.inode] = snapshot[c]
      BY <1>1, <1>2, <1>5, <3>1 DEF Served, Reading
    <3>3. ASSUME c \notin Spoiled'
          PROVE  /\ info.file_offset <= Len(snapshot[c]) /\ info.file_offset # 0
                 /\ net'[c].out = SaidOf(snapshot[c], info.file_offset) /\ info.req_size = Len(snapshot[c])
      <4>1. /\ size = Len(snapshot[c]) /\ off + Len(units) <= Len(snapshot[c])
            /\ net'[c].out = SaidOf(snapshot[c], off + Len(units)) /\ off + Len(units) # 0
        BY <1>15, <1>16, <3>1, <3>3
      <4>. QED
        BY <1>13, <4>1
    <3>. QED
      BY <3>2, <3>3
  <2>4. info.state \notin {"SENDING_SIZE", "SENDING_DATA"}
    BY <1>13
  <2>5. Reading(c)'
    BY <1>2, <1>14, <2>3, <2>4 DEF Reading, fs
  <2>. QED
    BY <2>2, <2>5
<1>17. /\ info.state # "COMPLETE" => /\ conn[c].req.verb \in {"GET", "LIST"}
                                     /\ conn[c].req.verb = "GET" => info.fp # NoFile
       /\ info.state \notin {"SENDING_SIZE", "SENDING_DATA"}
  BY <1>2, <1>5, <1>13
<1>18. info.state \in Answering \cup {"COMPLETE"} /\ info.error_type = conn[c].error_type /\ conn[c].state \in Answering
  BY <1>1, <1>2, <1>13 DEF Answering
<1>19. clipped' \subseteq clipped \cup {c} /\ clipped \subseteq clipped'
  BY <1>3
<1>20. net'[c].out = net[c].out \o sent =>
         (Reading(c)' /\ (Getting(c)' => /\ AnswerOf(net'[c].out, snapshot[c])
                                         /\ info.state = "COMPLETE" => net'[c].out # <<"OK">>))
  BY <1>16 DEF Getting
<1>21. conn[c].error_type # -1 => sent = <<"ERROR">> /\ info.state = "COMPLETE"
  BY <1>2
<1>. QED
  BY <1>1, <1>2, <1>3, <1>4, <1>12, <1>13, <1>17, <1>18, <1>19, <1>20, <1>21, ReplyInv

LEMMA WriteResponseInv == ASSUME ServerInv, NEW c \in Clients, WriteResponse(c) PROVE ServerInv'
<1>1. /\ Event(c, "WRITING_RESPONSE") /\ UNCHANGED <<request, up, backlog, fs, people, freed>>
      /\ up /\ conn[c] # NoConn /\ conn[c].state \in Answering
  BY DEF WriteResponse, Event, Answering
<1>2. <<"ERROR">> \in Seq(Words) /\ <<"OK">> \in Seq(Words)
  BY WordsHold
<1>3. CASE WriteError(c)
  BY <1>1, <1>2, <1>3, CompleteInv DEF WriteError
<1>4. CASE WriteOk(c)
  BY <1>1, <1>2, <1>4, CompleteInv DEF WriteOk
<1>5. CASE SendStatus(c)
  BY <1>1, <1>5, SendStatusInv
<1>. QED
  BY <1>3, <1>4, <1>5 DEF WriteResponse

LEMMA SendDataInv == ASSUME ServerInv, NEW c \in Clients, SendData(c) PROVE ServerInv'
<1>1. UNCHANGED <<request, up, backlog, fs, people, freed>>
  BY DEF SendData
<1>2. CASE ListResponse(c)
  <2>. DEFINE names == {f \in Names : dir[f] # NoInode}
              said == <<names>>
  <2>1. names \in Words
    BY WordsHold
  <2>. HIDE DEF names
  <2>2. said \in Seq(Words)
    BY <2>1
  <2>3. /\ Reply(c, said) /\ UNCHANGED marks /\ Update(c, [conn[c] EXCEPT !.state = "COMPLETE"])
        /\ conn[c].req.verb = "LIST" /\ up /\ conn[c] # NoConn /\ conn[c].state = "SENDING_DATA"
    BY <1>2 DEF ListResponse, names, Event
  <2>4. conn[c].error_type = -1 /\ conn[c].state \in Answering
    BY <2>3 DEF ServerInv, Served, Asked, Answering
  <2>. HIDE DEF said
  <2>. QED
    BY <1>1, <2>2, <2>3, <2>4, CompleteInv
<1>3. CASE SendGetResponse(c)
  BY <1>1, <1>3, SendGetResponseInv
<1>. QED
  BY <1>2, <1>3 DEF SendData
-----------------------------------------------------------------------------
(* The server's steps that change files.                                      *)

LEMMA FilesMove ==
  ASSUME ServerInv, request' = request, NEW c \in Clients, ServerTypeOK', NamesApart',
         \A d \in Clients \ {c} : SameConnection(d) /\ FilesKept(d), Served(c)'
  PROVE  ServerInv'
  BY KeptServed DEF ServerInv

LEMMA FilenameAnswered ==
  ASSUME ServerInv, NEW c \in Clients, Event(c, "READING_FILENAME"), NEW info \in Infos, Update(c, info),
         UNCHANGED <<request, up, backlog, net, client, received>>,
         info.state = "WRITING_RESPONSE", info.req = conn[c].req, info.boffset = conn[c].boffset,
         info.buffer_size = conn[c].buffer_size,
         info.error_type = -1 => info.req.verb # "PUT" /\ (info.req.verb = "GET" => info.fp # NoFile),
         conn'[c] = info => Reading(c)'
  PROVE  Served(c)'
<1>1. conn'[c] = info /\ Reading(c)'
  BY AtFilename, ConnMoves
<1>2. Once(c)'
  BY <1>1, AtFilename DEF Once, Early, At, Asking
<1>3. Asked(c)'
  BY <1>1, AtFilename DEF Served, Asked, Dead, Asking
<1>4. Storing(c)'
  BY <1>1 DEF Storing, At
<1>5. Stored(c)'
  <2>1. Answered(c)' => info.error_type = -1
    BY <1>1, AtFilename DEF Answered, Said, At
  <2>. QED
    BY <2>1, AtFilename DEF Stored, Dead
<1>6. Delivered(c)'
  BY AtFilename DEF Delivered, AnswerOf
<1>7. Closing(c)'
  <2>1. up /\ conn[c] # NoConn /\ conn[c].state # "COMPLETE" /\ conn'[c].state # "COMPLETE"
    BY <1>1, AtFilename
  <2>. QED
    BY <2>1, StillClosing
<1>. QED
  BY <1>1, <1>2, <1>3, <1>4, <1>5, <1>6, <1>7 DEF Served

LEMMA OpenForPutInv ==
  ASSUME ServerInv, NEW c \in Clients, Event(c, "READING_FILENAME"), conn[c].req.verb = "PUT", OpenForPut(c),
         UNCHANGED <<request, up, backlog, busy, net, people, freed>>
  PROVE  ServerInv'
<1>. USE DEF people
<1>. DEFINE f == conn[c].req.name
            ino == IF dir[f] = NoInode THEN c ELSE dir[f]
            fp == [inode |-> ino, pos |-> 0, pending |-> <<>>]
            info == [conn[c] EXCEPT !.state = "READING_SIZE", !.file_offset = 0, !.fp = fp]
<1>1. /\ dir' = [dir EXCEPT ![f] = ino] /\ content' = [content EXCEPT ![ino] = <<>>]
      /\ disturbed' = disturbed \cup GetsOf(ino) /\ owner' = [owner EXCEPT ![f] = c]
      /\ UNCHANGED <<snapshot, clipped>> /\ Update(c, info)
  BY DEF OpenForPut
<1>2. f \in Names /\ ino \in Clients /\ ServerTypeOK
  BY AtFilename DEF ServerTypeOK
<1>3. \A g \in Names \ {f} : dir[g] # ino
  BY <1>2, AtFilename DEF NamesApart
<1>4. fp \in Handles /\ fp.inode = ino /\ fp.pos = 0 /\ fp.pending = <<>> /\ fp # NoFile
  <2>1. fp \in Handles /\ fp.inode = ino /\ fp.pos = 0 /\ fp.pending = <<>>
    BY <1>2 DEF Handles
  <2>2. NoFile \notin Handles
    BY FileServerAssumption DEF Handles, Units
  <2>. QED
    BY <2>1, <2>2
<1>. HIDE DEF fp
<1>5. /\ info \in Infos /\ info.state = "READING_SIZE" /\ info.fp = fp /\ info.file_offset = 0
      /\ info.req = conn[c].req /\ info.buffer_size = conn[c].buffer_size /\ info.boffset = conn[c].boffset
  <2>. HIDE DEF ino
  <2>1. conn[c] \in Infos
    BY AtFilename
  <2>. QED
    BY <1>4, <2>1 DEF Infos, States, Answering
<1>. HIDE DEF ino, info
<1>6. /\ conn' \in [Clients -> Infos \cup {NoConn}]
      /\ conn'[c] = info /\ \A d \in Clients \ {c} : conn'[d] = conn[d]
  BY <1>1, <1>2, <1>5, ConnMoves
<1>7. ServerTypeOK'
  <2>1. dir' \in [Names -> Clients \cup {NoInode}] /\ owner' \in [Names -> Clients \cup {NoClient}]
    BY <1>1, <1>2 DEF ServerTypeOK
  <2>2. content' \in [Clients -> Seq(Units)]
    BY <1>1, <1>2 DEF ServerTypeOK
  <2>3. disturbed' \subseteq Clients
    BY <1>1, <1>2 DEF ServerTypeOK, GetsOf
  <2>4. Asking' = Asking /\ \A d \in Clients : conn'[d] # NoConn => d \in Asking
    BY <1>2, <1>6, AtFilename DEF ServerTypeOK, Asking
  <2>. QED
    BY <1>1, <1>2, <1>6, <2>1, <2>2, <2>3, <2>4 DEF ServerTypeOK
<1>8. /\ dir'[f] = ino /\ owner'[f] = c /\ content'[ino] = <<>>
      /\ \A g \in Names \ {f} : dir'[g] = dir[g] /\ owner'[g] = owner[g]
      /\ \A j \in Clients \ {ino} : content'[j] = content[j]
  BY <1>1, <1>2 DEF ServerTypeOK
<1>9. NamesApart'
  BY <1>3, <1>8, AtFilename DEF NamesApart
<1>10. ASSUME NEW d \in Clients \ {c} PROVE SameConnection(d) /\ FilesKept(d)
  <2>1. SameConnection(d)
    BY <1>6 DEF SameConnection
  <2>2. \A g \in Names : dir'[g] = d => dir[g] = d
    BY <1>8 DEF ino
  <2>3. \A g \in Names : owner'[g] = d =>
          owner[g] = d /\ dir'[g] = dir[g] /\ (dir[g] \in Clients => content'[dir[g]] = content[dir[g]])
    BY <1>3, <1>8
  <2>4. conn[d] # NoConn /\ conn[d].req.verb = "GET" /\ conn[d].fp # NoFile /\ d \notin disturbed' =>
          content'[conn[d].fp.inode] = content[conn[d].fp.inode]
    BY <1>1, <1>2, <1>8, InfoFields DEF GetsOf
  <2>. QED
    BY <1>1, <2>1, <2>2, <2>3, <2>4 DEF FilesKept
<1>11. Served(c)'
  <2>1. Once(c)'
    BY <1>5, <1>6, AtFilename DEF Once, Early, At, Asking
  <2>2. Asked(c)'
    BY <1>4, <1>5, <1>6, AtFilename DEF Served, Asked, Dead, Asking
  <2>3. Storing(c)'
    <3>1. AfterSeek(c)' = <<>>
      BY <1>4, <1>5, <1>6, <1>8, OverlayNothing DEF AfterSeek
    <3>2. Written(c, 0) = <<>>
      BY WrittenSeq, EmptySeq
    <3>. QED
      BY <1>4, <1>5, <1>6, <1>8, <3>1, <3>2 DEF Storing, Written
  <2>4. Stored(c)'
    BY <1>5, <1>6, AtFilename DEF Stored, Answered, Said, At, Answering
  <2>5. Reading(c)'
    BY <1>5, <1>6 DEF Reading
  <2>6. Delivered(c)' /\ Closing(c)'
    BY <1>1, <1>5, <1>6, AtFilename, StillDelivered
  <2>. QED
    BY <2>1, <2>2, <2>3, <2>4, <2>5, <2>6 DEF Served
<1>. QED
  BY <1>7, <1>9, <1>10, <1>11, FilesMove

LEMMA OpenForGetInv ==
  ASSUME ServerInv, NEW c \in Clients, Event(c, "READING_FILENAME"), conn[c].req.verb = "GET",
         dir[conn[c].req.name] # NoInode, OpenForGet(c), UNCHANGED <<request, up, backlog, busy, net, people, freed>>
  PROVE  ServerInv'
<1>. USE DEF people, fs
<1>. DEFINE ino == dir[conn[c].req.name]
            fp == [inode |-> ino, pos |-> 0, pending |-> <<>>]
            info == [conn[c] EXCEPT !.state = "WRITING_RESPONSE", !.file_offset = 0, !.fp = fp]
<1>1. /\ Update(c, info) /\ snapshot' = [snapshot EXCEPT ![c] = content[ino]]
      /\ UNCHANGED <<dir, content, owner, disturbed, clipped>>
  BY DEF OpenForGet
<1>2. ino \in Clients /\ ServerTypeOK
  BY AtFilename DEF ServerTypeOK
<1>4. fp \in Handles /\ fp.inode = ino /\ fp # NoFile
  <2>1. fp \in Handles /\ fp.inode = ino
    BY <1>2 DEF Handles
  <2>2. NoFile \notin Handles
    BY FileServerAssumption DEF Handles, Units
  <2>. QED
    BY <2>1, <2>2
<1>. HIDE DEF fp
<1>5. /\ info \in Infos /\ info.state = "WRITING_RESPONSE" /\ info.fp = fp /\ info.file_offset = 0
      /\ info.req = conn[c].req /\ info.buffer_size = conn[c].buffer_size /\ info.boffset = conn[c].boffset
  <2>. HIDE DEF ino
  <2>1. conn[c] \in Infos
    BY AtFilename
  <2>. QED
    BY <1>4, <2>1 DEF Infos, States, Answering
<1>. HIDE DEF ino, info
<1>6. /\ conn' \in [Clients -> Infos \cup {NoConn}]
      /\ conn'[c] = info /\ \A d \in Clients \ {c} : conn'[d] = conn[d]
  BY <1>1, <1>2, <1>5, ConnMoves
<1>7. ServerTypeOK'
  <2>1. snapshot' \in [Clients -> Seq(Units)]
    BY <1>1, <1>2 DEF ServerTypeOK
  <2>2. Asking' = Asking /\ \A d \in Clients : conn'[d] # NoConn => d \in Asking
    BY <1>2, <1>6, AtFilename DEF ServerTypeOK, Asking
  <2>. QED
    BY <1>1, <1>2, <1>6, <2>1, <2>2 DEF ServerTypeOK
<1>8. snapshot'[c] = content[ino] /\ \A d \in Clients \ {c} : snapshot'[d] = snapshot[d]
  BY <1>1, <1>2 DEF ServerTypeOK
<1>9. NamesApart'
  BY <1>1, AtFilename DEF NamesApart
<1>10. ASSUME NEW d \in Clients \ {c} PROVE SameConnection(d) /\ FilesKept(d)
  BY <1>1, <1>6, <1>8 DEF SameConnection, FilesKept
<1>11. conn'[c] = info => Reading(c)'
  <2>1. content[ino] \in Seq(Units) /\ net[c].out = <<>>
    BY <1>2, AtFilename DEF ServerTypeOK
  <2>2. Len(content[ino]) \in Nat
    BY <2>1, LenProperties
  <2>. QED
    BY <1>1, <1>4, <1>5, <1>8, <2>1, <2>2 DEF Reading
<1>12. Served(c)'
  BY <1>1, <1>4, <1>5, <1>11, FilenameAnswered
<1>. QED
  BY <1>7, <1>9, <1>10, <1>12, FilesMove

LEMMA DeleteInv ==
  ASSUME ServerInv, NEW c \in Clients, Event(c, "READING_FILENAME"), conn[c].req.verb = "DELETE",
         RemoveFile(conn[c].req.name), Update(c, [conn[c] EXCEPT !.state = "WRITING_RESPONSE"]),
         UNCHANGED <<request, up, backlog, busy, net, people, freed, content, snapshot, disturbed, clipped>>
  PROVE  ServerInv'
<1>. USE DEF people
<1>. DEFINE f == conn[c].req.name
            info == [conn[c] EXCEPT !.state = "WRITING_RESPONSE"]
<1>1. conn[c] \in Infos /\ f \in Names /\ ServerTypeOK
  BY AtFilename
<1>2. /\ info \in Infos /\ info.state = "WRITING_RESPONSE" /\ info.req = conn[c].req
      /\ info.buffer_size = conn[c].buffer_size /\ info.boffset = conn[c].boffset
  BY <1>1 DEF Infos, States, Answering
<1>. HIDE DEF info
<1>3. Update(c, info)
  BY DEF info
<1>4. /\ conn' \in [Clients -> Infos \cup {NoConn}]
      /\ conn'[c] = info /\ \A d \in Clients \ {c} : conn'[d] = conn[d]
  BY <1>1, <1>2, <1>3, ConnMoves
<1>5. /\ dir'[f] = NoInode /\ owner'[f] = NoClient
      /\ \A g \in Names \ {f} : dir'[g] = dir[g] /\ owner'[g] = owner[g]
  BY <1>1 DEF RemoveFile, ServerTypeOK
<1>6. ServerTypeOK'
  <2>1. dir' \in [Names -> Clients \cup {NoInode}] /\ owner' \in [Names -> Clients \cup {NoClient}]
    BY <1>1 DEF ServerTypeOK, RemoveFile
  <2>2. Asking' = Asking /\ \A d \in Clients : conn'[d] # NoConn => d \in Asking
    BY <1>1, <1>4, AtFilename DEF ServerTypeOK, Asking
  <2>. QED
    BY <1>1, <1>4, <2>1, <2>2 DEF ServerTypeOK
<1>7. NamesApart'
  BY <1>5, AtFilename DEF NamesApart
<1>8. ASSUME NEW d \in Clients \ {c} PROVE SameConnection(d) /\ FilesKept(d)
  <2>1. d # NoClient /\ d # NoInode
    BY FileServerAssumption
  <2>. QED
    BY <1>4, <1>5, <2>1 DEF SameConnection, FilesKept
<1>9. conn'[c] = info => Reading(c)'
  BY <1>2 DEF Reading
<1>10. Served(c)'
  BY <1>2, <1>3, <1>9, FilenameAnswered
<1>. QED
  BY <1>6, <1>7, <1>8, <1>10, FilesMove

LEMMA MissingInv ==
  ASSUME ServerInv, NEW c \in Clients, Event(c, "READING_FILENAME"),
         Update(c, [conn[c] EXCEPT !.state = "WRITING_RESPONSE", !.error_type = 2]),
         UNCHANGED <<request, up, backlog, busy, net, people, freed, fs, marks>>
  PROVE  ServerInv'
<1>. USE DEF people, fs, marks
<1>. DEFINE info == [conn[c] EXCEPT !.state = "WRITING_RESPONSE", !.error_type = 2]
<1>1. conn[c] \in Infos /\ conn[c] # NoConn /\ ServerTypeOK /\ Served(c) /\ c \in Asking
  BY AtFilename
<1>2. /\ info \in Infos /\ info.state = "WRITING_RESPONSE" /\ info.req = conn[c].req /\ info.fp = conn[c].fp
      /\ info.buffer_size = conn[c].buffer_size /\ info.boffset = conn[c].boffset /\ info.error_type = 2
  <2>1. conn[c] \in Infos /\ "WRITING_RESPONSE" \in States /\ 2 \in Int
    BY <1>1 DEF States, Answering
  <2>. QED
    BY <2>1 DEF Infos
<1>. HIDE DEF info
<1>3. Update(c, info)
  BY DEF info
<1>4. /\ conn' \in [Clients -> Infos \cup {NoConn}]
      /\ conn'[c] = info /\ \A d \in Clients \ {c} : conn'[d] = conn[d]
  BY <1>1, <1>2, <1>3, ConnMoves
<1>5. ServerTypeOK'
  BY <1>1, <1>4, TypeKept DEF ServerTypeOK
<1>6. \A d \in Clients \ {c} : SameConnection(d)
  BY <1>4 DEF SameConnection
<1>7. conn'[c] = info => Reading(c)'
  BY <1>1, <1>2 DEF Served, Reading
<1>8. Served(c)'
  BY <1>2, <1>3, <1>7, FilenameAnswered
<1>. QED
  BY <1>5, <1>6, <1>8, SameFiles

LEMMA ReadFilenameInv == ASSUME ServerInv, NEW c \in Clients, ReadFilename(c) PROVE ServerInv'
<1>1. Event(c, "READING_FILENAME") /\ UNCHANGED <<request, up, backlog, busy, net, people, freed>>
  BY DEF ReadFilename
<1>2. CASE conn[c].req.verb = "PUT" /\ OpenForPut(c)
  BY <1>1, <1>2, OpenForPutInv
<1>3. CASE conn[c].req.verb = "GET" /\ dir[conn[c].req.name] # NoInode /\ OpenForGet(c)
  BY <1>1, <1>3, OpenForGetInv
<1>4. CASE /\ conn[c].req.verb = "DELETE" /\ RemoveFile(conn[c].req.name)
           /\ Update(c, [conn[c] EXCEPT !.state = "WRITING_RESPONSE"])
           /\ UNCHANGED <<content, snapshot, disturbed, clipped>>
  BY <1>1, <1>4, DeleteInv
<1>5. CASE /\ Update(c, [conn[c] EXCEPT !.state = "WRITING_RESPONSE", !.error_type = 2])
           /\ UNCHANGED <<fs, marks>>
  BY <1>1, <1>5, MissingInv
<1>. QED
  BY <1>2, <1>3, <1>4, <1>5, Zenon DEF ReadFilename

LEMMA InterruptInv == ASSUME ServerInv, Interrupt PROVE ServerInv'
<1>. USE DEF Interrupt, people, marks
<1>1. ServerTypeOK /\ NamesApart
  BY DEF ServerInv
<1>2. \A d \in Clients : /\ net'[d] \in Sockets /\ net'[d].out = net[d].out /\ net'[d].sent = net[d].sent
                         /\ net'[d].got = net[d].got /\ net'[d].eof = net[d].eof
                         /\ net'[d].shut
  <2>1. \A d \in Clients : net[d] \in Sockets /\ net'[d] = [net[d] EXCEPT !.shut = TRUE]
    BY <1>1 DEF ServerTypeOK
  <2>. QED
    BY <2>1 DEF Sockets
<1>3. ServerTypeOK'
  <2>1. net' \in [Clients -> Sockets] /\ \A d \in Clients : net'[d].got <= net'[d].sent
    <3>1. net' = [d \in Clients |-> net'[d]]
      BY Zenon
    <3>2. \A d \in Clients : net[d].got <= net[d].sent
      BY <1>1 DEF ServerTypeOK
    <3>. QED
      BY <1>2, <3>1, <3>2
  <2>2. dir' \in [Names -> Clients \cup {NoInode}]
    BY <1>1 DEF ServerTypeOK
  <2>. QED
    BY <1>1, <2>1, <2>2 DEF ServerTypeOK, Asking
<1>4. NamesApart'
  BY <1>1 DEF NamesApart
<1>5. ASSUME NEW d \in Clients PROVE Served(d)'
  <2>1. SameConnection(d)
    BY <1>2 DEF SameConnection
  <2>2. FilesKept(d)
    BY FileServerAssumption DEF FilesKept
  <2>. QED
    BY <2>1, <2>2, KeptServed
<1>. QED
  BY <1>3, <1>4, <1>5 DEF ServerInv

LEMMA ReadDataInv == ASSUME ServerInv, NEW c \in Clients, ReadData(c) PROVE ServerInv'
<1>. USE DEF people
<1>. DEFINE old == conn[c]
            refill == old.buffer_size = 0
            size == IF refill THEN Arrived(c) ELSE old.buffer_size
            in_buffer == size - IF refill THEN 0 ELSE old.boffset
            off == old.file_offset
            missing == old.req_size - off
            count == IF in_buffer > missing THEN missing ELSE in_buffer
            units == NextUnits(c, off, count)
            file == AfterSeek(c)
            failed == Failed(size, in_buffer, missing)
            done == count = missing
            ino == old.fp.inode
            f == old.req.name
            fp == IF failed \/ done THEN NoFile ELSE [inode |-> ino, pos |-> Len(file), pending |-> units]
            stored == IF size # 0 /\ done THEN Closed(file, units) ELSE file
            got == IF refill THEN net[c].got + size ELSE net[c].got
            removed == IF failed THEN f ELSE NoClient
            state == IF failed \/ done THEN "WRITING_RESPONSE" ELSE "READING_DATA"
            error == IF failed THEN 1 ELSE -1
            info == [old EXCEPT !.state = state, !.error_type = error, !.buffer_size = 0, !.boffset = 0,
                                !.file_offset = @ + count, !.fp = fp]
            s == [net[c] EXCEPT !.got = got]
<1>1. /\ ServerTypeOK /\ NamesApart /\ Served(c) /\ c \in Asking /\ old \in Infos /\ old # NoConn
      /\ old.state = "READING_DATA" /\ up
  BY InfoFields DEF ServerInv, ReadData, Event
<1>2. /\ net' = [net EXCEPT ![c] = s]
      /\ content' = [content EXCEPT ![ino] = stored]
      /\ Update(c, info)
      /\ dir' = IF failed THEN [dir EXCEPT ![f] = NoInode] ELSE dir
      /\ Touch(c, ino, removed)
      /\ UNCHANGED <<request, up, backlog, busy, client, received, freed>>
  BY <1>1 DEF ReadData, ServerTypeOK, NextUnits
<1>3. /\ old.fp # NoFile /\ old.req.verb = "PUT" /\ net[c].out = <<>> /\ client[c] # "ok"
      /\ old.req_size = old.req.size /\ off <= old.req_size
      /\ old.buffer_size > 0 => old.boffset <= old.buffer_size
      /\ old.req # request[c] => Dead(c)
      /\ client[c] \notin {"idle", "absent"} /\ c \notin backlog
  BY <1>1 DEF Served, Asked, Once
<1>4. /\ ino \in Clients /\ old.fp.pos \in Nat /\ old.fp.pending \in Seq(Units) /\ f \in Names
      /\ content[ino] \in Seq(Units)
  <2>1. /\ ino \in Clients /\ old.fp.pos \in Nat /\ old.fp.pending \in Seq(Units) /\ f \in Names
    BY <1>1, <1>3, InfoFields
  <2>. QED
    BY <1>1, <2>1 DEF ServerTypeOK
<1>5. /\ off \in Nat /\ old.req_size \in Nat /\ old.buffer_size \in Nat /\ old.boffset \in Nat
      /\ old.req \in Requests
  BY <1>1 DEF Infos
<1>6. net[c] \in Sockets /\ net[c].got <= net[c].sent /\ net[c].got \in Nat
  BY <1>1 DEF ServerTypeOK, Sockets
<1>7. Arrived(c) \in Nat /\ net[c].got + Arrived(c) <= net[c].sent
  BY <1>1, ArrivedNat
<1>. HIDE DEF old, refill, size, in_buffer, off, missing, count, units, file, failed, done, ino, f, fp, stored, got,
              removed, state, error, info, s
<1>8. size \in Nat /\ in_buffer \in Nat
  BY <1>3, <1>5, <1>7 DEF size, in_buffer, refill
<1>9. missing \in Nat /\ off + missing = old.req_size
  BY <1>3, <1>5 DEF missing
<1>10. count \in Nat /\ count <= missing /\ off + count \in Nat /\ off + count <= old.req_size
  BY <1>5, <1>8, <1>9 DEF count
<1>11. got \in Nat /\ got <= net[c].sent
  BY <1>6, <1>7, <1>8 DEF got, refill, size
<1>12. units \in Seq(Units)
  BY <1>5, <1>10, NextUnitsSeq DEF units
<1>13. file \in Seq(Units) /\ Len(file) \in Nat
  <2>1. file = Overlay(content[ino], old.fp.pos, old.fp.pending)
    BY DEF file, AfterSeek, ino, old
  <2>2. file \in Seq(Units)
    BY <1>4, <2>1, OverlaySeq
  <2>. QED
    BY <2>2, LenProperties
<1>14. stored \in Seq(Units)
  BY <1>12, <1>13, OverlaySeq DEF stored, Closed
<1>15. /\ fp \in Handles \cup {NoFile}
       /\ ~failed /\ ~done => fp # NoFile /\ fp.inode = ino /\ fp.pos = Len(file) /\ fp.pending = units
  <2>1. CASE failed \/ done
    BY <2>1 DEF fp
  <2>2. CASE ~failed /\ ~done
    <3>1. fp = [inode |-> ino, pos |-> Len(file), pending |-> units]
      BY <2>2 DEF fp
    <3>2. fp \in Handles /\ fp.inode = ino /\ fp.pos = Len(file) /\ fp.pending = units
      BY <1>4, <1>12, <1>13, <3>1 DEF Handles
    <3>3. NoFile \notin Handles
      BY FileServerAssumption DEF Handles, Units
    <3>. QED
      BY <3>2, <3>3
  <2>. QED
    BY <2>1, <2>2
<1>16. state \in States /\ error \in Int
  BY DEF state, error, States, Answering
<1>17. /\ info \in Infos /\ info.state = state /\ info.error_type = error /\ info.fp = fp
       /\ info.buffer_size = 0 /\ info.boffset = 0 /\ info.file_offset = off + count
       /\ info.req = old.req /\ info.req_size = old.req_size
  <2>. DEFINE offset == off + count
  <2>1. info = [old EXCEPT !.state = state, !.error_type = error, !.buffer_size = 0, !.boffset = 0,
                           !.file_offset = offset, !.fp = fp]
    BY DEF info, off
  <2>2. offset \in Nat
    BY <1>10
  <2>. HIDE DEF offset
  <2>3. /\ info \in Infos /\ info.state = state /\ info.error_type = error /\ info.fp = fp
        /\ info.buffer_size = 0 /\ info.boffset = 0 /\ info.file_offset = offset
        /\ info.req = old.req /\ info.req_size = old.req_size
    BY <1>1, <1>15, <1>16, <2>1, <2>2 DEF Infos
  <2>. QED
    BY <2>3 DEF offset
<1>18. /\ s \in Sockets /\ s.out = net[c].out /\ s.sent = net[c].sent /\ s.got <= s.sent /\ s.eof = net[c].eof
       /\ s.shut = net[c].shut
  BY <1>6, <1>11 DEF Sockets, s
<1>19. /\ net' \in [Clients -> Sockets] /\ \A d \in Clients : net'[d].got <= net'[d].sent
       /\ net'[c] = s /\ \A d \in Clients \ {c} : net'[d] = net[d]
  BY <1>1, <1>2, <1>18, NetMoves
<1>20. /\ conn' \in [Clients -> Infos \cup {NoConn}]
       /\ conn'[c] = info /\ \A d \in Clients \ {c} : conn'[d] = conn[d]
  BY <1>1, <1>2, <1>17, ConnMoves
<1>21. /\ content' \in [Clients -> Seq(Units)] /\ content'[ino] = stored
       /\ \A j \in Clients \ {ino} : content'[j] = content[j]
  BY <1>1, <1>2, <1>4, <1>14 DEF ServerTypeOK
<1>22. /\ dir' \in [Names -> Clients \cup {NoInode}]
       /\ \A g \in Names : dir'[g] = IF failed /\ g = f THEN NoInode ELSE dir[g]
  BY <1>1, <1>2, <1>4 DEF ServerTypeOK
<1>23. /\ owner' \in [Names -> Clients \cup {NoClient}]
       /\ \A g \in Names : owner'[g] \in {owner[g], NoClient}
       /\ \A g \in Names : owner'[g] # NoClient => g # removed /\ (dir[g] = ino => owner[g] = c)
  <2>1. owner' = [g \in Names |-> IF g = removed \/ (dir[g] = ino /\ owner[g] # c) THEN NoClient ELSE owner[g]]
    BY <1>2 DEF Touch
  <2>. QED
    BY <1>1, <2>1 DEF ServerTypeOK
<1>24. disturbed' = disturbed \cup GetsOf(ino) /\ UNCHANGED <<snapshot, clipped>>
  BY <1>2 DEF Touch
<1>25. ServerTypeOK'
  <2>1. disturbed' \subseteq Clients
    BY <1>1, <1>24 DEF ServerTypeOK, GetsOf
  <2>2. Asking' = Asking /\ \A d \in Clients : conn'[d] # NoConn => d \in Asking
    BY <1>1, <1>2, <1>20 DEF ServerTypeOK, Asking
  <2>. QED
    BY <1>1, <1>2, <1>19, <1>20, <1>21, <1>22, <1>23, <1>24, <2>1, <2>2 DEF ServerTypeOK
<1>26. NamesApart'
  BY <1>1, <1>22 DEF NamesApart
<1>27. ASSUME NEW d \in Clients \ {c} PROVE SameConnection(d) /\ FilesKept(d)
  <2>1. SameConnection(d)
    BY <1>2, <1>19, <1>20 DEF SameConnection
  <2>2. d # NoClient /\ d # NoInode
    BY FileServerAssumption
  <2>3. \A g \in Names : dir'[g] = d => dir[g] = d
    BY <1>22, <2>2
  <2>4. \A g \in Names : owner'[g] = d =>
          owner[g] = d /\ dir'[g] = dir[g] /\ (dir[g] \in Clients => content'[dir[g]] = content[dir[g]])
    <3>1. ASSUME NEW g \in Names, owner'[g] = d
          PROVE  owner[g] = d /\ dir'[g] = dir[g] /\ (dir[g] \in Clients => content'[dir[g]] = content[dir[g]])
      <4>1. owner[g] = d /\ g # removed /\ dir[g] # ino
        BY <1>23, <2>2, <3>1
      <4>2. dir'[g] = dir[g]
        BY <1>22, <4>1 DEF removed
      <4>. QED
        BY <1>21, <4>1, <4>2
    <3>. QED
      BY <3>1
  <2>5. conn[d] # NoConn /\ conn[d].req.verb = "GET" /\ conn[d].fp # NoFile /\ d \notin disturbed' =>
          content'[conn[d].fp.inode] = content[conn[d].fp.inode]
    BY <1>1, <1>21, <1>24, InfoFields DEF GetsOf
  <2>. QED
    BY <1>2, <1>24, <2>1, <2>3, <2>4, <2>5 DEF FilesKept
\* The file of c, when c has written it alone.
<1>28. ASSUME owner'[f] = c
       PROVE  ~failed /\ dir'[f] = ino /\ Overlay(file, Len(file), units) = Written(c, off + count)
  <2>1. owner[f] = c /\ f # removed
    BY <1>4, <1>23, <1>28, FileServerAssumption
  <2>2. ~failed
    BY <2>1 DEF removed
  <2>3. dir[f] = ino /\ file = Written(c, off)
    BY <1>1, <2>1 DEF Served, Storing, At, old, f, ino, file, off
  <2>4. Len(file) = off
    BY <1>5, <2>3, WrittenSeq
  <2>5. dir'[f] = ino
    BY <1>4, <1>22, <2>2, <2>3
  <2>6. Overlay(Written(c, off), off, units) = Written(c, off + count)
    BY <1>5, <1>10, OverlayWritten DEF units
  <2>. QED
    BY <2>2, <2>3, <2>4, <2>5, <2>6
<1>29. Served(c)'
  <2>1. info.state \in {"READING_DATA", "WRITING_RESPONSE"}
    BY <1>17 DEF state
  <2>2. Once(c)'
    BY <1>1, <1>2, <1>3, <1>20, <2>1 DEF Served, Once, Early, At, Asking
  <2>3. Asked(c)'
    <3>1. (c \in Asking /\ net[c].eof /\ ~Dead(c) => net[c].sent > 0)'
      BY <1>1, <1>2, <1>18, <1>19 DEF Served, Asked, Asking, Dead
    <3>2. info.state = "READING_DATA" => info.fp # NoFile
      BY <1>15, <1>17 DEF state
    <3>. QED
      BY <1>2, <1>3, <1>10, <1>17, <1>18, <1>19, <1>20, <2>1, <3>1, <3>2 DEF Asked, Dead
  <2>4. Storing(c)'
    <3>. SUFFICES ASSUME info.state = "READING_DATA", owner'[f] = c
                  PROVE  dir'[f] = info.fp.inode /\ AfterSeek(c)' = Written(c, info.file_offset)
      BY <1>17, <1>20, <2>1 DEF Storing, At, Written, f
    <3>1. ~failed /\ ~done
      BY <1>17 DEF state
    <3>2. info.fp.inode = ino /\ info.fp.pos = Len(file) /\ info.fp.pending = units
      BY <1>15, <1>17, <3>1
    <3>3. stored = file
      BY <3>1 DEF stored
    <3>4. AfterSeek(c)' = Overlay(file, Len(file), units)
      BY <1>20, <1>21, <3>2, <3>3 DEF AfterSeek
    <3>. QED
      BY <1>17, <1>28, <3>2, <3>4
  <2>5. Stored(c)'
    <3>. SUFFICES ASSUME Answered(c)', ~Dead(c), owner'[request[c].name] = c
                  PROVE  /\ dir'[request[c].name] \in Clients
                         /\ content'[dir'[request[c].name]] = Written(c, request[c].size)
      BY <1>2 DEF Stored, Dead, Written
    <3>1. info.state = "WRITING_RESPONSE" /\ info.error_type = -1
      BY <1>2, <1>3, <1>18, <1>19, <1>20, <2>1 DEF Answered, Said, At, Answering
    <3>2. ~failed /\ done
      BY <1>17, <3>1 DEF state, error
    <3>3. size # 0
      BY <3>2 DEF failed, Failed
    <3>4. request[c] = old.req /\ request[c].name = f
      BY <1>3 DEF f
    <3>5. dir'[f] = ino /\ Overlay(file, Len(file), units) = Written(c, off + count)
      BY <1>28, <3>4
    <3>6. off + count = request[c].size
      BY <1>3, <1>9, <3>2, <3>4 DEF done
    <3>7. stored = Overlay(file, Len(file), units)
      BY <3>2, <3>3 DEF stored, Closed
    <3>. QED
      BY <1>4, <1>21, <3>4, <3>5, <3>6, <3>7
  <2>6. Reading(c)'
    BY <1>3, <1>17, <1>20 DEF Reading
  <2>7. Delivered(c)' /\ Closing(c)'
    BY <1>1, <1>2, <1>17, <1>18, <1>19, <1>20, <1>24, <2>1, StillDelivered DEF old
  <2>. QED
    BY <2>2, <2>3, <2>4, <2>5, <2>6, <2>7 DEF Served
<1>. QED
  BY <1>2, <1>25, <1>26, <1>27, <1>29, FilesMove
-----------------------------------------------------------------------------
(* The theorems.                                                              *)

LEMMA StutterServerInv == ASSUME ServerInv, UNCHANGED serverVars PROVE ServerInv'
<1>. USE DEF serverVars, fs, people, marks
<1>1. ServerTypeOK' /\ NamesApart'
  BY DEF ServerInv, ServerTypeOK, Asking, NamesApart
<1>2. ASSUME NEW d \in Clients PROVE Served(d)'
  BY KeptServed DEF SameConnection, FilesKept
<1>. QED
  BY <1>1, <1>2 DEF ServerInv

LEMMA NextServerInv == ServerInv /\ [ServerNext]_serverVars => ServerInv'
<1>. SUFFICES ASSUME ServerInv, [ServerNext]_serverVars PROVE ServerInv'
  OBVIOUS
<1>1. CASE Interrupt
  BY <1>1, InterruptInv
<1>2. ASSUME NEW c \in Clients, Connect(c) \/ ClientStep(c) \/ ClientDies(c) \/ Reset(c) PROVE ServerInv'
  BY <1>2, ConnectInv, ClientSendInv, ClientShutdownInv, GetFromServerInv, ClientDiesInv, ResetInv DEF ClientStep
<1>3. ASSUME NEW c \in Clients, Accept(c) \/ HangUp(c) \/ Serve(c) PROVE ServerInv'
  BY <1>3, AcceptInv, HangUpInv, BlockInRecvallInv, ReadVerbInv, ReadFilenameInv, PutOpenFailsInv, ReadSizeInv,
     ReadDataInv, WriteResponseInv, SendSizeInv, SendDataInv, ShutDownInv DEF Serve
<1>4. CASE UNCHANGED serverVars
  BY <1>4, StutterServerInv
<1>. QED
  BY <1>1, <1>2, <1>3, <1>4 DEF ServerNext

LEMMA AlwaysServerInv == ServerSpec => []ServerInv
  BY InitServerInv, NextServerInv, PTL DEF ServerSpec

\* Whatever the clients ask for and however many of them die, the state of the
\* server, the sockets and the files keeps its types, and no connection has
\* received more than its client sent.
THEOREM ServerTypeCorrect == ServerSpec => []ServerTypeOK
<1>1. ServerInv => ServerTypeOK
  BY DEF ServerInv
<1>. QED
  BY <1>1, AlwaysServerInv, PTL

\* A PUT that was answered with OK has stored its data, unless another client
\* opened, wrote or removed the file: for any sizes, over any number of events
\* and with the last units still pending (server.c:412-471).
THEOREM PutCorrect == ServerSpec => []PutIsStored
<1>1. ServerInv => PutIsStored
  <2>. SUFFICES ASSUME ServerInv, NEW c \in Clients, up, client[c] = "ok", request[c].verb = "PUT",
                       owner[request[c].name] = c
                PROVE  LET ino == dir[request[c].name]
                       IN ino # NoInode /\ content[ino] = [n \in 1..request[c].size |-> <<c, n>>]
    BY DEF PutIsStored
  <2>1. c \in Asking
    BY DEF ServerInv, Served, Once, Asking
  <2>2. dir[request[c].name] \in Clients /\ content[dir[request[c].name]] = Written(c, request[c].size)
    BY <2>1 DEF ServerInv, Served, Stored, Dead, Answered
  <2>. QED
    BY <2>2, FileServerAssumption DEF Written
<1>. QED
  BY <1>1, AlwaysServerInv, PTL

\* A GET that the client accepts delivered the file as it was when it was
\* opened, unless the file was written meanwhile, a send was cut short or the
\* answer ended before the size: for files and buffers of any size, with the
\* server ending between any two sends (server.c:241-280, client.c:79-125).
THEOREM GetCorrect == ServerSpec => []GetDeliversFile
<1>1. ServerInv => GetDeliversFile
  <2>. SUFFICES ASSUME ServerInv, NEW c \in Clients \ clipped, client[c] = "ok", request[c].verb = "GET",
                       c \notin disturbed, ~Headless(c)
                PROVE  received[c] = snapshot[c]
    BY DEF GetDeliversFile, GotRight
  <2>1. Getting(c)
    BY DEF ServerInv, Served, Once, Asking, Spoiled, Getting, Dead
  <2>. QED
    BY <2>1 DEF ServerInv, Served, Delivered
<1>. QED
  BY <1>1, AlwaysServerInv, PTL
=============================================================================
