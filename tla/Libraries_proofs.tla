-------------------------- MODULE Libraries_proofs --------------------------
(* Proofs about the sequential components, which have nothing to do with each *)
(* other: for any jobs, times and priorities the times that the scheduler     *)
(* keeps are the ones that really passed, so that the jobs take turns as their *)
(* scheme says, and its totals are their sums; for any command lines the shell *)
(* leaves no child behind and waits as often as it has to; the report of      *)
(* mini_memcheck adds up.                                                     *)
EXTENDS Scheduler, Shell, MemCheck, TLAPS, FiniteSetTheorems, WellFoundedInduction
-----------------------------------------------------------------------------
(* Least numbers and sums.                                                    *)

LEMMA LeastNumber == \A S \in SUBSET Nat : S # {} => \E n \in S : \A k \in S : n <= k
<1>. SUFFICES ASSUME NEW S \in SUBSET Nat, S # {} PROVE \E n \in S : \A k \in S : n <= k
  OBVIOUS
<1>1. PICK n \in S : \A k \in S : ~(<<k, n>> \in OpToRel(<, Nat))
  BY WFMin, NatLessThanWellFounded
<1>2. \A k \in S : ~(k < n)
  BY <1>1 DEF OpToRel
<1>. QED
  BY <1>2

\* The partial sums of f; a sum is known by them.
PartialSums(f, n, p) == /\ p \in [0..n -> Int] /\ p[0] = 0
                        /\ \A k \in 1..n : p[k] = p[k - 1] + f[k]

LEMMA SumsExist ==
  ASSUME NEW n \in Nat, NEW f, \A k \in 1..n : f[k] \in Int
  PROVE  \E p : PartialSums(f, n, p)
<1>. DEFINE S == {k \in 0..n : ~ \E p : PartialSums(f, k, p)}
<1>1. CASE S = {}
  BY <1>1
<1>2. CASE S # {}
  <2>1. PICK k \in S : \A j \in S : k <= j
    <3>1. S \in SUBSET Nat
      OBVIOUS
    <3>. HIDE DEF S
    <3>. QED
      BY <1>2, <3>1, LeastNumber
  <2>2. k # 0
    <3>1. PartialSums(f, 0, [j \in 0..0 |-> 0])
      BY DEF PartialSums
    <3>. QED
      BY <2>1, <3>1
  <2>3. k \in 1..n /\ k - 1 \in 0..n /\ k - 1 \notin S
    BY <2>1, <2>2
  <2>4. PICK p : PartialSums(f, k - 1, p)
    BY <2>3
  <2>. DEFINE q == [j \in 0..k |-> IF j = k THEN p[k - 1] + f[k] ELSE p[j]]
  <2>5. q \in [0..k -> Int] /\ q[0] = 0 /\ q[k] = p[k - 1] + f[k] /\ \A j \in 0..(k - 1) : q[j] = p[j]
    BY <2>3, <2>4 DEF PartialSums
  <2>. HIDE DEF q
  <2>6. \A j \in 1..(k - 1) : q[j] = q[j - 1] + f[j]
    BY <2>3, <2>4, <2>5 DEF PartialSums
  <2>7. \A j \in 1..k : q[j] = q[j - 1] + f[j]
    <3>. SUFFICES ASSUME NEW j \in 1..k PROVE q[j] = q[j - 1] + f[j]
      OBVIOUS
    <3>1. CASE j = k
      BY <2>3, <2>5, <3>1
    <3>2. CASE j # k
      BY <2>3, <2>6, <3>2
    <3>. QED
      BY <3>1, <3>2
  <2>8. PartialSums(f, k, q)
    BY <2>5, <2>7 DEF PartialSums
  <2>. QED
    BY <2>1, <2>8
<1>. QED
  BY <1>1, <1>2

LEMMA SumIs ==
  ASSUME NEW n \in Nat, NEW f, NEW p, PartialSums(f, n, p)
  PROVE  SumTo(f, n) = p[n]
<1>. DEFINE Sums(s) == s = [k \in 0..n |-> IF k = 0 THEN 0 ELSE s[k - 1] + f[k]]
            sum == CHOOSE s : Sums(s)
<1>1. Sums(p)
  BY DEF PartialSums
<1>2. Sums(sum)
  BY <1>1
<1>3. SumTo(f, n) = sum[n]
  BY DEF SumTo
<1>. HIDE DEF sum
<1>4. sum[0] = 0 /\ \A k \in 1..n : sum[k] = sum[k - 1] + f[k]
  BY <1>2
<1>. DEFINE S == {k \in 0..n : sum[k] # p[k]}
<1>5. S = {}
  <2>. SUFFICES ASSUME S # {} PROVE FALSE
    OBVIOUS
  <2>1. PICK k \in S : \A j \in S : k <= j
    <3>1. S \in SUBSET Nat
      OBVIOUS
    <3>. HIDE DEF S
    <3>. QED
      BY <3>1, LeastNumber
  <2>2. k \in 1..n /\ k - 1 \in 0..n /\ k - 1 \notin S
    BY <1>4, <2>1 DEF PartialSums
  <2>. QED
    BY <1>4, <2>1, <2>2 DEF PartialSums
<1>. QED
  BY <1>3, <1>5

\* What a sum is made of, and what one value changes in it.
LEMMA SumInt ==
  ASSUME NEW n \in Nat, NEW f, \A k \in 1..n : f[k] \in Int
  PROVE  SumTo(f, n) \in Int
<1>1. PICK p : PartialSums(f, n, p)
  BY SumsExist
<1>. QED
  BY <1>1, SumIs DEF PartialSums

LEMMA SumSame ==
  ASSUME NEW n \in Nat, NEW f, NEW g, \A k \in 1..n : f[k] \in Int /\ g[k] = f[k]
  PROVE  SumTo(g, n) = SumTo(f, n)
<1>1. PICK p : PartialSums(f, n, p)
  BY SumsExist
<1>2. PartialSums(g, n, p)
  BY <1>1 DEF PartialSums
<1>. QED
  BY <1>1, <1>2, SumIs

LEMMA SumNext ==
  ASSUME NEW n \in Nat, NEW f, \A k \in 1..(n + 1) : f[k] \in Int
  PROVE  SumTo(f, n + 1) = SumTo(f, n) + f[n + 1]
<1>1. PICK p : PartialSums(f, n + 1, p)
  BY SumsExist
<1>. DEFINE q == [k \in 0..n |-> p[k]]
<1>2. PartialSums(f, n, q) /\ q[n] = p[n] /\ p[n + 1] = p[n] + f[n + 1]
  BY <1>1 DEF PartialSums
<1>3. SumTo(f, n) = q[n]
  BY <1>2, SumIs
<1>4. SumTo(f, n + 1) = p[n + 1]
  BY <1>1, SumIs
<1>. QED
  BY <1>2, <1>3, <1>4

LEMMA SumChanges ==
  ASSUME NEW n \in Nat, NEW f, NEW g, NEW j \in 1..n, NEW d \in Int,
         \A k \in 1..n : f[k] \in Int, g[j] = f[j] + d,
         \A k \in 1..n : k # j => g[k] = f[k]
  PROVE  SumTo(g, n) = SumTo(f, n) + d
<1>1. PICK p : PartialSums(f, n, p)
  BY SumsExist
<1>. DEFINE q == [k \in 0..n |-> IF k < j THEN p[k] ELSE p[k] + d]
<1>2. q \in [0..n -> Int] /\ q[0] = 0 /\ q[n] = p[n] + d
  BY <1>1 DEF PartialSums
<1>3. ASSUME NEW k \in 1..n PROVE q[k] = q[k - 1] + g[k]
  <2>1. p[k] \in Int /\ p[k - 1] \in Int /\ p[k] = p[k - 1] + f[k] /\ f[k] \in Int
    BY <1>1 DEF PartialSums
  <2>2. k \in 0..n /\ k - 1 \in 0..n
    OBVIOUS
  <2>3. q[k] = (IF k < j THEN p[k] ELSE p[k] + d) /\ q[k - 1] = IF k - 1 < j THEN p[k - 1] ELSE p[k - 1] + d
    BY <2>2
  <2>. QED
    BY <2>1, <2>3
<1>4. PartialSums(g, n, q)
  BY <1>2, <1>3 DEF PartialSums
<1>. QED
  BY <1>1, <1>2, <1>4, SumIs

\* One of the values is taken out.
LEMMA SumRemoved ==
  ASSUME NEW n \in Nat, NEW f, NEW g, NEW j \in 1..n, \A k \in 1..n : f[k] \in Int,
         \A k \in 1..(j - 1) : g[k] = f[k], \A k \in j..(n - 1) : g[k] = f[k + 1]
  PROVE  SumTo(g, n - 1) = SumTo(f, n) - f[j]
<1>1. PICK p : PartialSums(f, n, p)
  BY SumsExist
<1>. DEFINE q == [k \in 0..(n - 1) |-> IF k < j THEN p[k] ELSE p[k + 1] - f[j]]
<1>2. q \in [0..(n - 1) -> Int] /\ q[0] = 0
  BY <1>1 DEF PartialSums
<1>3. q[n - 1] = p[n] - f[j]
  <2>1. p[n] \in Int /\ f[j] \in Int /\ p[j] = p[j - 1] + f[j] /\ p[j - 1] \in Int
    BY <1>1 DEF PartialSums
  <2>2. CASE j = n
    BY <2>1, <2>2
  <2>3. CASE j # n
    BY <2>1, <2>3
  <2>. QED
    BY <2>2, <2>3
<1>4. ASSUME NEW k \in 1..(n - 1) PROVE q[k] = q[k - 1] + g[k]
  <2>1. /\ p[k - 1] \in Int /\ p[k] \in Int /\ p[k + 1] \in Int /\ f[k] \in Int /\ f[k + 1] \in Int /\ f[j] \in Int
        /\ p[k] = p[k - 1] + f[k] /\ p[k + 1] = p[k] + f[k + 1]
    BY <1>1 DEF PartialSums
  <2>2. /\ q[k] = IF k < j THEN p[k] ELSE p[k + 1] - f[j]
        /\ q[k - 1] = IF k - 1 < j THEN p[k - 1] ELSE p[(k - 1) + 1] - f[j]
        /\ (k - 1) + 1 = k
    OBVIOUS
  <2>. HIDE DEF q
  <2>3. CASE k < j
    BY <2>1, <2>2, <2>3
  <2>4. CASE k = j
    BY <2>1, <2>2, <2>4
  <2>5. CASE k > j
    BY <2>1, <2>2, <2>5
  <2>. QED
    BY <2>3, <2>4, <2>5
<1>. HIDE DEF q
<1>5. PartialSums(g, n - 1, q)
  BY <1>2, <1>4 DEF PartialSums
<1>6. n - 1 \in Nat /\ SumTo(f, n) = p[n]
  BY <1>1, SumIs
<1>7. SumTo(g, n - 1) = q[n - 1]
  BY <1>5, <1>6, SumIs
<1>. QED
  BY <1>3, <1>6, <1>7

\* A sequence without its i-th element.
LEMMA RemovedAt ==
  ASSUME NEW S, NEW s \in Seq(S), NEW i \in 1..Len(s)
  PROVE  /\ RemoveAt(s, i) \in Seq(S) /\ Len(RemoveAt(s, i)) = Len(s) - 1 /\ Len(s) \in Nat
         /\ \A k \in 1..(i - 1) : RemoveAt(s, i)[k] = s[k]
         /\ \A k \in i..(Len(s) - 1) : RemoveAt(s, i)[k] = s[k + 1]
<1>. DEFINE a == SubSeq(s, 1, i - 1)
            b == SubSeq(s, i + 1, Len(s))
<1>1. /\ a \in Seq(S) /\ Len(a) = i - 1 /\ \A k \in 1..(i - 1) : a[k] = s[k]
  OBVIOUS
<1>2. /\ b \in Seq(S) /\ Len(b) = Len(s) - i /\ \A k \in 1..(Len(s) - i) : b[k] = s[i + k]
  OBVIOUS
<1>3. RemoveAt(s, i) = a \o b /\ Len(s) \in Nat
  BY DEF RemoveAt
<1>. HIDE DEF a, b
<1>4. a \o b \in Seq(S) /\ Len(a \o b) = Len(s) - 1
  BY <1>1, <1>2, <1>3
<1>6. ASSUME NEW k \in 1..(i - 1) PROVE (a \o b)[k] = a[k]
  BY <1>1, <1>2, <1>3
<1>7. ASSUME NEW k \in i..(Len(s) - 1) PROVE (a \o b)[k] = b[k - (i - 1)]
  <2>1. k \in (Len(a) + 1)..(Len(a) + Len(b))
    BY <1>1, <1>2, <1>3
  <2>2. (a \o b)[k] = b[k - Len(a)]
    BY <1>1, <1>2, <2>1
  <2>. QED
    BY <1>1, <2>2
<1>5. ASSUME NEW k \in i..(Len(s) - 1) PROVE b[k - (i - 1)] = s[k + 1]
  <2>1. k - (i - 1) \in 1..(Len(s) - i) /\ i + (k - (i - 1)) = k + 1
    BY <1>3
  <2>. QED
    BY <1>2, <2>1
<1>. QED
  BY <1>1, <1>3, <1>4, <1>5, <1>6, <1>7
-----------------------------------------------------------------------------
(* The scheduler.                                                             *)

JobInfo == [arrival_time : Int, first_arrival_time : Int, remaining_time : Int,
            start_time : Int, fist_start_time : Int, running_time : Int, priority : Int]

SchedTypeOK == /\ pqueue_scheme \in Schemes
               /\ time \in Nat /\ number_of_jobs \in Nat
               /\ ran \in [Jobs -> Nat] /\ patience \in [Jobs -> Nat]
               /\ DOMAIN info \subseteq Jobs /\ DOMAIN info \subseteq 1..number_of_jobs
               /\ \A j \in DOMAIN info : info[j] \in JobInfo
               /\ pqueue \subseteq DOMAIN info
               /\ current \in DOMAIN info \cup {NoJob} /\ current \notin pqueue

\* Jobs that are yet to arrive have neither run nor waited.
Untouched == \A j \in Jobs : j \notin 1..number_of_jobs => ran[j] = 0 /\ patience[j] = 0

\* What the entry of a queued job says of the past.
QueuedRight(j, i) == /\ i.remaining_time = i.running_time - ran[j]
                     /\ i.arrival_time = time - patience[j]

\* The same of a queue that is about to be polled.
QueuedAnew(j, i) == /\ i.remaining_time = i.running_time - ran[j]
                    /\ i.arrival_time = time - patience'[j]

\* The turn of the job that runs is not charged to it yet.
RunningRight(j, i) == /\ i.start_time <= time
                      /\ i.remaining_time = i.running_time - ran[j] + (time - i.start_time)

SchedInv == /\ SchedTypeOK /\ Untouched
            /\ \A j \in pqueue : QueuedRight(j, info[j])
            /\ current # NoJob => RunningRight(current, info[current])

LEMMA InitSchedInv == SchedInit => SchedInv
  BY SchedulerAssumption DEF SchedInit, SchedInv, SchedTypeOK, Untouched

\* What a turn changes in the entry of its job.
LEMMA StartedEntry ==
  ASSUME NEW i \in JobInfo, time \in Nat
  PROVE  /\ Started(i) \in JobInfo
         /\ Started(i).start_time = time
         /\ Started(i).remaining_time = i.remaining_time
         /\ Started(i).running_time = i.running_time
         /\ Started(i).priority = i.priority
<1>. DEFINE a == [i EXCEPT !.start_time = time]
            first == IF i.fist_start_time = -1 THEN time ELSE i.fist_start_time
            b == [a EXCEPT !.fist_start_time = first]
<1>1. first \in Int /\ i.fist_start_time \in Int
  BY DEF JobInfo
<1>2. a \in JobInfo /\ a.start_time = time /\ a.remaining_time = i.remaining_time
      /\ a.running_time = i.running_time /\ a.priority = i.priority
  BY DEF JobInfo
<1>3. Started(i) = b
  BY DEF Started
<1>. HIDE DEF a, first
<1>4. b \in JobInfo /\ b.start_time = a.start_time /\ b.remaining_time = a.remaining_time
      /\ b.running_time = a.running_time /\ b.priority = a.priority
  BY <1>1, <1>2 DEF JobInfo
<1>. HIDE DEF b
<1>. QED
  BY <1>2, <1>3, <1>4

\* What an eviction does.
LEMMA EvictedEntry ==
  ASSUME NEW i \in JobInfo, time \in Nat
  PROVE  /\ Evict(i) \in JobInfo
         /\ Evict(i).arrival_time = time
         /\ Evict(i).remaining_time = i.remaining_time - (time - i.start_time)
         /\ Evict(i).running_time = i.running_time
         /\ Evict(i).priority = i.priority
<1>. DEFINE left == i.remaining_time - (time - i.start_time)
            a == [i EXCEPT !.remaining_time = left]
            b == [a EXCEPT !.arrival_time = time]
<1>1. left \in Int
  BY DEF JobInfo
<1>. HIDE DEF left
<1>2. a \in JobInfo /\ a.remaining_time = left
      /\ a.running_time = i.running_time /\ a.priority = i.priority
  BY <1>1 DEF JobInfo
<1>3. Evict(i) = b
  BY DEF Evict, left
<1>. HIDE DEF a
<1>4. b \in JobInfo /\ b.arrival_time = time /\ b.remaining_time = a.remaining_time
      /\ b.running_time = a.running_time /\ b.priority = a.priority
  BY <1>2 DEF JobInfo
<1>. HIDE DEF b
<1>. QED
  BY <1>2, <1>3, <1>4 DEF left

\* Whatever is polled from entries that are right, the entries stay right.
LEMMA PollSchedInv ==
  ASSUME SchedInv, NEW queue \in SUBSET DOMAIN info, NEW known,
         DOMAIN known = DOMAIN info, \A j \in DOMAIN info : known[j] \in JobInfo,
         patience' \in [Jobs -> Nat],
         \A j \in Jobs : j \notin 1..number_of_jobs => patience'[j] = 0,
         \A j \in queue : QueuedAnew(j, known[j]),
         Poll(queue, known), UNCHANGED <<pqueue_scheme, schedTotals, ticks>>
  PROVE  SchedInv'
<1>. USE SchedulerAssumption
<1>1. PICK j \in queue : /\ pqueue' = queue \ {j}
                         /\ info' = [known EXCEPT ![j] = Started(@)]
                         /\ current' = j
  BY DEF Poll
<1>2. DOMAIN info' = DOMAIN info /\ j \in DOMAIN info
  BY <1>1
<1>3. /\ info'[j] = Started(known[j])
      /\ \A k \in DOMAIN info : k # j => info'[k] = known[k]
  BY <1>1, <1>2
<1>4. /\ info'[j] \in JobInfo
      /\ info'[j].start_time = time
      /\ info'[j].remaining_time = known[j].remaining_time
      /\ info'[j].running_time = known[j].running_time
  BY <1>2, <1>3, StartedEntry DEF SchedInv, SchedTypeOK
<1>5. SchedTypeOK'
  BY <1>1, <1>2, <1>3, <1>4 DEF SchedInv, SchedTypeOK, schedTotals, ticks
<1>6. Untouched'
  BY DEF SchedInv, Untouched, schedTotals, ticks
<1>7. \A k \in pqueue' : QueuedRight(k, info[k])'
  BY <1>1, <1>3 DEF QueuedRight, QueuedAnew, schedTotals, ticks
<1>8. RunningRight(current, info[current])'
  <2>1. ran[j] \in Nat /\ time \in Nat /\ known[j].running_time \in Int
    BY <1>2 DEF SchedInv, SchedTypeOK, JobInfo
  <2>2. known[j].remaining_time = known[j].running_time - ran[j]
    BY DEF QueuedAnew
  <2>. QED
    BY <1>1, <1>4, <2>1, <2>2 DEF RunningRight, ticks
<1>. QED
  BY <1>5, <1>6, <1>7, <1>8 DEF SchedInv

\* The queue with the job that is evicted: its turn is charged to it.
LEMMA EvictedQueue ==
  ASSUME SchedInv, current # NoJob, patience' = [patience EXCEPT ![current] = 0]
  PROVE  LET queue == pqueue \cup {current}
             known == [info EXCEPT ![current] = Evict(@)]
         IN  /\ queue \in SUBSET DOMAIN info /\ DOMAIN known = DOMAIN info
             /\ \A j \in DOMAIN info : /\ known[j] \in JobInfo
                                       /\ known[j].priority = info[j].priority
                                       /\ known[j].running_time = info[j].running_time
             /\ patience' \in [Jobs -> Nat]
             /\ \A j \in Jobs : j \notin 1..number_of_jobs => patience'[j] = 0
             /\ \A j \in queue : QueuedAnew(j, known[j])
<1>. DEFINE queue == pqueue \cup {current}
            known == [info EXCEPT ![current] = Evict(@)]
<1>1. current \in DOMAIN info /\ queue \in SUBSET DOMAIN info /\ DOMAIN known = DOMAIN info
  BY DEF SchedInv, SchedTypeOK
<1>2. /\ known[current] = Evict(info[current])
      /\ \A j \in DOMAIN info : j # current => known[j] = info[j]
  BY <1>1
<1>3. info[current] \in JobInfo /\ time \in Nat /\ ran[current] \in Nat /\ current \in Jobs
  BY <1>1 DEF SchedInv, SchedTypeOK
<1>7. /\ patience' \in [Jobs -> Nat] /\ patience'[current] = 0
      /\ \A j \in Jobs : j # current => patience'[j] = patience[j]
  BY <1>3 DEF SchedInv, SchedTypeOK
<1>8. \A j \in Jobs : j \notin 1..number_of_jobs => patience'[j] = 0
  BY <1>7 DEF SchedInv, Untouched
<1>. HIDE DEF known
<1>4. QueuedAnew(current, known[current])
  BY <1>2, <1>3, <1>7, EvictedEntry DEF QueuedAnew, RunningRight, SchedInv, JobInfo
<1>5. \A j \in pqueue : QueuedAnew(j, known[j])
  <2>. SUFFICES ASSUME NEW j \in pqueue PROVE QueuedAnew(j, known[j])
    OBVIOUS
  <2>1. j \in DOMAIN info /\ j \in Jobs /\ j # current /\ QueuedRight(j, info[j])
    BY DEF SchedInv, SchedTypeOK
  <2>. QED
    BY <1>2, <1>7, <2>1 DEF QueuedAnew, QueuedRight
<1>6. \A j \in DOMAIN info : /\ known[j] \in JobInfo
                             /\ known[j].priority = info[j].priority
                             /\ known[j].running_time = info[j].running_time
  BY <1>2, <1>3, EvictedEntry DEF SchedInv, SchedTypeOK
<1>. QED
  BY <1>1, <1>4, <1>5, <1>6, <1>7, <1>8 DEF known

LEMMA WaitingQueue ==
  ASSUME SchedInv, UNCHANGED patience
  PROVE  /\ patience' \in [Jobs -> Nat]
         /\ \A j \in Jobs : j \notin 1..number_of_jobs => patience'[j] = 0
         /\ \A j \in pqueue : QueuedAnew(j, info[j])
  BY DEF SchedInv, SchedTypeOK, Untouched, QueuedRight, QueuedAnew

LEMMA QuantumSchedInv ==
  ASSUME SchedInv, QuantumExpired
  PROVE  SchedInv'
<1>1. SchedInv /\ QuantumExpired
  OBVIOUS
<1>2. UNCHANGED <<pqueue_scheme, schedTotals, ticks>>
  BY <1>1 DEF QuantumExpired
<1>3. CASE Poll(pqueue, info) /\ UNCHANGED patience
  BY <1>1, <1>2, <1>3, WaitingQueue, PollSchedInv DEF SchedInv, SchedTypeOK
<1>4. CASE /\ current # NoJob /\ patience' = [patience EXCEPT ![current] = 0]
           /\ Poll(pqueue \cup {current}, [info EXCEPT ![current] = Evict(@)])
  BY <1>1, <1>2, <1>4, EvictedQueue, PollSchedInv
<1>. QED
  BY <1>1, <1>3, <1>4 DEF QuantumExpired

LEMMA NextSchedInv == SchedInv /\ [SchedNext]_schedVars => SchedInv'
<1>. SUFFICES ASSUME SchedInv, [SchedNext]_schedVars PROVE SchedInv'
  OBVIOUS
<1>. USE SchedulerAssumption
<1>1. ASSUME JobFinished PROVE SchedInv'
  <2>1. /\ info' = [k \in DOMAIN info \ {current} |-> info[k]] /\ current' = NoJob
        /\ UNCHANGED <<pqueue_scheme, pqueue, number_of_jobs, clock>>
    BY <1>1 DEF JobFinished
  <2>2. SchedTypeOK'
    BY <2>1 DEF SchedInv, SchedTypeOK, clock, ticks
  <2>3. Untouched' /\ \A j \in pqueue' : QueuedRight(j, info[j])'
    BY <2>1 DEF SchedInv, SchedTypeOK, Untouched, QueuedRight, clock, ticks
  <2>. QED
    BY <2>1, <2>2, <2>3 DEF SchedInv
<1>2. ASSUME Tick PROVE SchedInv'
  <2>1. /\ time' = time + 1 /\ UNCHANGED <<pqueue_scheme, pqueue, info, number_of_jobs, current>>
        /\ ran' = [j \in Jobs |-> IF j = current THEN ran[j] + 1 ELSE ran[j]]
        /\ patience' = [j \in Jobs |-> IF j \in pqueue THEN patience[j] + 1 ELSE 0]
    BY <1>2 DEF Tick, schedTotals
  <2>2. SchedTypeOK'
    BY <2>1 DEF SchedInv, SchedTypeOK
  <2>3. Untouched'
    BY <2>1 DEF SchedInv, SchedTypeOK, Untouched
  <2>4. ASSUME NEW j \in pqueue PROVE QueuedRight(j, info[j])'
    <3>1. j \in Jobs /\ j # current /\ ran[j] \in Nat /\ patience[j] \in Nat /\ time \in Nat
      BY <2>4 DEF SchedInv, SchedTypeOK
    <3>2. ran'[j] = ran[j] /\ patience'[j] = patience[j] + 1
      BY <2>1, <2>4, <3>1
    <3>. QED
      BY <2>1, <2>4, <3>1, <3>2 DEF SchedInv, QueuedRight
  <2>5. ASSUME current # NoJob PROVE RunningRight(current, info[current])'
    <3>1. /\ current \in Jobs /\ current \notin pqueue /\ ran[current] \in Nat /\ time \in Nat
          /\ info[current] \in JobInfo
      BY <2>5 DEF SchedInv, SchedTypeOK
    <3>2. ran'[current] = ran[current] + 1
      BY <2>1, <3>1
    <3>. QED
      BY <2>1, <2>5, <3>1, <3>2 DEF SchedInv, RunningRight, JobInfo
  <2>. QED
    BY <2>1, <2>2, <2>3, <2>4, <2>5 DEF SchedInv
<1>3. ASSUME NEW j \in Jobs, NEW running \in RunningTimes, NEW priority \in Priorities,
             SchedNewJob(j, running, priority)
      PROVE SchedInv'
  <2>. DEFINE entry == [arrival_time |-> time, first_arrival_time |-> time,
                        remaining_time |-> running, start_time |-> -1, fist_start_time |-> -1,
                        running_time |-> running, priority |-> priority]
  <2>1. /\ j = number_of_jobs + 1 /\ number_of_jobs' = j /\ pqueue' = pqueue \cup {j}
        /\ info' = [k \in DOMAIN info \cup {j} |-> IF k # j THEN info[k] ELSE entry]
        /\ UNCHANGED <<pqueue_scheme, current, clock>>
    BY <1>3 DEF SchedNewJob
  <2>2. number_of_jobs \in Nat /\ j \notin DOMAIN info /\ time \in Nat
        /\ ran[j] = 0 /\ patience[j] = 0
    BY <2>1 DEF SchedInv, SchedTypeOK, Untouched
  <2>3. /\ entry \in JobInfo /\ entry.arrival_time = time
        /\ entry.remaining_time = running /\ entry.running_time = running
    BY <2>2 DEF JobInfo
  <2>. HIDE DEF entry
  <2>4. /\ info'[j] = entry /\ DOMAIN info' = DOMAIN info \cup {j}
        /\ \A k \in DOMAIN info : info'[k] = info[k]
    BY <2>1, <2>2
  <2>5. SchedTypeOK'
    BY <2>1, <2>2, <2>3, <2>4 DEF SchedInv, SchedTypeOK, clock, ticks
  <2>6. Untouched'
    BY <2>1, <2>2 DEF SchedInv, Untouched, clock, ticks
  <2>7. \A k \in pqueue' : QueuedRight(k, info[k])'
    <3>1. QueuedRight(j, info[j])'
      <4>1. ran' = ran /\ patience' = patience /\ time' = time
        BY <2>1 DEF clock, ticks
      <4>2. info'[j] = entry
        BY <2>4
      <4>3. entry.remaining_time = entry.running_time - ran[j] /\ entry.arrival_time = time - patience[j]
        <5>1. running \in Int
          BY SchedulerAssumption
        <5>2. ran[j] = 0 /\ patience[j] = 0 /\ time \in Nat
          BY <2>2
        <5>3. running - ran[j] = running /\ time - patience[j] = time
          BY <5>1, <5>2
        <5>. QED
          BY <2>3, <5>3
      <4>. QED
        BY <4>1, <4>2, <4>3 DEF QueuedRight
    <3>2. ASSUME NEW k \in pqueue PROVE QueuedRight(k, info[k])'
      BY <2>1, <2>4 DEF QueuedRight, SchedInv, SchedTypeOK, clock, ticks
    <3>. QED
      BY <2>1, <3>1, <3>2
  <2>8. current' # NoJob => RunningRight(current, info[current])'
    BY <2>1, <2>4 DEF SchedInv, SchedTypeOK, RunningRight, clock, ticks
  <2>. QED
    BY <2>5, <2>6, <2>7, <2>8 DEF SchedInv
<1>4. CASE UNCHANGED schedVars
  BY <1>4 DEF schedVars, clock, ticks, schedTotals, SchedInv, SchedTypeOK, Untouched, QueuedRight, RunningRight
<1>. QED
  BY <1>1, <1>2, <1>3, <1>4, QuantumSchedInv DEF SchedNext

\* The sum of f over the jobs that are not in D.
Without(D, n, f) == SumTo([j \in 1..n |-> IF j \in D THEN 0 ELSE f[j]], n)

LEMMA WithoutFewer ==
  ASSUME NEW n \in Nat, NEW D, NEW f, \A k \in 1..n : f[k] \in Int, NEW j \in D \cap 1..n
  PROVE  Without(D \ {j}, n, f) = Without(D, n, f) + f[j]
<1>. DEFINE a == [k \in 1..n |-> IF k \in D THEN 0 ELSE f[k]]
            b == [k \in 1..n |-> IF k \in D \ {j} THEN 0 ELSE f[k]]
<1>1. f[j] \in Int /\ Without(D, n, f) = SumTo(a, n) /\ Without(D \ {j}, n, f) = SumTo(b, n)
  BY DEF Without
<1>2. /\ j \in 1..n /\ \A k \in 1..n : a[k] \in Int
      /\ b[j] = a[j] + f[j] /\ \A k \in 1..n : k # j => b[k] = a[k]
  OBVIOUS
<1>. HIDE DEF a, b
<1>3. SumTo(b, n) = SumTo(a, n) + f[j]
  BY <1>1, <1>2, SumChanges
<1>. QED
  BY <1>1, <1>3

LEMMA WithoutNext ==
  ASSUME NEW n \in Nat, NEW D, NEW f, \A k \in 1..n : f[k] \in Int
  PROVE  Without(D \union {n + 1}, n + 1, f) = Without(D, n, f)
<1>. DEFINE a == [k \in 1..n |-> IF k \in D THEN 0 ELSE f[k]]
            b == [k \in 1..(n + 1) |-> IF k \in D \union {n + 1} THEN 0 ELSE f[k]]
<1>1. \A k \in 1..n : a[k] \in Int /\ b[k] = a[k]
  BY DEF Without
<1>2. b[n + 1] = 0 /\ \A k \in 1..(n + 1) : b[k] \in Int
  OBVIOUS
<1>3. Without(D, n, f) = SumTo(a, n) /\ Without(D \union {n + 1}, n + 1, f) = SumTo(b, n + 1)
  BY DEF Without
<1>. HIDE DEF a, b
<1>4. SumTo(b, n + 1) = SumTo(b, n) + 0
  BY <1>2, SumNext
<1>5. SumTo(b, n) = SumTo(a, n) /\ SumTo(a, n) \in Int
  BY <1>1, SumSame, SumInt
<1>. QED
  BY <1>3, <1>4, <1>5

LEMMA WithoutSame ==
  ASSUME NEW n \in Nat, NEW D, NEW f, NEW g, \A k \in (1..n) \ D : f[k] \in Int /\ g[k] = f[k]
  PROVE  Without(D, n, g) = Without(D, n, f)
<1>. DEFINE a == [k \in 1..n |-> IF k \in D THEN 0 ELSE f[k]]
            b == [k \in 1..n |-> IF k \in D THEN 0 ELSE g[k]]
<1>1. \A k \in 1..n : a[k] \in Int /\ b[k] = a[k]
  OBVIOUS
<1>2. Without(D, n, f) = SumTo(a, n) /\ Without(D, n, g) = SumTo(b, n)
  BY DEF Without
<1>. HIDE DEF a, b
<1>. QED
  BY <1>1, <1>2, SumSame

\* The times of an entry are those of what has happened to its job.
PastRight(j, i) ==
  /\ time - i.first_arrival_time = waited[j] + ran[j]
  /\ i.fist_start_time = -1 => j \notin begun /\ ran[j] = 0 /\ answered[j] = waited[j]
  /\ i.fist_start_time # -1 => /\ j \in begun
                               /\ i.fist_start_time - i.first_arrival_time = answered[j]

Stayed == [j \in Jobs |-> waited[j] + ran[j]]

Clocks == /\ waited \in [Jobs -> Nat] /\ answered \in [Jobs -> Nat]
          /\ 1..number_of_jobs \subseteq Jobs
          /\ \A j \in Jobs : j \notin 1..number_of_jobs => waited[j] = 0 /\ answered[j] = 0 /\ j \notin begun
          /\ \A j \in DOMAIN info : PastRight(j, info[j]) /\ (j \in pqueue \/ j = current)
          /\ current # NoJob => current \in begun

Totals == /\ total_waiting_time = Without(DOMAIN info, number_of_jobs, waited)
          /\ total_turnaround_time = Without(DOMAIN info, number_of_jobs, Stayed)
          /\ total_response_time = Without(DOMAIN info, number_of_jobs, answered)

TotalsInv == SchedInv /\ Clocks /\ Totals

LEMMA InitTotals == SchedInit => TotalsInv
<1>. SUFFICES ASSUME SchedInit PROVE TotalsInv
  OBVIOUS
<1>1. \A D, f : Without(D, 0, f) = 0
  <2>. SUFFICES ASSUME NEW D, NEW f PROVE Without(D, 0, f) = 0
    OBVIOUS
  <2>. DEFINE a == [j \in 1..0 |-> IF j \in D THEN 0 ELSE f[j]]
              z == [k \in 0..0 |-> 0]
  <2>1. PartialSums(a, 0, z) /\ z[0] = 0
    BY DEF PartialSums
  <2>2. SumTo(a, 0) = z[0]
    BY <2>1, SumIs
  <2>. QED
    BY <2>1, <2>2 DEF Without
<1>2. Totals
  BY <1>1 DEF SchedInit, Totals
<1>3. Clocks
  BY SchedulerAssumption DEF SchedInit, Clocks
<1>. QED
  BY <1>2, <1>3, InitSchedInv DEF TotalsInv

LEMMA EntriesKeep ==
  ASSUME NEW i \in JobInfo, time \in Nat
  PROVE  /\ Started(i).first_arrival_time = i.first_arrival_time /\ Started(i).start_time = time
         /\ Started(i).fist_start_time = IF i.fist_start_time = -1 THEN time ELSE i.fist_start_time
         /\ Evict(i).first_arrival_time = i.first_arrival_time
         /\ Evict(i).fist_start_time = i.fist_start_time
  BY DEF JobInfo, Started, Evict

\* Whatever is polled, only the job that is started leaves the past behind.
LEMMA PollClocks ==
  ASSUME TotalsInv, NEW queue, queue = DOMAIN info, NEW known,
         DOMAIN known = DOMAIN info, \A j \in DOMAIN info : known[j] \in JobInfo,
         \A j \in DOMAIN info : /\ known[j].first_arrival_time = info[j].first_arrival_time
                                /\ known[j].fist_start_time = info[j].fist_start_time,
         Poll(queue, known), UNCHANGED <<pqueue_scheme, schedTotals, ticks>>
  PROVE  Clocks' /\ Totals'
<1>1. PICK j \in queue : /\ info' = [known EXCEPT ![j] = Started(@)]
                         /\ current' = j /\ pqueue' = queue \ {j}
                         /\ begun' = begun \cup {j}
  BY DEF Poll
<1>2. DOMAIN info' = DOMAIN info /\ j \in DOMAIN info /\ j \in Jobs
  BY <1>1 DEF TotalsInv, SchedInv, SchedTypeOK
<1>3. /\ info'[j] = Started(known[j])
      /\ \A k \in DOMAIN info : k # j => info'[k] = known[k]
  BY <1>1, <1>2
<1>4. UNCHANGED <<time, ran, waited, answered, number_of_jobs,
                  total_waiting_time, total_turnaround_time, total_response_time>>
  BY DEF schedTotals, ticks
<1>5. Totals'
  BY <1>2, <1>4 DEF TotalsInv, Totals, Stayed
<1>6. time \in Nat
  BY DEF TotalsInv, SchedInv, SchedTypeOK
<1>7. ASSUME NEW k \in DOMAIN info' PROVE PastRight(k, info[k])'
  <2>0. k \in Jobs /\ ran[k] \in Nat /\ waited[k] \in Nat /\ answered[k] \in Nat /\ info[k] \in JobInfo
        /\ PastRight(k, info[k])
    BY <1>2, <1>7 DEF TotalsInv, Clocks, SchedInv, SchedTypeOK
  <2>1. info[k].fist_start_time \in Int /\ info[k].first_arrival_time \in Int
    BY <2>0 DEF JobInfo
  <2>2. CASE k = j
    <3>1. /\ info'[j].first_arrival_time = info[j].first_arrival_time
          /\ info'[j].fist_start_time = IF info[j].fist_start_time = -1 THEN time ELSE info[j].fist_start_time
      BY <1>2, <1>3, <1>6, EntriesKeep
    <3>. QED
      BY <1>1, <1>4, <1>6, <2>0, <2>1, <2>2, <3>1 DEF PastRight
  <2>3. CASE k # j
    <3>1. /\ info'[k].first_arrival_time = info[k].first_arrival_time
          /\ info'[k].fist_start_time = info[k].fist_start_time
      BY <1>2, <1>3, <2>3
    <3>. QED
      BY <1>1, <1>4, <2>0, <2>1, <2>3, <3>1 DEF PastRight
  <2>. QED
    BY <2>2, <2>3
<1>8. current' \in begun' /\ \A k \in Jobs : k \notin 1..number_of_jobs => k \notin begun'
  BY <1>1, <1>2 DEF TotalsInv, Clocks, SchedInv, SchedTypeOK
<1>10. \A k \in DOMAIN info' : k \in pqueue' \/ k = current'
  BY <1>1, <1>2
<1>9. Clocks'
  BY <1>4, <1>7, <1>8, <1>10 DEF TotalsInv, Clocks
<1>. QED
  BY <1>5, <1>9

LEMMA NextTotals == TotalsInv /\ [SchedNext]_schedVars => TotalsInv'
<1>. SUFFICES ASSUME TotalsInv, [SchedNext]_schedVars PROVE Clocks' /\ Totals'
  BY NextSchedInv DEF TotalsInv
<1>. DEFINE n == number_of_jobs
            D == DOMAIN info
<1>0. /\ n \in Nat /\ time \in Nat /\ D \subseteq 1..n /\ D \subseteq Jobs /\ 1..n \subseteq Jobs
      /\ ran \in [Jobs -> Nat] /\ waited \in [Jobs -> Nat] /\ answered \in [Jobs -> Nat]
      /\ \A j \in Jobs : ran[j] \in Int /\ waited[j] \in Int /\ answered[j] \in Int /\ Stayed[j] \in Int
      /\ current \in D \union {NoJob} /\ current \notin pqueue /\ pqueue \subseteq D
      /\ \A j \in D : /\ info[j] \in JobInfo /\ PastRight(j, info[j])
                      /\ info[j].fist_start_time \in Int /\ info[j].first_arrival_time \in Int
                      /\ info[j].running_time \in Int /\ info[j].start_time \in Int
  BY DEF TotalsInv, Clocks, SchedInv, SchedTypeOK, Stayed, JobInfo
<1>1. ASSUME JobFinished PROVE Clocks' /\ Totals'
  <2>1. /\ current # NoJob /\ current \in D /\ ran[current] = info[current].running_time
        /\ info' = [k \in D \ {current} |-> info[k]] /\ current' = NoJob
        /\ UNCHANGED <<number_of_jobs, time, ran, waited, answered, begun>>
        /\ total_waiting_time' = total_waiting_time
              + (time - info[current].first_arrival_time - info[current].running_time)
        /\ total_turnaround_time' = total_turnaround_time + (time - info[current].first_arrival_time)
        /\ total_response_time' = total_response_time
              + (info[current].fist_start_time - info[current].first_arrival_time)
    BY <1>0, <1>1 DEF JobFinished, Done, clock, ticks
  <2>2. DOMAIN info' = D \ {current} /\ current \in 1..n /\ \A k \in D \ {current} : info'[k] = info[k]
    BY <1>0, <2>1
  <2>3. PastRight(current, info[current]) /\ info[current].fist_start_time # -1
    <3>1. current \in begun
      BY <2>1 DEF TotalsInv, Clocks
    <3>. QED
      BY <1>0, <2>1, <3>1 DEF PastRight
  <2>4. /\ total_waiting_time' = total_waiting_time + waited[current]
        /\ total_turnaround_time' = total_turnaround_time + Stayed[current]
        /\ total_response_time' = total_response_time + answered[current]
    BY <1>0, <2>1, <2>3 DEF PastRight, Stayed
  <2>5. Stayed' = Stayed
    BY <2>1 DEF Stayed
  <2>6. /\ Without(D \ {current}, n, waited) = Without(D, n, waited) + waited[current]
        /\ Without(D \ {current}, n, Stayed) = Without(D, n, Stayed) + Stayed[current]
        /\ Without(D \ {current}, n, answered) = Without(D, n, answered) + answered[current]
    <3>1. \A k \in 1..n : waited[k] \in Int /\ Stayed[k] \in Int /\ answered[k] \in Int
      BY <1>0
    <3>2. n \in Nat /\ current \in D \cap 1..n
      BY <1>0, <2>1, <2>2
    <3>. HIDE DEF n, D
    <3>3. ASSUME NEW f, \A k \in 1..n : f[k] \in Int
          PROVE  Without(D \ {current}, n, f) = Without(D, n, f) + f[current]
      BY <3>2, <3>3, WithoutFewer
    <3>. QED
      BY <3>1, <3>3, Zenon
  <2>7. Totals'
    BY <2>1, <2>2, <2>4, <2>5, <2>6 DEF TotalsInv, Totals
  <2>8. ASSUME NEW k \in DOMAIN info' PROVE PastRight(k, info[k])' /\ k \in pqueue'
    <3>1. k \in D /\ k # current /\ info'[k] = info[k] /\ k \in Jobs /\ k # NoJob /\ k \in pqueue
      BY <1>0, <2>2, SchedulerAssumption DEF TotalsInv, Clocks
    <3>2. pqueue' = pqueue
      BY <1>1 DEF JobFinished
    <3>. QED
      BY <1>0, <2>1, <3>1, <3>2 DEF PastRight
  <2>9. Clocks'
    BY <2>1, <2>8 DEF TotalsInv, Clocks
  <2>. QED
    BY <2>7, <2>9
<1>2. ASSUME Tick PROVE Clocks' /\ Totals'
  <2>1. /\ time' = time + 1
        /\ UNCHANGED <<pqueue, info, number_of_jobs, current, begun,
                       total_waiting_time, total_turnaround_time, total_response_time>>
        /\ ran' = [j \in Jobs |-> IF j = current THEN ran[j] + 1 ELSE ran[j]]
        /\ waited' = [j \in Jobs |-> IF j \in pqueue THEN waited[j] + 1 ELSE waited[j]]
        /\ answered' = [j \in Jobs |-> IF j \in pqueue \ begun THEN answered[j] + 1 ELSE answered[j]]
        /\ current = NoJob => pqueue = {}
    BY <1>2 DEF Tick, schedTotals
  <2>2. /\ waited' \in [Jobs -> Nat] /\ answered' \in [Jobs -> Nat]
        /\ \A j \in Jobs : j \notin D => waited'[j] = waited[j] /\ answered'[j] = answered[j] /\ ran'[j] = ran[j]
    BY <1>0, <2>1, SchedulerAssumption
  <2>3. Totals'
    <3>1. \A k \in (1..n) \ D : waited'[k] = waited[k] /\ answered'[k] = answered[k] /\ Stayed'[k] = Stayed[k]
                               /\ waited[k] \in Int /\ answered[k] \in Int /\ Stayed[k] \in Int
      BY <1>0, <2>2 DEF Stayed
    <3>2. /\ Without(D, n, waited') = Without(D, n, waited)
          /\ Without(D, n, answered') = Without(D, n, answered)
          /\ Without(D, n, Stayed') = Without(D, n, Stayed)
      BY <1>0, <3>1, WithoutSame
    <3>. QED
      BY <2>1, <3>2 DEF TotalsInv, Totals
  <2>4. ASSUME NEW k \in D PROVE PastRight(k, info[k])'
    <3>1. /\ k \in Jobs /\ ran[k] \in Nat /\ waited[k] \in Nat /\ answered[k] \in Nat
          /\ info[k].fist_start_time \in Int /\ info[k].first_arrival_time \in Int /\ PastRight(k, info[k])
      BY <1>0, <2>4
    <3>2. /\ ran'[k] = IF k = current THEN ran[k] + 1 ELSE ran[k]
          /\ waited'[k] = IF k \in pqueue THEN waited[k] + 1 ELSE waited[k]
          /\ answered'[k] = IF k \in pqueue \ begun THEN answered[k] + 1 ELSE answered[k]
          /\ info'[k] = info[k] /\ begun' = begun /\ time' = time + 1
      BY <2>1, <3>1
    <3>0. time \in Nat
      BY <1>0
    <3>3. k = current \/ k \in pqueue
      BY <2>4 DEF TotalsInv, Clocks
    <3>4. CASE k = current
      <4>1. k \notin pqueue /\ k \in begun /\ info[k].fist_start_time # -1
        <5>1. k \notin pqueue /\ k # NoJob
          BY <1>0, <2>4, <3>4, SchedulerAssumption
        <5>. QED
          BY <3>1, <3>4, <5>1 DEF PastRight, TotalsInv, Clocks
      <4>. QED
        BY <3>0, <3>1, <3>2, <3>4, <4>1 DEF PastRight
    <3>5. CASE k # current /\ k \in pqueue
      <4>0. /\ ran'[k] = ran[k] /\ waited'[k] = waited[k] + 1
            /\ time' - info[k].first_arrival_time = waited'[k] + ran'[k]
        BY <3>0, <3>1, <3>2, <3>5 DEF PastRight
      <4>1. CASE info[k].fist_start_time = -1
        <5>1. k \notin begun /\ k \notin begun' /\ ran[k] = 0 /\ answered[k] = waited[k]
          BY <3>1, <3>2, <4>1 DEF PastRight
        <5>2. answered'[k] = waited'[k]
          BY <3>2, <3>5, <4>0, <5>1
        <5>. QED
          BY <3>2, <4>0, <4>1, <5>1, <5>2 DEF PastRight
      <4>2. CASE info[k].fist_start_time # -1
        <5>1. k \in begun /\ k \in begun' /\ answered'[k] = answered[k]
              /\ info[k].fist_start_time - info[k].first_arrival_time = answered[k]
          BY <3>1, <3>2, <4>2 DEF PastRight
        <5>. QED
          BY <3>2, <4>0, <4>2, <5>1 DEF PastRight
      <4>. QED
        BY <4>1, <4>2
    <3>. QED
      BY <3>3, <3>4, <3>5
  <2>6. Clocks'
    BY <1>0, <2>1, <2>2, <2>4 DEF TotalsInv, Clocks
  <2>. QED
    BY <2>3, <2>6
<1>3. ASSUME QuantumExpired PROVE Clocks' /\ Totals'
  <2>1. UNCHANGED <<pqueue_scheme, schedTotals, ticks>>
    BY <1>3 DEF QuantumExpired
  <2>3. CASE current = NoJob /\ Poll(pqueue, info)
    <3>1. pqueue = D
      BY <1>0, <2>3, SchedulerAssumption DEF TotalsInv, Clocks
    <3>. QED
      BY <1>0, <2>1, <2>3, <3>1, PollClocks
  <2>4. CASE /\ current # NoJob /\ patience' = [patience EXCEPT ![current] = 0]
           /\ Poll(pqueue \cup {current}, [info EXCEPT ![current] = Evict(@)])
    <3>. DEFINE known == [info EXCEPT ![current] = Evict(@)]
    <3>1. pqueue \cup {current} = D /\ current \in D
      BY <1>0, <2>4 DEF TotalsInv, Clocks
    <3>2. \A j \in D : known[j] = IF j = current THEN Evict(info[j]) ELSE info[j]
      BY <3>1
    <3>3. DOMAIN known = D /\ \A j \in D : known[j] \in JobInfo
      BY <1>3, <2>4, EvictedQueue DEF TotalsInv
    <3>4. Poll(pqueue \cup {current}, known)
      BY <2>4
    <3>. HIDE DEF known
    <3>5. \A j \in D : /\ known[j].first_arrival_time = info[j].first_arrival_time
                       /\ known[j].fist_start_time = info[j].fist_start_time
      BY <1>0, <3>2, EntriesKeep
    <3>. QED
      BY <2>1, <3>1, <3>3, <3>4, <3>5, PollClocks
  <2>. QED
    BY <1>3, <2>3, <2>4 DEF QuantumExpired
<1>4. ASSUME NEW j \in Jobs, NEW running \in RunningTimes, NEW priority \in Priorities,
             SchedNewJob(j, running, priority)
      PROVE Clocks' /\ Totals'
  <2>. DEFINE entry == [arrival_time |-> time, first_arrival_time |-> time,
                        remaining_time |-> running, start_time |-> -1, fist_start_time |-> -1,
                        running_time |-> running, priority |-> priority]
  <2>1. /\ j = n + 1 /\ number_of_jobs' = j /\ pqueue' = pqueue \cup {j}
        /\ info' = [k \in D \cup {j} |-> IF k # j THEN info[k] ELSE entry]
        /\ UNCHANGED <<total_waiting_time, total_turnaround_time, total_response_time,
                       current, time, ran, waited, answered, begun>>
    BY <1>4 DEF SchedNewJob, clock, ticks
  <2>2. /\ j \notin D /\ j \notin 1..n /\ 1..(n + 1) = (1..n) \union {j}
        /\ ran[j] = 0 /\ waited[j] = 0 /\ answered[j] = 0 /\ j \notin begun
    BY <1>0, <2>1 DEF TotalsInv, Clocks, SchedInv, Untouched
  <2>3. entry.first_arrival_time = time /\ entry.fist_start_time = -1
    OBVIOUS
  <2>. HIDE DEF entry
  <2>4. /\ info'[j] = entry /\ DOMAIN info' = D \union {n + 1}
        /\ \A k \in D : info'[k] = info[k]
    BY <2>1, <2>2
  <2>5. Totals'
    <3>1. Stayed' = Stayed
      BY <2>1 DEF Stayed
    <3>2. \A k \in 1..n : waited[k] \in Int /\ answered[k] \in Int /\ Stayed[k] \in Int
      BY <1>0
    <3>3. /\ Without(D \union {n + 1}, n + 1, waited) = Without(D, n, waited)
          /\ Without(D \union {n + 1}, n + 1, answered) = Without(D, n, answered)
          /\ Without(D \union {n + 1}, n + 1, Stayed) = Without(D, n, Stayed)
      BY <1>0, <3>2, WithoutNext
    <3>. QED
      BY <2>1, <2>4, <3>1, <3>3 DEF TotalsInv, Totals
  <2>6. ASSUME NEW k \in DOMAIN info' PROVE PastRight(k, info[k])' /\ (k \in pqueue' \/ k = current')
    <3>1. CASE k = j
      <4>1. k # current
        BY <1>0, <2>2, <3>1, SchedulerAssumption
      <4>. QED
        BY <1>0, <2>1, <2>2, <2>3, <2>4, <3>1, <4>1 DEF PastRight
    <3>2. CASE k \in D
      BY <1>0, <2>1, <2>4, <3>2 DEF PastRight, TotalsInv, Clocks
    <3>. QED
      BY <2>1, <2>4, <3>1, <3>2
  <2>7. current' # NoJob => info'[current'] = info[current]
    BY <1>0, <2>1, <2>4
  <2>8. Clocks'
    BY <1>0, <2>1, <2>2, <2>6, <2>7 DEF TotalsInv, Clocks
  <2>. QED
    BY <2>5, <2>8
<1>5. CASE UNCHANGED schedVars
  <2>1. UNCHANGED <<pqueue, info, number_of_jobs, total_waiting_time, total_turnaround_time,
                    total_response_time, current, time, ran, waited, answered, begun>>
    BY <1>5 DEF schedVars, schedTotals, clock, ticks
  <2>. QED
    BY <2>1 DEF TotalsInv, Clocks, Totals, Stayed, PastRight
<1>. QED
  BY <1>1, <1>2, <1>3, <1>4, <1>5 DEF SchedNext

(* The totals of the finished jobs are the ticks that they really waited,     *)
(* stayed and waited for their first turn.                                    *)
THEOREM TotalsCorrect == SchedSpec => []TotalsAreRight
<1>1. TotalsInv => TotalsAreRight
  BY DEF TotalsInv, Totals, TotalsAreRight, OfFinished, Without, Stayed
<1>. QED
  BY <1>1, InitTotals, NextTotals, PTL DEF SchedSpec

\* The job that is polled: the comparers order the entries by what has really
\* happened, and nothing but its start changes when it is polled.
LEMMA NobodyPrecedesPolled ==
  ASSUME TotalsInv, NEW queue \in SUBSET DOMAIN info, NEW known, DOMAIN known = DOMAIN info,
         patience' \in [Jobs -> Nat],
         \A j \in DOMAIN info : /\ known[j] \in JobInfo
                                /\ known[j].priority = info[j].priority
                                /\ known[j].running_time = info[j].running_time
                                /\ known[j].first_arrival_time = info[j].first_arrival_time,
         \A j \in queue : QueuedAnew(j, known[j]),
         Poll(queue, known), UNCHANGED <<pqueue_scheme, schedTotals, ticks>>
  PROVE  NobodyPrecedes'
<1>1. PICK j \in queue : /\ \A k \in queue : ~Before(known[k], known[j])
                         /\ info' = [known EXCEPT ![j] = Started(@)]
                         /\ current' = j /\ pqueue' = queue \ {j}
  BY DEF Poll
<1>. DEFINE base == IF pqueue_scheme \in {"FCFS", "RR"} THEN time ELSE 0
<1>2. ASSUME NEW k \in queue
      PROVE  /\ Key(known[k]) \in Int /\ known[k].first_arrival_time \in Int
             /\ Rank(k)' = Key(known[k]) - base /\ Age(k)' = time - known[k].first_arrival_time
  <2>1. /\ k \in DOMAIN info /\ k \in Jobs /\ known[k] \in JobInfo /\ time \in Nat
        /\ ran[k] \in Nat /\ waited[k] \in Nat /\ patience'[k] \in Nat
        /\ pqueue_scheme \in Schemes /\ PastRight(k, info[k])
    BY <1>2 DEF TotalsInv, Clocks, SchedInv, SchedTypeOK
  <2>2. /\ known[k].priority \in Int /\ known[k].running_time \in Int /\ known[k].remaining_time \in Int
        /\ known[k].arrival_time \in Int /\ known[k].first_arrival_time \in Int
    BY <2>1 DEF JobInfo
  <2>3. info'[k] = IF k = j THEN Started(known[k]) ELSE known[k]
    BY <1>1, <2>1
  <2>4. info'[k].priority = known[k].priority /\ info'[k].running_time = known[k].running_time
    BY <2>1, <2>3, StartedEntry
  <2>5. /\ known[k].remaining_time = known[k].running_time - ran[k]
        /\ known[k].arrival_time = time - patience'[k]
        /\ time - known[k].first_arrival_time = waited[k] + ran[k]
    BY <1>2, <2>1 DEF QueuedAnew, PastRight
  <2>6. /\ pqueue_scheme' = pqueue_scheme /\ time' = time /\ ran' = ran /\ waited' = waited
    BY DEF ticks
  <2>7. Age(k)' = time - known[k].first_arrival_time
    BY <2>5, <2>6 DEF Age
  <2>8. CASE pqueue_scheme = "FCFS"
    <3>1. Rank(k)' = -(waited[k] + ran[k]) /\ Key(known[k]) = known[k].first_arrival_time /\ base = time
      BY <2>6, <2>8 DEF Rank, Age, Key
    <3>. QED
      BY <2>1, <2>2, <2>5, <2>7, <3>1
  <2>9. CASE pqueue_scheme \in {"PRI", "PPRI"}
    <3>1. Rank(k)' = known[k].priority /\ Key(known[k]) = known[k].priority /\ base = 0
      BY <2>4, <2>6, <2>9 DEF Rank, Key
    <3>. QED
      BY <2>2, <2>7, <3>1
  <2>10. CASE pqueue_scheme = "PSRTF"
    <3>1. Rank(k)' = known[k].running_time - ran[k] /\ Key(known[k]) = known[k].remaining_time /\ base = 0
      BY <2>4, <2>6, <2>10 DEF Rank, Needs, Key
    <3>. QED
      BY <2>2, <2>5, <2>7, <3>1
  <2>11. CASE pqueue_scheme = "RR"
    <3>1. Rank(k)' = -patience'[k] /\ Key(known[k]) = known[k].arrival_time /\ base = time
      BY <2>6, <2>11 DEF Rank, Key
    <3>. QED
      BY <2>1, <2>2, <2>5, <2>7, <3>1
  <2>12. CASE pqueue_scheme = "SJF"
    <3>1. Rank(k)' = known[k].running_time /\ Key(known[k]) = known[k].running_time /\ base = 0
      BY <2>4, <2>6, <2>12 DEF Rank, Key
    <3>. QED
      BY <2>2, <2>7, <3>1
  <2>. QED
    BY <2>1, <2>8, <2>9, <2>10, <2>11, <2>12 DEF Schemes
<1>3. base \in Int /\ time \in Int /\ pqueue_scheme \in Schemes /\ pqueue_scheme' = pqueue_scheme
  BY DEF TotalsInv, SchedInv, SchedTypeOK
<1>. HIDE DEF base
<1>4. ASSUME NEW k \in queue PROVE ~Precedes(k, j)'
  <2>1. ~Before(known[k], known[j])
    BY <1>1
  <2>2. ~(Rank(k)' < Rank(j)')
    BY <1>2, <1>3, <2>1 DEF Before
  <2>3. ASSUME pqueue_scheme # "RR", Rank(k)' = Rank(j)' PROVE ~(Age(k)' > Age(j)')
    <3>1. Key(known[k]) = Key(known[j])
      BY <1>2, <1>3, <2>3
    <3>2. CASE TieBroken
      <4>1. ~(known[k].first_arrival_time < known[j].first_arrival_time)
        BY <2>1, <3>1, <3>2 DEF Before
      <4>. QED
        BY <1>2, <1>3, <4>1
    <3>3. CASE ~TieBroken
      <4>1. pqueue_scheme = "FCFS"
        BY <1>3, <2>3, <3>3 DEF TieBroken, Schemes
      <4>2. known[k].first_arrival_time = known[j].first_arrival_time
        BY <3>1, <4>1 DEF Key
      <4>. QED
        BY <1>2, <1>3, <4>2
    <3>. QED
      BY <3>2, <3>3
  <2>. QED
    BY <1>3, <2>2, <2>3 DEF Precedes
<1>. QED
  BY <1>1, <1>4 DEF NobodyPrecedes

(* Whenever a quantum is over with jobs in the queue, the processor goes to a  *)
(* job that no other precedes, by what has really happened: under any of the   *)
(* six schemes, and only those that preempt take it away.                      *)
THEOREM TurnsAreRight == SchedSpec => RightJobRuns
<1>. DEFINE Right == /\ QuantumExpired => NobodyPrecedes'
                     /\ current # NoJob /\ current' \notin {current, NoJob}
                          => pqueue_scheme \in {"PPRI", "PSRTF", "RR"}
<1>1. ASSUME TotalsInv, QuantumExpired PROVE NobodyPrecedes'
  <2>1. UNCHANGED <<pqueue_scheme, schedTotals, ticks>> /\ SchedInv
    BY <1>1 DEF QuantumExpired, TotalsInv
  <2>2. CASE Poll(pqueue, info) /\ UNCHANGED patience
    <3>1. /\ pqueue \in SUBSET DOMAIN info /\ \A j \in DOMAIN info : info[j] \in JobInfo
      BY <2>1 DEF SchedInv, SchedTypeOK
    <3>. QED
      BY <1>1, <2>1, <2>2, <3>1, WaitingQueue, NobodyPrecedesPolled
  <2>3. CASE /\ current # NoJob /\ patience' = [patience EXCEPT ![current] = 0]
             /\ Poll(pqueue \cup {current}, [info EXCEPT ![current] = Evict(@)])
    <3>. DEFINE known == [info EXCEPT ![current] = Evict(@)]
    <3>1. current \in DOMAIN info /\ info[current] \in JobInfo /\ time \in Nat
      BY <2>1, <2>3 DEF SchedInv, SchedTypeOK
    <3>2. /\ pqueue \cup {current} \in SUBSET DOMAIN info /\ DOMAIN known = DOMAIN info
          /\ \A j \in DOMAIN info : /\ known[j] \in JobInfo
                                    /\ known[j].priority = info[j].priority
                                    /\ known[j].running_time = info[j].running_time
          /\ patience' \in [Jobs -> Nat]
          /\ \A j \in pqueue \cup {current} : QueuedAnew(j, known[j])
      BY <2>1, <2>3, EvictedQueue
    <3>3. \A j \in DOMAIN info : known[j].first_arrival_time = info[j].first_arrival_time
      <4>1. \A j \in DOMAIN info : known[j] = IF j = current THEN Evict(info[j]) ELSE info[j]
        BY <3>1
      <4>. QED
        BY <3>1, <4>1, EntriesKeep
    <3>4. Poll(pqueue \cup {current}, known)
      BY <2>3
    <3>. HIDE DEF known
    <3>. QED
      BY <1>1, <2>1, <3>2, <3>3, <3>4, NobodyPrecedesPolled
  <2>. QED
    BY <1>1, <2>2, <2>3 DEF QuantumExpired
<1>2. ASSUME TotalsInv, [SchedNext]_schedVars PROVE Right
  <2>1. ASSUME current # NoJob, current' \notin {current, NoJob}
        PROVE  pqueue_scheme \in {"PPRI", "PSRTF", "RR"}
    <3>1. QuantumExpired
      BY <1>2, <2>1 DEF SchedNext, JobFinished, Tick, SchedNewJob, schedVars
    <3>2. pqueue_scheme \notin {"FCFS", "PRI", "SJF"}
      BY <2>1, <3>1 DEF QuantumExpired
    <3>. QED
      BY <1>2, <3>2 DEF TotalsInv, SchedInv, SchedTypeOK, Schemes
  <2>. QED
    BY <1>1, <1>2, <2>1
<1>3. TotalsInv /\ [SchedNext]_schedVars => [Right]_schedVars
  BY <1>2
<1>. HIDE DEF Right
<1>4. SchedSpec => [][Right]_schedVars
  BY <1>3, InitTotals, NextTotals, PTL DEF SchedSpec
<1>. QED
  BY <1>4 DEF Right, RightJobRuns
-----------------------------------------------------------------------------
(* The shell.                                                                 *)

States == {"running", "stopped", "succeeded", "died", "reaped"}
Child == [line : Lines, state : States, foreground : BOOLEAN]
Entry == [line : Lines, pid : Int \cup {ShellPid}]
InCall == shell \in {"run", "waitpid", "wait"}

TypeOK ==
  /\ history \in Seq(Entry) /\ child \in Seq(Child)
  /\ shell \in {"prompt", "run", "waitpid", "wait", "exited", "failed"}
  /\ InCall => /\ job \in [line : Lines, part : {1, 2}]
               /\ job.part = 2 => job.line.mode \in {1, 2, 3}

\* The least element of a set of numbers, which ModifyPid chooses.
\* modify_pid changes one entry, of the text that is asked for.
LEMMA ModifiedEntry ==
  ASSUME history \in Seq(Entry), NEW l, NEW pid \in Int \cup {ShellPid},
         \E n \in DOMAIN history : history[n].line.text = l.text
  PROVE  LET h == ModifyPid(history, l, pid)
         IN  /\ h \in Seq(Entry) /\ DOMAIN h = DOMAIN history
             /\ \A k \in DOMAIN history : h[k].line = history[k].line
             /\ \E n \in DOMAIN history :
                  /\ history[n].line.text = l.text /\ h[n].pid = pid
                  /\ \A k \in DOMAIN history : k # n => h[k] = history[k]
<1>. DEFINE same == {n \in DOMAIN history : history[n].line.text = l.text}
            least == CHOOSE n \in same : \A k \in same : n <= k
            h == [history EXCEPT ![least].pid = pid]
<1>1. same \subseteq Nat /\ same # {}
  OBVIOUS
<1>2. \E n \in same : \A k \in same : n <= k
  BY <1>1, LeastNumber
<1>3. least \in same
  BY <1>2
<1>. HIDE DEF least
<1>4. ModifyPid(history, l, pid) = h
  BY DEF ModifyPid, least
<1>5. history[least] \in Entry /\ least \in DOMAIN history
  BY <1>3
<1>6. h = [history EXCEPT ![least] = [history[least] EXCEPT !.pid = pid]]
  OBVIOUS
<1>. DEFINE e == [history[least] EXCEPT !.pid = pid]
<1>7. e \in Entry /\ e.line = history[least].line /\ e.pid = pid
  BY <1>5 DEF Entry
<1>8. DOMAIN h = DOMAIN history /\ h[least] = e
      /\ \A k \in DOMAIN history : k # least => h[k] = history[k]
  BY <1>5, <1>6
<1>. HIDE DEF e
<1>9. h \in Seq(Entry)
  BY <1>5, <1>6, <1>7 DEF e
<1>. HIDE DEF h
<1>. QED
  BY <1>3, <1>4, <1>5, <1>7, <1>8, <1>9
-----------------------------------------------------------------------------
\* Lines whose children are not to survive the shell.
Lasting(l) == l.mode >= 4 \/ (l.mode = 0 /\ l.zombie /\ l.words[1] = "external")

\* What the call that runs is waiting for is the last child.
CallKnown ==
  /\ shell = "waitpid" => ~Lasting(job.line)
  /\ shell = "wait" => Lasting(job.line)
  /\ shell \in {"waitpid", "wait"} => child # <<>> /\ child[Len(child)].line = job.line
  /\ InCall => \E n \in DOMAIN history : history[n].line = job.line

\* The pids in the history are those of children that ran the entry's line.
PidsKnown ==
  \A n \in DOMAIN history :
    /\ history[n].pid \in {ShellPid, 0, -1} \cup DOMAIN child
    /\ history[n].pid \in DOMAIN child => child[history[n].pid].line = history[n].line

\* Only a command that is run gets a child.
External == \A p \in DOMAIN child :
              child[p].line.mode = 0 => child[p].line.words[1] = "external"

\* The history names every child that is not to survive, but for the one that
\* a redirection is waiting for and those whose line was run again.
Named(p, h, children) ==
  \/ \E n \in DOMAIN h : h[n].pid = p
  \/ \E q \in p + 1 .. Len(children) : children[q].line.text = children[p].line.text

LastingNamed ==
  \A p \in DOMAIN child :
    Lasting(child[p].line) => Named(p, history, child) \/ (shell = "wait" /\ p = Len(child))

\* exit kills whatever the history names.
NamedKilled ==
  shell = "exited" => \A n \in DOMAIN history :
    history[n].pid \in DOMAIN child => child[history[n].pid].state \notin {"running", "stopped"}

IInv == TypeOK /\ CallKnown /\ PidsKnown /\ External /\ LastingNamed /\ NamedKilled

LEMMA InitIInv == ShellInit => IInv
<1>. SUFFICES ASSUME ShellInit PROVE IInv
  OBVIOUS
<1>1. history \in Seq(Entry) /\ \A n \in DOMAIN history : history[n].pid = ShellPid
  <2>1. CASE history = <<>>
    BY <2>1
  <2>2. ASSUME NEW l \in Lines, history = <<[line |-> l, pid |-> ShellPid]>>
        PROVE  history \in Seq(Entry) /\ \A n \in DOMAIN history : history[n].pid = ShellPid
    BY <2>2 DEF Entry
  <2>. QED
    BY <2>1, <2>2 DEF ShellInit
<1>2. child = <<>> /\ DOMAIN child = {} /\ child \in Seq(Child) /\ shell = "prompt"
  BY DEF ShellInit
<1>. QED
  BY <1>1, <1>2 DEF IInv, TypeOK, CallKnown, PidsKnown, External, LastingNamed, NamedKilled, InCall

\* Children keep their lines, and at most one is new, with the line that is run.
Grows == /\ child' \in Seq(Child)
         /\ Len(child') \in {Len(child), Len(child) + 1}
         /\ \A q \in DOMAIN child : child'[q].line = child[q].line
         /\ Len(child') # Len(child) => /\ child'[Len(child')].line = job.line
                                        /\ \/ job.line.mode >= 4
                                           \/ job.line.words[job.part] = "external"

\* A step that leaves the shell where it is and forks nothing.
LEMMA SameInCall ==
  ASSUME IInv, child' \in Seq(Child), Len(child') = Len(child),
         \A q \in DOMAIN child : child'[q].line = child[q].line,
         shell' = shell \/ (shell' = "failed" /\ shell # "wait"), shell # "exited", UNCHANGED <<history, job>>
  PROVE  IInv'
<1>1. DOMAIN child' = DOMAIN child
  BY DEF IInv, TypeOK
<1>2. TypeOK'
  BY DEF IInv, TypeOK, InCall
<1>3. CallKnown'
  BY <1>1 DEF IInv, TypeOK, CallKnown, InCall
<1>4. PidsKnown' /\ External'
  BY <1>1 DEF IInv, PidsKnown, External
<1>5. LastingNamed' /\ NamedKilled'
  <2>1. ASSUME NEW p \in DOMAIN child, Named(p, history, child) PROVE Named(p, history', child')
    <3>1. \A q \in p + 1 .. Len(child) : q \in DOMAIN child
      BY DEF IInv, TypeOK
    <3>. QED
      BY <2>1, <3>1 DEF Named
  <2>. QED
    BY <1>1, <2>1 DEF IInv, LastingNamed, NamedKilled
<1>. QED
  BY <1>2, <1>3, <1>4, <1>5 DEF IInv

\* What a call records when it returns: the pid of the last child, if there is
\* to be one that does not survive.
LEMMA GoOnIInv ==
  ASSUME IInv, InCall, Grows, shell = "wait" => Len(child') = Len(child), NEW pid \in {0, -1} \cup DOMAIN child',
         pid \in DOMAIN child' => pid = Len(child') /\ child'[pid].line = job.line,
         Lasting(job.line) => pid \in DOMAIN child', GoOn(pid)
  PROVE  IInv'
<1>. USE ShellAssumption
<1>. DEFINE h == ModifyPid(history, job.line, Recorded(pid))
<1>1. /\ job \in [line : Lines, part : {1, 2}] /\ job.line \in Lines
      /\ job.part = 2 => job.line.mode \in {1, 2, 3}
      /\ \E n \in DOMAIN history : history[n].line = job.line
      /\ history \in Seq(Entry) /\ child \in Seq(Child) /\ Len(child) \in Nat
  BY DEF IInv, TypeOK, CallKnown
<1>0. Len(child) \in Nat /\ Len(child') \in Nat /\ Len(child) <= Len(child')
  BY <1>1 DEF Grows
<1>2. /\ DOMAIN child = 1..Len(child) /\ DOMAIN child' = 1..Len(child')
      /\ DOMAIN child \subseteq DOMAIN child'
      /\ \A p \in DOMAIN child' : p \notin DOMAIN child => p = Len(child') /\ child'[p].line = job.line
  BY <1>0, <1>1 DEF Grows
<1>9. \A p \in DOMAIN child' : p \notin {ShellPid, 0, -1}
  <2>1. ShellPid \notin Nat
    OBVIOUS
  <2>2. \A p \in 1..Len(child') : p \in Nat /\ p # 0 /\ p # -1
    BY <1>0
  <2>. QED
    BY <1>2, <2>1, <2>2
<1>11. DOMAIN child = 1..Len(child) /\ DOMAIN child' = 1..Len(child')
  BY <1>2
<1>10. \A q \in DOMAIN child : child'[q].line = child[q].line
  BY DEF Grows
<1>3. SecondRuns(pid) \/ GivesUp(pid) => ~Lasting(job.line)
  <2>1. SecondRuns(pid) => job.line.mode \in {1, 2, 3}
    BY DEF SecondRuns
  <2>2. job.line.mode \in {1, 2, 3} => ~Lasting(job.line)
    BY DEF Lasting
  <2>3. GivesUp(pid) => pid = -1
    BY DEF GivesUp
  <2>. QED
    BY <1>9, <2>1, <2>2, <2>3
<1>4. shell = "wait" => Lasting(job.line)
  BY DEF IInv, CallKnown
<1>5. ASSUME NEW p \in DOMAIN child, Named(p, history, child), history' = history
      PROVE  Named(p, history', child')
  <2>0. DOMAIN child = 1..Len(child) /\ p \in 1..Len(child)
    BY <1>2
  <2>1. ASSUME NEW q \in p + 1 .. Len(child) PROVE q \in DOMAIN child /\ q \in p + 1 .. Len(child')
    BY <1>0, <2>0
  <2>. QED
    BY <1>5, <2>1 DEF Named, Grows
<1>6. External'
  <2>1. ASSUME job.line.mode = 0, Len(child') # Len(child)
        PROVE  job.line.words[1] = "external"
    <3>1. job.part = 1 /\ ~(job.line.mode >= 4)
      BY <1>1, <2>1
    <3>. QED
      BY <2>1, <3>1 DEF Grows
  <2>2. \A p \in DOMAIN child' : \/ p \in DOMAIN child /\ child'[p].line = child[p].line
                                 \/ /\ p = Len(child') /\ child'[p].line = job.line
                                    /\ Len(child') # Len(child)
    BY <1>2, <1>0 DEF Grows
  <2>. QED
    BY <2>1, <2>2 DEF IInv, External
<1>7. CASE UNCHANGED history /\ (SecondRuns(pid) \/ GivesUp(pid))
  <2>1. PidsKnown'
    BY <1>2, <1>7, <1>9 DEF IInv, PidsKnown, Grows
  <2>2. LastingNamed'
    BY <1>2, <1>3, <1>4, <1>5, <1>7 DEF IInv, LastingNamed, Grows
  <2>3. TypeOK' /\ CallKnown' /\ NamedKilled'
    <3>1. CASE SecondRuns(pid)
      <4>1. shell' = "run" /\ job' = [job EXCEPT !.part = 2] /\ job.line.mode \in {1, 2, 3}
        BY <3>1 DEF GoOn, SecondRuns
      <4>2. job' \in [line : Lines, part : {1, 2}] /\ job'.line = job.line
        BY <1>1, <4>1
      <4>. QED
        BY <1>1, <1>7, <4>1, <4>2 DEF TypeOK, CallKnown, NamedKilled, InCall, Grows
    <3>2. CASE ~SecondRuns(pid)
      BY <1>1, <1>7, <3>2 DEF GoOn, TypeOK, CallKnown, NamedKilled, InCall, Grows
    <3>. QED
      BY <3>1, <3>2
  <2>. QED
    BY <1>6, <2>1, <2>2, <2>3 DEF IInv
<1>8. CASE history' = h /\ shell' = "prompt"
  <2>0. \E n \in DOMAIN history : history[n].line.text = job.line.text
    BY <1>1
  <2>1. Recorded(pid) \in {ShellPid, pid} /\ Recorded(pid) \in Int \cup {ShellPid}
    <3>1. pid \in Int
      <4>1. pid \in {0, -1} \/ pid \in 1..Len(child')
        BY <1>11
      <4>. QED
        BY <1>0, <4>1
    <3>. QED
      BY <3>1 DEF Recorded
  <2>2. /\ h \in Seq(Entry) /\ DOMAIN h = DOMAIN history
        /\ \A k \in DOMAIN history : h[k].line = history[k].line
        /\ \E n \in DOMAIN history : /\ history[n].line.text = job.line.text
                                     /\ h[n].pid = Recorded(pid)
                                     /\ \A k \in DOMAIN history : k # n => h[k] = history[k]
    <3>1. history \in Seq(Entry)
      BY <1>1
    <3>. DEFINE r == Recorded(pid)
    <3>2. r \in Int \cup {ShellPid}
      BY <2>1
    <3>. HIDE DEF r, h
    <3>. DEFINE g == ModifyPid(history, job.line, r)
    <3>3. /\ g \in Seq(Entry) /\ DOMAIN g = DOMAIN history
          /\ \A k \in DOMAIN history : g[k].line = history[k].line
          /\ \E n \in DOMAIN history : /\ history[n].line.text = job.line.text
                                       /\ g[n].pid = r
                                       /\ \A k \in DOMAIN history : k # n => g[k] = history[k]
      BY <2>0, <3>1, <3>2, ModifiedEntry
    <3>. HIDE DEF g
    <3>4. g = h
      BY DEF g, h, r
    <3>. QED
      BY <3>3, <3>4 DEF r
  <2>. HIDE DEF h
  <2>3. PICK n \in DOMAIN history : /\ history[n].line.text = job.line.text
                                    /\ h[n].pid = Recorded(pid)
                                    /\ \A k \in DOMAIN history : k # n => h[k] = history[k]
    BY <2>2
  <2>4. history[n].line = job.line
    <3>1. history[n] \in Entry
      BY <1>1
    <3>2. history[n].line \in Lines
      BY <3>1 DEF Entry
    <3>. QED
      BY <1>1, <2>3, <3>2
  <2>5. TypeOK' /\ CallKnown' /\ NamedKilled'
    BY <1>8, <2>2 DEF TypeOK, CallKnown, NamedKilled, InCall, Grows
  <2>6. PidsKnown'
    <3>1. ASSUME NEW k \in DOMAIN history, k # n
          PROVE  /\ h[k].pid \in {ShellPid, 0, -1} \cup DOMAIN child'
                 /\ h[k].pid \in DOMAIN child' => child'[h[k].pid].line = h[k].line
      <4>1. h[k].pid = history[k].pid /\ h[k].line = history[k].line
        BY <2>3, <3>1
      <4>2. /\ history[k].pid \in {ShellPid, 0, -1} \cup DOMAIN child
            /\ history[k].pid \in DOMAIN child => child[history[k].pid].line = history[k].line
        BY DEF IInv, PidsKnown
      <4>. QED
        BY <1>2, <1>9, <1>10, <4>1, <4>2
    <3>2. /\ h[n].pid \in {ShellPid, 0, -1} \cup DOMAIN child'
          /\ h[n].pid \in DOMAIN child' => child'[h[n].pid].line = h[n].line
      <4>1. h[n].pid \in {ShellPid, pid} /\ h[n].line = job.line
        BY <2>1, <2>2, <2>3, <2>4
      <4>. QED
        BY <1>9, <4>1
    <3>. QED
      BY <1>8, <2>2, <3>1, <3>2 DEF PidsKnown
  <2>7. LastingNamed'
    <3>. SUFFICES ASSUME NEW p \in DOMAIN child', Lasting(child'[p].line)
                  PROVE  Named(p, h, child')
      BY <1>8 DEF LastingNamed
    <3>1. CASE p = Len(child') /\ child'[p].line = job.line
      <4>1. pid = p /\ Recorded(pid) = p
        BY <3>1 DEF Lasting, Recorded
      <4>. QED
        BY <2>2, <2>3, <4>1 DEF Named
    <3>2. CASE p \in DOMAIN child /\ ~(p = Len(child') /\ child'[p].line = job.line)
      <4>1. child'[p].line = child[p].line
        BY <3>2 DEF Grows
      <4>2. Named(p, history, child)
        BY <3>2, <4>1 DEF IInv, LastingNamed, CallKnown
      <4>3. CASE \E q \in p + 1 .. Len(child) : child[q].line.text = child[p].line.text
        <5>1. PICK q \in p + 1 .. Len(child) : child[q].line.text = child[p].line.text
          BY <4>3
        <5>2. q \in DOMAIN child /\ q \in p + 1 .. Len(child')
          <6>1. DOMAIN child = 1..Len(child) /\ p \in 1..Len(child)
            BY <1>2, <3>2
          <6>. QED
            BY <1>0, <6>1
        <5>. QED
          BY <4>1, <5>1, <5>2 DEF Named, Grows
      <4>4. ASSUME NEW k \in DOMAIN history, history[k].pid = p, k # n PROVE Named(p, h, child')
        BY <2>2, <2>3, <4>4 DEF Named
      <4>5. CASE history[n].pid = p
        <5>1. child[p].line = job.line
          BY <2>4, <3>2, <4>5 DEF IInv, PidsKnown
        <5>2. pid = Len(child') /\ child'[pid].line = job.line /\ p < pid
          <6>1. pid = Len(child') /\ child'[pid].line = job.line
            BY <4>1, <5>1
          <6>2. p # Len(child')
            BY <3>2, <4>1, <5>1
          <6>3. p \in 1..Len(child)
            BY <1>11, <3>2
          <6>. QED
            BY <1>0, <6>1, <6>2, <6>3
        <5>3. pid \in p + 1 .. Len(child')
          <6>1. p \in 1..Len(child)
            BY <1>11, <3>2
          <6>. QED
            BY <1>0, <5>2, <6>1
        <5>. QED
          BY <4>1, <5>1, <5>2, <5>3 DEF Named
      <4>. QED
        BY <4>2, <4>3, <4>4, <4>5 DEF Named
    <3>. QED
      BY <1>2, <3>1, <3>2
  <2>. QED
    BY <1>6, <2>5, <2>6, <2>7 DEF IInv
<1>. QED
  BY <1>7, <1>8 DEF GoOn

\* A fork puts one child at the end.
LEMMA Forked ==
  ASSUME TypeOK, InCall, NEW foreground \in BOOLEAN, Fork(foreground), StartsExternal
  PROVE  /\ Grows /\ Len(child') = Len(child) + 1
         /\ child'[Len(child')].line = job.line
         /\ child'[Len(child')].foreground = foreground
         /\ child'[Len(child')].state = "running"
         /\ \A q \in DOMAIN child : child'[q] = child[q]
<1>. DEFINE c == [line |-> job.line, state |-> "running", foreground |-> foreground]
<1>1. c \in Child /\ c.line = job.line /\ c.state = "running" /\ c.foreground = foreground
  BY DEF TypeOK, Child, States
<1>2. child' = Append(child, c) /\ child \in Seq(Child)
  BY DEF Fork, TypeOK
<1>3. job.line.mode >= 4 \/ job.line.words[job.part] = "external"
  BY DEF StartsExternal
<1>. HIDE DEF c
<1>4. /\ child' \in Seq(Child) /\ Len(child') = Len(child) + 1 /\ child'[Len(child')] = c
      /\ \A q \in DOMAIN child : child'[q] = child[q]
  BY <1>1, <1>2
<1>. QED
  BY <1>1, <1>3, <1>4 DEF Grows

\* Children that change their states, and maybe the foreground, in place.
LEMMA Restated ==
  ASSUME child \in Seq(Child), NEW p \in DOMAIN child, NEW s \in States
  PROVE  LET after == [child EXCEPT ![p].state = s]
         IN  /\ after \in Seq(Child) /\ Len(after) = Len(child)
             /\ \A q \in DOMAIN child : /\ after[q].line = child[q].line
                                        /\ after[q].foreground = child[q].foreground
                                        /\ after[q].state = IF q = p THEN s ELSE child[q].state
<1>. DEFINE c == [child[p] EXCEPT !.state = s]
            after == [child EXCEPT ![p] = c]
<1>1. child[p] \in Child
  OBVIOUS
<1>2. c \in Child /\ c.line = child[p].line /\ c.state = s /\ c.foreground = child[p].foreground
  BY <1>1 DEF Child
<1>3. [child EXCEPT ![p].state = s] = after
  OBVIOUS
<1>. HIDE DEF c
<1>4. after \in Seq(Child) /\ Len(after) = Len(child) /\ after[p] = c
      /\ \A q \in DOMAIN child : q # p => after[q] = child[q]
  BY <1>2
<1>. HIDE DEF after
<1>. QED
  BY <1>2, <1>3, <1>4

LEMMA Signalled ==
  ASSUME child \in Seq(Child), NEW p \in DOMAIN child, NEW from, NEW to \in States,
         Signal(p, from, to)
  PROVE  \E s \in States : /\ s = (IF child[p].state \in from THEN to ELSE child[p].state)
                           /\ child' = [child EXCEPT ![p].state = s]
<1>. DEFINE s == IF child[p].state \in from THEN to ELSE child[p].state
<1>1. child[p] \in Child
  OBVIOUS
<1>2. s \in States
  BY <1>1 DEF Child
<1>3. child' = [child EXCEPT ![p].state = s]
  BY DEF Signal
<1>. QED
  BY <1>2, <1>3

\* A child that stopped is no longer waited for.
LEMMA Released ==
  ASSUME child \in Seq(Child), NEW p \in DOMAIN child
  PROVE  LET after == [child EXCEPT ![p] = [@ EXCEPT !.foreground = FALSE]]
         IN  /\ after \in Seq(Child) /\ Len(after) = Len(child)
             /\ \A q \in DOMAIN child : /\ after[q].line = child[q].line
                                        /\ after[q].foreground = (child[q].foreground /\ q # p)
                                        /\ after[q].state = child[q].state
<1>. DEFINE c == [child[p] EXCEPT !.foreground = FALSE]
            after == [child EXCEPT ![p] = c]
<1>1. \A q \in DOMAIN child : child[q] \in Child
  OBVIOUS
<1>2. c \in Child /\ c.line = child[p].line /\ c.state = child[p].state /\ c.foreground = FALSE
  BY <1>1 DEF Child
<1>3. [child EXCEPT ![p] = [@ EXCEPT !.foreground = FALSE]] = after
  OBVIOUS
<1>. HIDE DEF c
<1>4. after \in Seq(Child) /\ Len(after) = Len(child) /\ after[p] = c
      /\ \A q \in DOMAIN child : q # p => after[q] = child[q]
  BY <1>2
<1>5. \A q \in DOMAIN child : child[q].foreground \in BOOLEAN
  BY <1>1 DEF Child
<1>. HIDE DEF after
<1>6. \A q \in DOMAIN child : after[q].foreground = (child[q].foreground /\ q # p)
  BY <1>2, <1>4, <1>5
<1>. QED
  BY <1>2, <1>3, <1>4, <1>6

\* What a wait does to the child that it takes.
LEMMA Waited ==
  ASSUME child \in Seq(Child), NEW p \in DOMAIN child,
         \/ child' = [child EXCEPT ![p].state = "reaped"]
         \/ child' = [child EXCEPT ![p] = [@ EXCEPT !.foreground = FALSE]]
  PROVE  /\ child' \in Seq(Child) /\ Len(child') = Len(child)
         /\ \A q \in DOMAIN child : child'[q].line = child[q].line
<1>1. CASE child' = [child EXCEPT ![p].state = "reaped"]
  BY <1>1, Restated, "reaped" \in States DEF States
<1>2. CASE child' = [child EXCEPT ![p] = [@ EXCEPT !.foreground = FALSE]]
  BY <1>2, Released
<1>. QED
  BY <1>1, <1>2

\* waitpid takes the last child or leaves it stopped.
LEMMA WaitpidTakes ==
  ASSUME TypeOK, child # <<>>, WaitpidReturns
  PROVE  /\ Len(child) \in DOMAIN child
         /\ \/ Ended(Len(child)) /\ child' = [child EXCEPT ![Len(child)].state = "reaped"]
            \/ ~Ended(Len(child)) /\ child' = [child EXCEPT ![Len(child)] = [@ EXCEPT !.foreground = FALSE]]
<1>. DEFINE p == Len(child)
<1>1. p \in DOMAIN child
  BY DEF TypeOK
<1>2. child' = [child EXCEPT ![p] = IF Ended(p) THEN [@ EXCEPT !.state = "reaped"]
                                     ELSE [@ EXCEPT !.foreground = FALSE]]
  BY DEF WaitpidReturns
<1>3. CASE Ended(p)
  BY <1>1, <1>2, <1>3
<1>4. CASE ~Ended(p)
  BY <1>1, <1>2, <1>4
<1>. QED
  BY <1>1, <1>3, <1>4

\* A signal, or an end, that reaches a child.
Moves == \E p \in DOMAIN child, s \in States :
           /\ s = "reaped" <=> child[p].state = "reaped"
           /\ child' = [child EXCEPT ![p].state = s]

LEMMA SignalsMove ==
  ASSUME TypeOK, Command \/ ChildMoves
  PROVE  /\ Moves
         /\ shell # "exited" /\ UNCHANGED <<history, shell, job>>
<1>1. child \in Seq(Child)
  BY DEF TypeOK
<1>2. ASSUME NEW p \in DOMAIN child, NEW from, NEW to \in States \ {"reaped"},
             "reaped" \notin from, Signal(p, from, to)
      PROVE  Moves
  <2>1. PICK s \in States : /\ s = (IF child[p].state \in from THEN to ELSE child[p].state)
                            /\ child' = [child EXCEPT ![p].state = s]
    BY <1>1, <1>2, Signalled
  <2>. QED
    BY <1>2, <2>1 DEF Moves
<1>3. PICK p \in DOMAIN child :
        \/ Signal(p, {"running", "stopped"}, "succeeded") \/ Signal(p, {"running"}, "stopped")
        \/ Signal(p, {"stopped"}, "running") \/ Signal(p, {"running"}, "succeeded")
        \/ Signal(p, {"running"}, "died")
  BY DEF Command, ChildMoves
<1>. QED
  BY <1>2, <1>3 DEF States, Command, ChildMoves
-----------------------------------------------------------------------------
LEMMA RunLineIInv ==
  ASSUME IInv, shell = "prompt", NEW l \in Lines, RunLine(l) PROVE IInv'
<1>. DEFINE e == [line |-> l, pid |-> ShellPid]
<1>1. e \in Entry /\ e.line = l /\ e.pid = ShellPid
  BY DEF Entry
<1>2. history' = Append(history, e) /\ history \in Seq(Entry) /\ child \in Seq(Child)
      /\ shell' = "run" /\ job' = [line |-> l, part |-> 1] /\ child' = child
  BY DEF RunLine, IInv, TypeOK
<1>. HIDE DEF e
<1>3. /\ history' \in Seq(Entry) /\ DOMAIN history' = 1..Len(history) + 1
      /\ Len(history) \in Nat /\ DOMAIN history = 1..Len(history)
      /\ history'[Len(history) + 1] = e
      /\ \A n \in DOMAIN history : history'[n] = history[n]
  BY <1>1, <1>2
<1>4. \A n \in DOMAIN history' : n \notin DOMAIN history => n = Len(history) + 1
  BY <1>3
<1>5. \A p \in DOMAIN child : p # ShellPid
  <2>1. ShellPid \notin Nat
    BY ShellAssumption
  <2>. QED
    BY <1>2, <2>1
<1>6. TypeOK' /\ CallKnown'
  <2>1. job' \in [line : Lines, part : {1, 2}] /\ job'.line = l /\ job'.part = 1
    BY <1>2
  <2>2. \E n \in DOMAIN history' : history'[n].line = job'.line
    BY <1>1, <1>3, <2>1
  <2>. QED
    BY <1>2, <1>3, <2>1, <2>2 DEF TypeOK, CallKnown, InCall
<1>7. PidsKnown'
  <2>. SUFFICES ASSUME NEW n \in DOMAIN history'
                PROVE  /\ history'[n].pid \in {ShellPid, 0, -1} \cup DOMAIN child
                       /\ history'[n].pid \in DOMAIN child
                              => child[history'[n].pid].line = history'[n].line
    BY <1>2 DEF PidsKnown
  <2>1. CASE n \in DOMAIN history
    BY <1>3, <2>1 DEF IInv, PidsKnown
  <2>2. CASE n = Len(history) + 1
    BY <1>1, <1>3, <1>5, <2>2
  <2>. QED
    BY <1>4, <2>1, <2>2
<1>8. LastingNamed'
  <2>. SUFFICES ASSUME NEW p \in DOMAIN child, Lasting(child[p].line)
                PROVE  Named(p, history', child)
    BY <1>2 DEF LastingNamed
  <2>1. Named(p, history, child)
    BY DEF IInv, LastingNamed
  <2>2. DOMAIN history \subseteq DOMAIN history'
    BY <1>3
  <2>. QED
    BY <1>3, <2>1, <2>2 DEF Named
<1>. QED
  BY <1>2, <1>6, <1>7, <1>8 DEF IInv, External, NamedKilled

LEMMA ExitIInv == ASSUME IInv, Exit PROVE IInv'
<1>1. /\ shell' = "exited" /\ UNCHANGED <<history, job>> /\ child \in Seq(Child)
      /\ shell = "prompt"
      /\ child' = [p \in DOMAIN child |->
                     IF p \in Killed(history) /\ ~Ended(p) /\ child[p].state # "reaped"
                     THEN [child[p] EXCEPT !.state = "succeeded"] ELSE child[p]]
  BY DEF Exit, IInv, TypeOK
<1>2. \A p \in DOMAIN child :
        /\ child'[p] \in Child /\ child'[p].line = child[p].line
        /\ p \in Killed(history) => child'[p].state \notin {"running", "stopped"}
  <2>. SUFFICES ASSUME NEW p \in DOMAIN child
                PROVE  /\ child'[p] \in Child /\ child'[p].line = child[p].line
                       /\ p \in Killed(history) => child'[p].state \notin {"running", "stopped"}
    OBVIOUS
  <2>1. child[p] \in Child
    BY <1>1
  <2>. DEFINE c == [child[p] EXCEPT !.state = "succeeded"]
  <2>2. c \in Child /\ c.line = child[p].line /\ c.state = "succeeded"
    BY <2>1 DEF Child, States
  <2>3. child'[p] = IF p \in Killed(history) /\ ~Ended(p) /\ child[p].state # "reaped"
                    THEN c ELSE child[p]
    BY <1>1
  <2>. HIDE DEF c
  <2>4. child[p].state \in {"running", "stopped"} => ~Ended(p) /\ child[p].state # "reaped"
    BY DEF Ended
  <2>. QED
    BY <2>1, <2>2, <2>3, <2>4
<1>3. /\ child' \in Seq(Child) /\ Len(child') = Len(child) /\ DOMAIN child' = DOMAIN child
  BY <1>1, <1>2
<1>4. TypeOK' /\ CallKnown' /\ PidsKnown' /\ External'
  BY <1>1, <1>2, <1>3 DEF IInv, TypeOK, CallKnown, PidsKnown, External, InCall
<1>5. LastingNamed'
  <2>. SUFFICES ASSUME NEW p \in DOMAIN child, Lasting(child[p].line)
                PROVE  Named(p, history', child')
    BY <1>2, <1>3 DEF LastingNamed
  <2>1. Named(p, history, child)
    BY <1>1 DEF IInv, LastingNamed
  <2>2. \A q \in p + 1 .. Len(child) : q \in DOMAIN child
    BY <1>1
  <2>. QED
    BY <1>1, <1>2, <1>3, <2>1, <2>2 DEF Named
<1>6. NamedKilled'
  <2>. SUFFICES ASSUME NEW n \in DOMAIN history, history[n].pid \in DOMAIN child
                PROVE  child'[history[n].pid].state \notin {"running", "stopped"}
    BY <1>1, <1>3 DEF NamedKilled
  <2>1. history[n].pid # ShellPid
    <3>1. ShellPid \notin Nat
      BY ShellAssumption
    <3>. QED
      BY <1>1, <3>1
  <2>2. history[n].pid \in Killed(history)
    BY <2>1 DEF Killed
  <2>. QED
    BY <1>2, <2>2
<1>. QED
  BY <1>4, <1>5, <1>6 DEF IInv

\* A fork in whose child the shell waits.
LEMMA ForkAndWaitIInv == ASSUME IInv, RunAndWait \/ Redirect PROVE IInv'
<1>0. TypeOK /\ child \in Seq(Child) /\ Len(child) \in Nat /\ InCall
  <2>1. shell = "run"
    BY DEF RunAndWait, Redirect, StartsExternal
  <2>. QED
    BY <2>1 DEF IInv, TypeOK, InCall
<1>1. /\ StartsExternal /\ Fork(TRUE) /\ UNCHANGED <<history, job>> /\ shell = "run"
      /\ \/ shell' = "waitpid" /\ ~job.line.zombie /\ job.line.mode < 4
         \/ shell' = "wait" /\ job.line.mode >= 4
  BY DEF RunAndWait, Redirect, StartsExternal
<1>2. /\ Grows /\ Len(child') = Len(child) + 1 /\ child'[Len(child')].line = job.line
      /\ \A q \in DOMAIN child : child'[q] = child[q]
  BY <1>0, <1>1, Forked
<1>3. /\ child' \in Seq(Child) /\ DOMAIN child' = 1..Len(child) + 1 /\ DOMAIN child = 1..Len(child)
      /\ Len(child') # 0 /\ child' # <<>>
  BY <1>0, <1>2 DEF Grows
<1>4. /\ job.part \in {1, 2}
      /\ job.part = 2 => job.line.mode \in {1, 2, 3}
      /\ job.line.mode >= 4 \/ job.line.words[job.part] = "external"
      /\ job.line \in Lines /\ job.line.mode \in 0..6
  <2>1. job.line \in Lines
    BY <1>0 DEF TypeOK
  <2>. QED
    BY <1>0, <1>1, <2>1, ShellAssumption DEF TypeOK, StartsExternal
<1>5. TypeOK'
  BY <1>0, <1>1, <1>3 DEF TypeOK, InCall
<1>6. CallKnown'
  <2>1. shell' = "waitpid" => ~Lasting(job.line)
    BY <1>1, <1>4 DEF Lasting
  <2>2. shell' = "wait" => Lasting(job.line)
    BY <1>1, <1>4 DEF Lasting
  <2>. QED
    BY <1>0, <1>1, <1>2, <1>3, <2>1, <2>2 DEF CallKnown, IInv, InCall
<1>7. \A p \in DOMAIN child' : p \notin DOMAIN child => p = Len(child')
  BY <1>0, <1>2, <1>3
<1>8. PidsKnown'
  <2>1. \A q \in DOMAIN child' : q \notin {ShellPid, 0, -1}
    <3>1. ShellPid \notin Nat
      BY ShellAssumption
    <3>. QED
      BY <1>0, <1>3, <3>1
  <2>2. DOMAIN child \subseteq DOMAIN child'
    BY <1>0, <1>3
  <2>. QED
    BY <1>1, <1>2, <2>1, <2>2 DEF IInv, PidsKnown
<1>9. External'
  <2>1. job.line.mode = 0 => job.line.words[1] = "external"
    BY <1>4
  <2>. QED
    BY <1>2, <1>7, <2>1 DEF IInv, External
<1>10. LastingNamed'
  <2>. SUFFICES ASSUME NEW p \in DOMAIN child', Lasting(child'[p].line)
                PROVE  Named(p, history', child') \/ (shell' = "wait" /\ p = Len(child'))
    BY DEF LastingNamed
  <2>1. CASE p \in DOMAIN child
    <3>1. Named(p, history, child)
      BY <1>1, <1>2, <2>1 DEF IInv, LastingNamed
    <3>2. \A q \in p + 1 .. Len(child) : q \in DOMAIN child /\ q \in p + 1 .. Len(child')
      BY <1>0, <1>2, <1>3, <2>1
    <3>. QED
      BY <1>1, <1>2, <2>1, <3>1, <3>2 DEF Named
  <2>2. CASE p = Len(child')
    BY <1>1, <1>2, <1>4, <2>2 DEF Lasting
  <2>. QED
    BY <1>7, <2>1, <2>2
<1>. QED
  BY <1>1, <1>5, <1>6, <1>8, <1>9, <1>10 DEF IInv, NamedKilled

LEMMA NextIInv == IInv /\ [ShellNext]_shellVars => IInv'
<1>. SUFFICES ASSUME IInv, [ShellNext]_shellVars PROVE IInv'
  OBVIOUS
<1>0. TypeOK /\ child \in Seq(Child) /\ Len(child) \in Nat
  BY DEF IInv, TypeOK
<1>1. ASSUME NEW l \in Lines, shell = "prompt", RunLine(l) PROVE IInv'
  BY <1>1, RunLineIInv
<1>2. ASSUME RunAgain PROVE IInv'
  <2>1. PICK n \in DOMAIN history : RunLine(history[n].line)
    BY <1>2 DEF RunAgain
  <2>2. history[n] \in Entry
    BY <1>0 DEF TypeOK
  <2>3. history[n].line \in Lines
    BY <2>2 DEF Entry
  <2>. QED
    BY <1>2, <2>1, <2>3, RunLineIInv DEF RunAgain
<1>3. ASSUME RunPastHistory \/ ForkFails PROVE IInv'
  BY <1>0, <1>3, SameInCall DEF RunPastHistory, ForkFails, StartsExternal
<1>4. ASSUME Builtin PROVE IInv'
  <2>1. PICK pid \in {0, -1} : GoOn(pid)
    BY <1>4 DEF Builtin
  <2>2. /\ InCall /\ shell = "run" /\ child' = child /\ Grows
        /\ job.part \in {1, 2}
        /\ job.part = 2 => job.line.mode \in {1, 2, 3}
    BY <1>0, <1>4 DEF Builtin, InCall, TypeOK, Grows
  <2>3. ~Lasting(job.line)
    <3>1. job.line.words[job.part] = "cd" /\ job.line.mode < 4
      BY <1>4 DEF Builtin
    <3>4. job.line.mode \in 0..6
      <4>1. job.line \in Lines
        BY <1>0, <2>2 DEF TypeOK, InCall
      <4>. QED
        BY <4>1, ShellAssumption
    <3>2. CASE job.part = 1
      BY <3>1, <3>2, <3>4 DEF Lasting
    <3>3. CASE job.part = 2
      BY <2>2, <3>3 DEF Lasting
    <3>. QED
      BY <2>2, <3>2, <3>3
  <2>4. pid \notin DOMAIN child
    BY <1>0
  <2>. QED
    BY <2>1, <2>2, <2>3, <2>4, GoOnIInv
<1>5. ASSUME RunInBackground PROVE IInv'
  <2>1. InCall /\ shell = "run" /\ StartsExternal /\ Fork(FALSE) /\ GoOn(Len(child) + 1)
    BY <1>5 DEF RunInBackground, StartsExternal, InCall
  <2>2. Grows /\ Len(child') = Len(child) + 1 /\ child'[Len(child')].line = job.line
    BY <1>0, <2>1, Forked
  <2>. QED
    BY <1>0, <2>1, <2>2, GoOnIInv
<1>6. ASSUME RunAndWait \/ Redirect PROVE IInv'
  BY <1>6, ForkAndWaitIInv
<1>7. ASSUME WaitpidReturns PROVE IInv'
  <2>. DEFINE p == Len(child)
              pid == IF child[p].state = "succeeded" THEN p ELSE -1
  <2>1. InCall /\ shell = "waitpid" /\ child # <<>> /\ child[p].line = job.line /\ ~Lasting(job.line)
    BY <1>7 DEF WaitpidReturns, InCall, IInv, CallKnown
  <2>2. p \in DOMAIN child /\ p >= 1
    BY <1>0, <2>1
  <2>3. /\ child' \in Seq(Child) /\ Len(child') = Len(child)
        /\ \A q \in DOMAIN child : child'[q].line = child[q].line
    BY <1>0, <1>7, <2>1, WaitpidTakes, Waited
  <2>4. Grows
    BY <2>3 DEF Grows
  <2>5. GoOn(pid) /\ pid \in {-1, p} /\ DOMAIN child' = DOMAIN child
    BY <1>0, <1>7, <2>3 DEF WaitpidReturns
  <2>6. -1 \notin DOMAIN child /\ child'[p].line = job.line
    BY <1>0, <2>1, <2>2, <2>3
  <2>. HIDE DEF pid
  <2>. QED
    BY <2>1, <2>2, <2>3, <2>4, <2>5, <2>6, GoOnIInv
<1>8. ASSUME WaitReturns PROVE IInv'
  <2>1. InCall /\ shell = "wait" /\ child # <<>> /\ child[Len(child)].line = job.line
        /\ GoOn(Len(child))
    BY <1>8 DEF WaitReturns, InCall, IInv, CallKnown
  <2>2. Len(child) \in DOMAIN child /\ Len(child) >= 1
    BY <1>0, <2>1
  <2>3. /\ child' \in Seq(Child) /\ Len(child') = Len(child)
        /\ \A q \in DOMAIN child : child'[q].line = child[q].line
    BY <1>0, <1>8, Waited DEF WaitReturns
  <2>4. Grows
    BY <2>3 DEF Grows
  <2>. QED
    BY <2>1, <2>2, <2>3, <2>4, GoOnIInv
<1>9. ASSUME Command \/ ChildMoves PROVE IInv'
  <2>1. Moves /\ shell # "exited" /\ UNCHANGED <<history, shell, job>>
    BY <1>0, <1>9, SignalsMove
  <2>2. /\ child' \in Seq(Child) /\ Len(child') = Len(child)
        /\ \A q \in DOMAIN child : child'[q].line = child[q].line
    <3>1. PICK p \in DOMAIN child, s \in States : child' = [child EXCEPT ![p].state = s]
      BY <2>1 DEF Moves
    <3>. QED
      BY <1>0, <3>1, Restated
  <2>. QED
    BY <2>1, <2>2, SameInCall
<1>10. ASSUME Exit PROVE IInv'
  BY <1>10, ExitIInv
<1>11. CASE UNCHANGED shellVars
  BY <1>0, <1>11, SameInCall DEF shellVars, IInv, TypeOK, CallKnown, PidsKnown, External, LastingNamed, NamedKilled, Named, InCall
<1>. QED
  BY <1>1, <1>2, <1>3, <1>4, <1>5, <1>6, <1>7, <1>8, <1>9, <1>10, <1>11 DEF ShellNext, TypeLine

(* A single line in the background that was typed once, and a redirection,    *)
(* never survive the shell, whatever was typed in between.                    *)
THEOREM NobodyLeftBehind == ShellSpec => []LeftBehind
<1>1. IInv => LeftBehind
  <2>. SUFFICES ASSUME IInv, shell = "exited", NEW p \in DOMAIN child,
                       child[p].state \in {"running", "stopped"}
                PROVE  \/ child[p].line.mode \in {1, 2, 3}
                       \/ ~child[p].line.zombie /\ child[p].line.mode = 0
                       \/ \E q \in p + 1 .. Len(child) : child[q].line.text = child[p].line.text
    BY DEF LeftBehind
  <2>1. child[p] \in Child
    BY DEF IInv, TypeOK
  <2>2. child[p].line \in Lines
    BY <2>1 DEF Child
  <2>3. child[p].line.mode \in 0..6 /\ child[p].line.zombie \in BOOLEAN
    BY <2>2, ShellAssumption
  <2>4. CASE Lasting(child[p].line)
    <3>1. Named(p, history, child)
      BY <2>4 DEF IInv, LastingNamed
    <3>2. \A n \in DOMAIN history : history[n].pid # p
      BY DEF IInv, NamedKilled
    <3>. QED
      BY <3>1, <3>2 DEF Named
  <2>5. CASE ~Lasting(child[p].line)
    BY <2>3, <2>5 DEF IInv, External, Lasting
  <2>. QED
    BY <2>4, <2>5
<1>. QED
  BY <1>1, InitIInv, NextIInv, PTL DEF ShellSpec
-----------------------------------------------------------------------------
\* Children of the foreground that nobody waited for, and the others of which
\* the status was taken.
Unwaited == Foreground \ Reaped
Extra == Reaped \ Foreground

\* While a call waits, one child more is unwaited for; waitpid has chosen it.
Even == /\ shell \notin {"waitpid", "wait"} => Cardinality(Unwaited) = Cardinality(Extra)
        /\ shell = "waitpid" => /\ Len(child) \in Unwaited
                                /\ Cardinality(Unwaited) = Cardinality(Extra) + 1
        /\ shell = "wait" => Cardinality(Unwaited) = Cardinality(Extra) + 1

LEMMA FiniteCounts == ASSUME child \in Seq(Child)
                      PROVE  /\ IsFiniteSet(Unwaited) /\ IsFiniteSet(Extra)
                             /\ Cardinality(Unwaited) \in Nat /\ Cardinality(Extra) \in Nat
<1>1. Unwaited \subseteq 1..Len(child) /\ Extra \subseteq 1..Len(child) /\ Len(child) \in Nat
  BY DEF Unwaited, Extra, Foreground, Reaped
<1>2. IsFiniteSet(1..Len(child))
  BY <1>1, FS_Interval
<1>3. IsFiniteSet(Unwaited) /\ IsFiniteSet(Extra)
  BY <1>1, <1>2, FS_Subset
<1>. QED
  BY <1>3, FS_CardinalityType

\* The sets of children whose entries a step leaves, but for one.
LEMMA SameCounts ==
  ASSUME child \in Seq(Child), child' \in Seq(Child), Len(child') = Len(child),
         \A q \in DOMAIN child : /\ child'[q].foreground = child[q].foreground
                                 /\ child'[q].state = "reaped" <=> child[q].state = "reaped"
  PROVE  Unwaited' = Unwaited /\ Extra' = Extra
<1>1. DOMAIN child' = DOMAIN child
  OBVIOUS
<1>. QED
  BY <1>1 DEF Unwaited, Extra, Foreground, Reaped

LEMMA ForkCounts ==
  ASSUME TypeOK, InCall, NEW foreground \in BOOLEAN, Fork(foreground), StartsExternal
  PROVE  /\ Extra' = Extra
         /\ Unwaited' = IF foreground THEN Unwaited \cup {Len(child) + 1} ELSE Unwaited
         /\ Len(child) + 1 \notin Unwaited /\ Len(child') = Len(child) + 1
<1>1. /\ child \in Seq(Child) /\ child' \in Seq(Child) /\ Len(child') = Len(child) + 1
      /\ child'[Len(child')].foreground = foreground /\ child'[Len(child')].state = "running"
      /\ \A q \in DOMAIN child : child'[q] = child[q]
  BY Forked DEF TypeOK, Grows
<1>2. /\ DOMAIN child = 1..Len(child) /\ DOMAIN child' = 1..Len(child) + 1
      /\ Len(child) \in Nat
  BY <1>1
<1>3. DOMAIN child' = DOMAIN child \cup {Len(child) + 1} /\ Len(child) + 1 \notin DOMAIN child
  BY <1>2
<1>. QED
  BY <1>1, <1>3 DEF Unwaited, Extra, Foreground, Reaped

\* Taking the status of a child.
LEMMA ReapCounts ==
  ASSUME child \in Seq(Child), NEW p \in DOMAIN child, child[p].state # "reaped",
         child' = [child EXCEPT ![p].state = "reaped"]
  PROVE  /\ p \in Foreground => Unwaited' = Unwaited \ {p} /\ Extra' = Extra /\ p \in Unwaited
         /\ p \notin Foreground => Unwaited' = Unwaited /\ Extra' = Extra \cup {p} /\ p \notin Extra
<1>1. /\ child' \in Seq(Child) /\ Len(child') = Len(child)
      /\ \A q \in DOMAIN child : /\ child'[q].foreground = child[q].foreground
                                 /\ child'[q].state = IF q = p THEN "reaped" ELSE child[q].state
  BY Restated, "reaped" \in States DEF States
<1>2. DOMAIN child' = DOMAIN child
  BY <1>1
<1>3. Foreground' = Foreground /\ Reaped' = Reaped \cup {p} /\ p \notin Reaped
  BY <1>1, <1>2 DEF Foreground, Reaped
<1>. QED
  BY <1>3 DEF Unwaited, Extra

LEMMA NextEven == IInv /\ Even /\ [ShellNext]_shellVars => Even'
<1>. SUFFICES ASSUME IInv, Even, [ShellNext]_shellVars PROVE Even'
  OBVIOUS
<1>0. TypeOK /\ child \in Seq(Child) /\ Len(child) \in Nat
  BY DEF IInv, TypeOK
<1>. DEFINE u == Cardinality(Unwaited)
            e == Cardinality(Extra)
<1>f. IsFiniteSet(Unwaited) /\ IsFiniteSet(Extra) /\ u \in Nat /\ e \in Nat
  BY <1>0, FiniteCounts
<1>1. ASSUME UNCHANGED child, shell \notin {"waitpid", "wait"}, shell' \notin {"waitpid", "wait"}
      PROVE  Even'
  BY <1>1 DEF Even, Unwaited, Extra, Foreground, Reaped
<1>2. TypeLine \/ RunAgain \/ RunPastHistory \/ Builtin \/ ForkFails => Even'
  BY <1>1 DEF TypeLine, RunAgain, RunLine, RunPastHistory, Builtin, ForkFails, StartsExternal, GoOn
<1>3. ASSUME RunInBackground PROVE Even'
  <2>1. InCall /\ StartsExternal /\ Fork(FALSE) /\ shell = "run" /\ shell' \in {"run", "prompt"}
    BY <1>3 DEF RunInBackground, StartsExternal, InCall, GoOn
  <2>2. Unwaited' = Unwaited /\ Extra' = Extra
    BY <1>0, <2>1, ForkCounts
  <2>. QED
    BY <2>1, <2>2 DEF Even
<1>4. ASSUME RunAndWait \/ Redirect PROVE Even'
  <2>1. /\ InCall /\ StartsExternal /\ Fork(TRUE) /\ shell = "run"
        /\ shell' \in {"waitpid", "wait"}
    BY <1>4 DEF RunAndWait, Redirect, StartsExternal, InCall
  <2>2. /\ Unwaited' = Unwaited \cup {Len(child) + 1} /\ Extra' = Extra
        /\ Len(child) + 1 \notin Unwaited /\ Len(child') = Len(child) + 1
    BY <1>0, <2>1, ForkCounts
  <2>3. Cardinality(Unwaited') = u + 1
    BY <1>f, <2>2, FS_AddElement
  <2>. QED
    BY <2>1, <2>2, <2>3 DEF Even
<1>5. ASSUME WaitpidReturns PROVE Even'
  <2>. DEFINE p == Len(child)
  <2>1. shell = "waitpid" /\ shell' \in {"run", "prompt"} /\ p \in Unwaited /\ u = e + 1
    BY <1>5 DEF WaitpidReturns, GoOn, Even
  <2>2. child # <<>> /\ p \in Foreground /\ child[p].state # "reaped" /\ p \in DOMAIN child
    BY <1>0, <2>1 DEF Unwaited, Foreground, Reaped
  <2>3. Unwaited' = Unwaited \ {p} /\ Extra' = Extra
    <3>1. CASE child' = [child EXCEPT ![p].state = "reaped"]
      BY <1>0, <2>2, <3>1, ReapCounts
    <3>2. CASE child' = [child EXCEPT ![p] = [@ EXCEPT !.foreground = FALSE]]
      <4>1. /\ child' \in Seq(Child) /\ Len(child') = Len(child)
            /\ \A q \in DOMAIN child : /\ child'[q].foreground = (child[q].foreground /\ q # p)
                                       /\ child'[q].state = child[q].state
        BY <1>0, <2>2, <3>2, Released
      <4>2. DOMAIN child' = DOMAIN child
        BY <1>0, <4>1
      <4>3. Foreground' = Foreground \ {p} /\ Reaped' = Reaped /\ p \notin Reaped
        BY <2>2, <4>1, <4>2 DEF Foreground, Reaped
      <4>. QED
        BY <4>3 DEF Unwaited, Extra
    <3>. QED
      BY <1>0, <1>5, <2>2, <3>1, <3>2, WaitpidTakes
  <2>4. Cardinality(Unwaited') = u - 1
    BY <1>f, <2>1, <2>3, FS_RemoveElement
  <2>. QED
    BY <1>f, <2>1, <2>3, <2>4 DEF Even
<1>6. ASSUME WaitReturns PROVE Even'
  <2>1. shell = "wait" /\ shell' \in {"run", "prompt"} /\ u = e + 1
    BY <1>6 DEF WaitReturns, GoOn, Even
  <2>2. PICK p \in DOMAIN child : child[p].state # "reaped" /\ child' = [child EXCEPT ![p].state = "reaped"]
    BY <1>6 DEF WaitReturns, Ended
  <2>3. CASE p \in Foreground
    <3>1. Unwaited' = Unwaited \ {p} /\ Extra' = Extra /\ p \in Unwaited
      BY <1>0, <2>2, <2>3, ReapCounts
    <3>2. Cardinality(Unwaited') = u - 1
      BY <1>f, <3>1, FS_RemoveElement
    <3>. QED
      BY <1>f, <2>1, <3>1, <3>2 DEF Even
  <2>4. CASE p \notin Foreground
    <3>1. Unwaited' = Unwaited /\ Extra' = Extra \cup {p} /\ p \notin Extra
      BY <1>0, <2>2, <2>4, ReapCounts
    <3>2. Cardinality(Extra') = e + 1
      BY <1>f, <3>1, FS_AddElement
    <3>. QED
      BY <1>f, <2>1, <3>1, <3>2 DEF Even
  <2>. QED
    BY <2>3, <2>4
<1>7. ASSUME Command \/ ChildMoves PROVE Even'
  <2>1. Moves /\ UNCHANGED shell
    BY <1>0, <1>7, SignalsMove
  <2>2. PICK p \in DOMAIN child, s \in States : /\ s = "reaped" <=> child[p].state = "reaped"
                                                /\ child' = [child EXCEPT ![p].state = s]
    BY <2>1 DEF Moves
  <2>3. /\ child' \in Seq(Child) /\ Len(child') = Len(child)
        /\ \A q \in DOMAIN child : /\ child'[q].foreground = child[q].foreground
                                   /\ child'[q].state = IF q = p THEN s ELSE child[q].state
    BY <1>0, <2>2, Restated
  <2>4. Unwaited' = Unwaited /\ Extra' = Extra
    BY <1>0, <2>2, <2>3, SameCounts
  <2>. QED
    BY <2>1, <2>3, <2>4 DEF Even
<1>8. ASSUME Exit PROVE Even'
  <2>1. /\ shell = "prompt" /\ shell' = "exited"
        /\ child' = [p \in DOMAIN child |->
                       IF p \in Killed(history) /\ ~Ended(p) /\ child[p].state # "reaped"
                       THEN [child[p] EXCEPT !.state = "succeeded"] ELSE child[p]]
    BY <1>8 DEF Exit
  <2>2. \A p \in DOMAIN child : /\ child'[p].foreground = child[p].foreground
                                /\ child'[p].state = "reaped" <=> child[p].state = "reaped"
    <3>. SUFFICES ASSUME NEW p \in DOMAIN child
                  PROVE  /\ child'[p].foreground = child[p].foreground
                         /\ child'[p].state = "reaped" <=> child[p].state = "reaped"
      OBVIOUS
    <3>. DEFINE c == [child[p] EXCEPT !.state = "succeeded"]
    <3>1. child[p] \in Child
      BY <1>0
    <3>2. c.foreground = child[p].foreground /\ c.state = "succeeded"
      BY <3>1 DEF Child
    <3>3. child'[p] = IF p \in Killed(history) /\ ~Ended(p) /\ child[p].state # "reaped"
                      THEN c ELSE child[p]
      BY <2>1
    <3>. HIDE DEF c
    <3>. QED
      BY <3>2, <3>3
  <2>3. child' \in Seq(Child) /\ Len(child') = Len(child)
    <3>1. TypeOK'
      BY <1>8, ExitIInv DEF IInv
    <3>2. DOMAIN child' = DOMAIN child
      BY <2>1
    <3>. QED
      BY <1>0, <3>1, <3>2 DEF TypeOK
  <2>4. Unwaited' = Unwaited /\ Extra' = Extra
    BY <1>0, <2>2, <2>3, SameCounts
  <2>. QED
    BY <2>1, <2>4 DEF Even
<1>9. CASE UNCHANGED shellVars
  BY <1>9 DEF shellVars, Even, Unwaited, Extra, Foreground, Reaped
<1>. QED
  BY <1>2, <1>3, <1>4, <1>5, <1>6, <1>7, <1>8, <1>9 DEF ShellNext

(* Every wait takes exactly one child: at the prompt, as many commands of the *)
(* foreground are left behind as statuses of others were taken for theirs.    *)
THEOREM WaitsAreCounted == ShellSpec => []WaitsAreEven
<1>1. ShellInit => Even
  BY DEF ShellInit, Even, Unwaited, Extra, Foreground, Reaped
<1>2. Even => WaitsAreEven
  BY DEF Even, WaitsAreEven, Unwaited, Extra
<1>. QED
  BY <1>1, <1>2, InitIInv, NextIInv, NextEven, PTL DEF ShellSpec
-----------------------------------------------------------------------------
(* mini_memcheck.                                                             *)

Block == [at : Addresses, request_size : Sizes]
Asked(bs) == [k \in DOMAIN bs |-> bs[k].request_size]

\* The list and what the program holds, block by block.
Listed(bs, h) ==
  /\ bs \in Seq(Block) /\ DOMAIN h \subseteq Addresses
  /\ \A k \in DOMAIN bs : bs[k].at \in DOMAIN h /\ h[bs[k].at] = bs[k].request_size
  /\ \A a \in DOMAIN h : \E k \in DOMAIN bs : bs[k].at = a
  /\ \A j, k \in DOMAIN bs : bs[j].at = bs[k].at => j = k

MemInv ==
  ~unlinked => /\ Listed(blocks, held)
               /\ total_memory_requested \in Int /\ total_memory_freed \in Int
               /\ total_memory_requested - total_memory_freed = SumTo(Asked(blocks), Len(blocks))
               /\ invalid_addresses = wrong

LEMMA Blocks == \A b \in Block : b.at \in Addresses /\ b.request_size \in Sizes /\ b.request_size \in Int
                                /\ b = [at |-> b.at, request_size |-> b.request_size]
<1>. SUFFICES ASSUME NEW b \in Block
     PROVE /\ b.at \in Addresses /\ b.request_size \in Sizes /\ b.request_size \in Int
           /\ b = [at |-> b.at, request_size |-> b.request_size]
  OBVIOUS
<1>1. b.at \in Addresses /\ b.request_size \in Sizes
  BY DEF Block
<1>2. b = [at |-> b.at, request_size |-> b.request_size]
  BY DEF Block
<1>. QED
  BY <1>1, <1>2, MemCheckAssumption

LEMMA AskedInt == ASSUME NEW bs \in Seq(Block) PROVE \A k \in 1..Len(bs) : Asked(bs)[k] \in Int
<1>1. \A k \in 1..Len(bs) : bs[k] \in Block /\ Asked(bs)[k] = bs[k].request_size
  BY DEF Asked
<1>. QED
  BY <1>1, Blocks

LEMMA MemInitInv == MemInit => MemInv
<1>. SUFFICES ASSUME MemInit PROVE MemInv
  OBVIOUS
<1>1. Listed(<<>>, held) /\ Len(<<>>) = 0
  BY DEF MemInit, Listed
<1>2. SumTo(Asked(<<>>), 0) = 0
  <2>. DEFINE z == [k \in 0..0 |-> 0]
  <2>1. PartialSums(Asked(<<>>), 0, z) /\ z[0] = 0
    BY DEF PartialSums
  <2>. QED
    BY <2>1, SumIs
<1>. QED
  BY <1>1, <1>2 DEF MemInit, MemInv

\* Where a block is found, if the list and the program agree.
LEMMA Found ==
  ASSUME Listed(blocks, held), NEW p, Find(p) # 0
  PROVE  Find(p) \in DOMAIN blocks /\ blocks[Find(p)].at = p /\ p \in DOMAIN held
  BY DEF Find, Listed

LEMMA NotFound ==
  ASSUME Listed(blocks, held), NEW p
  PROVE  Find(p) = 0 <=> p \notin DOMAIN held
<1>1. 0 \notin DOMAIN blocks
  BY DEF Listed
<1>. QED
  BY <1>1 DEF Find, Listed

LEMMA InvalidKeeps ==
  ASSUME MemInv, ~unlinked, NEW p, Invalid(p)
  PROVE  MemInv'
<1>1. wrong' = wrong + 1 /\ UNCHANGED <<blocks, totals, held, unlinked>> /\ invalid_addresses' = invalid_addresses + 1
  BY NotFound DEF Invalid, MemInv
<1>. QED
  BY <1>1 DEF MemInv, totals

LEMMA MallocKeeps ==
  ASSUME MemInv, ~unlinked, NEW n \in Sizes, MiniMalloc(n)
  PROVE  MemInv'
<1>1. PICK a \in Addresses \ DOMAIN held :
        /\ blocks' = Append(blocks, [at |-> a, request_size |-> n])
        /\ total_memory_requested' = total_memory_requested + n
        /\ held' = Holding(a, n)
        /\ UNCHANGED <<total_memory_freed, invalid_addresses, wrong, unlinked>>
  BY DEF MiniMalloc
<1>. DEFINE b == [at |-> a, request_size |-> n]
<1>2. /\ Listed(blocks, held) /\ b \in Block /\ b.at = a /\ b.request_size = n /\ n \in Int
      /\ total_memory_requested \in Int /\ total_memory_freed \in Int
      /\ total_memory_requested - total_memory_freed = SumTo(Asked(blocks), Len(blocks))
  BY MemCheckAssumption DEF MemInv, Block
<1>. HIDE DEF b
<1>3. /\ blocks \in Seq(Block) /\ blocks' = Append(blocks, b) /\ blocks' \in Seq(Block) /\ Len(blocks') = Len(blocks) + 1
      /\ Len(blocks) \in Nat /\ DOMAIN blocks = 1..Len(blocks) /\ DOMAIN blocks' = 1..(Len(blocks) + 1)
      /\ blocks'[Len(blocks) + 1] = b /\ \A k \in DOMAIN blocks : blocks'[k] = blocks[k]
  BY <1>1, <1>2 DEF Listed, b
<1>4. DOMAIN held' = DOMAIN held \union {a} /\ held'[a] = n /\ \A c \in DOMAIN held : held'[c] = held[c]
  BY <1>1 DEF Holding
<1>5. Listed(blocks, held)'
  <2>1. DOMAIN blocks' = DOMAIN blocks \union {Len(blocks) + 1} /\ Len(blocks) + 1 \notin DOMAIN blocks
    BY <1>3
  <2>2. DOMAIN held' \subseteq Addresses
    BY <1>2, <1>4 DEF Listed
  <2>3. \A k \in DOMAIN blocks' : blocks'[k].at \in DOMAIN held' /\ held'[blocks'[k].at] = blocks'[k].request_size
    BY <1>2, <1>3, <1>4, <2>1 DEF Listed
  <2>4. \A c \in DOMAIN held' : \E k \in DOMAIN blocks' : blocks'[k].at = c
    BY <1>2, <1>3, <1>4, <2>1 DEF Listed
  <2>5. \A j, k \in DOMAIN blocks' : blocks'[j].at = blocks'[k].at => j = k
    BY <1>1, <1>2, <1>3, <2>1 DEF Listed
  <2>. QED
    BY <1>3, <2>2, <2>3, <2>4, <2>5 DEF Listed
<1>6. SumTo(Asked(blocks'), Len(blocks')) = SumTo(Asked(blocks), Len(blocks)) + n
  <2>1. \A k \in 1..(Len(blocks) + 1) : Asked(blocks')[k] \in Int
    BY <1>3, AskedInt
  <2>2. SumTo(Asked(blocks'), Len(blocks) + 1) = SumTo(Asked(blocks'), Len(blocks)) + Asked(blocks')[Len(blocks) + 1]
    BY <1>3, <2>1, SumNext
  <2>3. Asked(blocks')[Len(blocks) + 1] = n /\ \A k \in 1..Len(blocks) : Asked(blocks')[k] = Asked(blocks)[k]
    BY <1>2, <1>3 DEF Asked
  <2>4. \A k \in 1..Len(blocks) : Asked(blocks)[k] \in Int
    BY <1>3, AskedInt
  <2>5. SumTo(Asked(blocks'), Len(blocks)) = SumTo(Asked(blocks), Len(blocks))
    BY <1>3, <2>3, <2>4, SumSame
  <2>. QED
    BY <1>3, <2>2, <2>3, <2>5
<1>7. SumTo(Asked(blocks), Len(blocks)) \in Int
  BY <1>3, AskedInt, SumInt
<1>. QED
  BY <1>1, <1>2, <1>5, <1>6, <1>7 DEF MemInv

LEMMA FreeKeeps ==
  ASSUME MemInv, ~unlinked, NEW p, MiniFree(p)
  PROVE  MemInv'
<1>. SUFFICES ASSUME ~Invalid(p) PROVE MemInv'
  BY InvalidKeeps
<1>. DEFINE i == Find(p)
            n == Len(blocks)
<1>1. /\ i # 0 /\ blocks' = RemoveAt(blocks, i)
      /\ total_memory_freed' = total_memory_freed + blocks[i].request_size
      /\ held' = Dropping(p)
      /\ UNCHANGED <<total_memory_requested, invalid_addresses, wrong, unlinked>>
  BY DEF MiniFree
<1>2. /\ Listed(blocks, held) /\ blocks \in Seq(Block) /\ DOMAIN blocks = 1..n /\ n \in Nat
      /\ total_memory_requested \in Int /\ total_memory_freed \in Int
      /\ total_memory_requested - total_memory_freed = SumTo(Asked(blocks), n)
  BY DEF MemInv, Listed
<1>3. i \in 1..n /\ blocks[i].at = p /\ p \in DOMAIN held /\ blocks[i] \in Block
  BY <1>1, <1>2, Found
<1>. HIDE DEF i, n
<1>4. /\ blocks' \in Seq(Block) /\ Len(blocks') = n - 1 /\ n - 1 \in Nat /\ DOMAIN blocks' = 1..(n - 1)
      /\ \A k \in 1..(i - 1) : blocks'[k] = blocks[k]
      /\ \A k \in i..(n - 1) : blocks'[k] = blocks[k + 1]
  <2>1. blocks \in Seq(Block) /\ i \in 1..Len(blocks) /\ blocks' = RemoveAt(blocks, i)
    BY <1>1, <1>2, <1>3 DEF n
  <2>2. /\ blocks' \in Seq(Block) /\ Len(blocks') = Len(blocks) - 1
        /\ \A k \in 1..(i - 1) : blocks'[k] = blocks[k]
        /\ \A k \in i..(Len(blocks) - 1) : blocks'[k] = blocks[k + 1]
    BY <2>1, RemovedAt
  <2>3. DOMAIN blocks' = 1..Len(blocks') /\ Len(blocks') \in Nat
    BY <2>2
  <2>. QED
    BY <2>2, <2>3 DEF n
<1>5. DOMAIN held' = DOMAIN held \ {p} /\ \A c \in DOMAIN held \ {p} : held'[c] = held[c]
  BY <1>1 DEF Dropping
<1>6. Listed(blocks, held)'
  <2>. DEFINE old(k) == IF k < i THEN k ELSE k + 1
  <2>1. \A k \in DOMAIN blocks' : blocks'[k] = blocks[old(k)] /\ old(k) \in DOMAIN blocks /\ old(k) # i
    BY <1>2, <1>3, <1>4
  <2>2. \A k \in DOMAIN blocks : k # i => \E j \in DOMAIN blocks' : old(j) = k
    <3>. SUFFICES ASSUME NEW k \in DOMAIN blocks, k # i PROVE \E j \in DOMAIN blocks' : old(j) = k
      OBVIOUS
    <3>1. CASE k < i
      BY <1>2, <1>3, <1>4, <3>1
    <3>2. CASE k > i
      <4>1. k - 1 \in DOMAIN blocks' /\ old(k - 1) = k
        BY <1>2, <1>3, <1>4, <3>2
      <4>. QED
        BY <4>1
    <3>. QED
      BY <1>2, <1>3, <3>1, <3>2
  <2>3. \A j, k \in DOMAIN blocks' : old(j) = old(k) => j = k
    BY <1>3, <1>4
  <2>. HIDE DEF old
  <2>4. \A k \in DOMAIN blocks' : blocks'[k].at \in DOMAIN held' /\ held'[blocks'[k].at] = blocks'[k].request_size
    BY <1>2, <1>3, <1>5, <2>1 DEF Listed
  <2>5. \A c \in DOMAIN held' : \E k \in DOMAIN blocks' : blocks'[k].at = c
    BY <1>2, <1>3, <1>5, <2>1, <2>2 DEF Listed
  <2>6. \A j, k \in DOMAIN blocks' : blocks'[j].at = blocks'[k].at => j = k
    BY <1>2, <2>1, <2>3 DEF Listed
  <2>7. DOMAIN held' \subseteq Addresses
    BY <1>2, <1>5 DEF Listed
  <2>. QED
    BY <1>4, <2>4, <2>5, <2>6, <2>7 DEF Listed
<1>7. SumTo(Asked(blocks'), n - 1) = SumTo(Asked(blocks), n) - blocks[i].request_size
  <2>1. \A k \in 1..n : Asked(blocks)[k] \in Int
    BY <1>2, AskedInt DEF n
  <2>2. \A k \in 1..(i - 1) : Asked(blocks')[k] = Asked(blocks)[k]
    BY <1>2, <1>3, <1>4 DEF Asked
  <2>3. \A k \in i..(n - 1) : Asked(blocks')[k] = Asked(blocks)[k + 1]
    BY <1>2, <1>3, <1>4 DEF Asked
  <2>4. Asked(blocks)[i] = blocks[i].request_size
    BY <1>2, <1>3 DEF Asked
  <2>5. n \in Nat /\ i \in 1..n
    BY <1>2, <1>3
  <2>6. SumTo(Asked(blocks'), n - 1) = SumTo(Asked(blocks), n) - Asked(blocks)[i]
    BY <2>1, <2>2, <2>3, <2>5, SumRemoved
  <2>. QED
    BY <2>4, <2>6
<1>8. SumTo(Asked(blocks), n) \in Int /\ blocks[i].request_size \in Int
  BY <1>2, <1>3, AskedInt, SumInt, Blocks DEF n
<1>. QED
  BY <1>1, <1>2, <1>4, <1>6, <1>7, <1>8 DEF MemInv

LEMMA ReallocKeeps ==
  ASSUME MemInv, ~unlinked, NEW p, NEW n \in Sizes, MiniRealloc(p, n)
  PROVE  MemInv'
<1>. SUFFICES ASSUME ~Invalid(p), ~unlinked' PROVE MemInv'
  BY InvalidKeeps DEF MemInv
<1>. DEFINE i == Find(p)
<1>1. i # 0 /\ UNCHANGED <<invalid_addresses, wrong>>
  BY DEF MiniRealloc
<1>2. /\ Listed(blocks, held) /\ blocks \in Seq(Block) /\ DOMAIN blocks = 1..Len(blocks) /\ Len(blocks) \in Nat
      /\ total_memory_requested \in Int /\ total_memory_freed \in Int
      /\ total_memory_requested - total_memory_freed = SumTo(Asked(blocks), Len(blocks))
  BY DEF MemInv, Listed
<1>3. /\ i \in DOMAIN blocks /\ blocks[i].at = p /\ p \in DOMAIN held /\ blocks[i] \in Block
      /\ blocks[i].request_size \in Int /\ n \in Int
  <2>1. i \in DOMAIN blocks /\ blocks[i].at = p /\ p \in DOMAIN held
    BY <1>1, <1>2, Found
  <2>2. blocks[i] \in Block
    BY <1>2, <2>1
  <2>. QED
    BY <2>1, <2>2, Blocks, MemCheckAssumption
<1>4. CASE blocks[i].request_size = n /\ held' = Holding(p, n) /\ UNCHANGED <<blocks, totals>>
  <2>1. held[p] = n
    BY <1>2, <1>3, <1>4 DEF Listed
  <2>2. DOMAIN held' = DOMAIN held /\ \A c \in DOMAIN held : held'[c] = held[c]
    BY <1>3, <1>4, <2>1 DEF Holding
  <2>3. Listed(blocks, held)'
    BY <1>2, <1>4, <2>2 DEF Listed
  <2>. QED
    BY <1>1, <1>4, <2>3 DEF MemInv, totals
<1>5. CASE /\ blocks[i].request_size # n /\ Resized(blocks[i].request_size, n)
           /\ blocks' = [blocks EXCEPT ![i].request_size = n] /\ held' = Holding(p, n)
  <2>. DEFINE b == [blocks[i] EXCEPT !.request_size = n]
  <2>1. b \in Block /\ b.at = p /\ b.request_size = n
    BY <1>3 DEF Block
  <2>. HIDE DEF b
  <2>2. /\ blocks' \in Seq(Block) /\ DOMAIN blocks' = DOMAIN blocks /\ Len(blocks') = Len(blocks)
        /\ blocks'[i] = b /\ \A k \in DOMAIN blocks : k # i => blocks'[k] = blocks[k]
    <3>1. blocks' = [blocks EXCEPT ![i] = b]
      BY <1>5 DEF b
    <3>. QED
      BY <1>2, <1>3, <2>1, <3>1
  <2>3. DOMAIN held' = DOMAIN held /\ held'[p] = n /\ \A c \in DOMAIN held : c # p => held'[c] = held[c]
    BY <1>3, <1>5 DEF Holding
  <2>4. \A k \in DOMAIN blocks : blocks[k].at = p => k = i
    BY <1>2, <1>3 DEF Listed
  <2>5. \A k \in DOMAIN blocks : blocks'[k].at = blocks[k].at
    BY <1>3, <2>1, <2>2
  <2>6. ASSUME NEW k \in DOMAIN blocks PROVE held'[blocks'[k].at] = blocks'[k].request_size
    <3>1. CASE k = i
      BY <2>1, <2>2, <2>3, <3>1
    <3>2. CASE k # i
      <4>1. blocks[k].at \in DOMAIN held /\ blocks[k].at # p /\ held[blocks[k].at] = blocks[k].request_size
        BY <1>2, <2>4, <3>2 DEF Listed
      <4>. QED
        BY <2>2, <2>3, <3>2, <4>1
    <3>. QED
      BY <3>1, <3>2
  <2>11. /\ DOMAIN held' \subseteq Addresses
         /\ \A k \in DOMAIN blocks' : blocks'[k].at \in DOMAIN held'
         /\ \A a \in DOMAIN held' : \E k \in DOMAIN blocks' : blocks'[k].at = a
         /\ \A j, k \in DOMAIN blocks' : blocks'[j].at = blocks'[k].at => j = k
    BY <1>2, <2>2, <2>3, <2>5 DEF Listed
  <2>7. Listed(blocks, held)'
    BY <2>2, <2>6, <2>11 DEF Listed
  <2>8. SumTo(Asked(blocks'), Len(blocks)) = SumTo(Asked(blocks), Len(blocks)) + (n - blocks[i].request_size)
    <3>1. \A k \in 1..Len(blocks) : Asked(blocks)[k] \in Int
      BY <1>2, AskedInt
    <3>2. /\ Asked(blocks')[i] = n /\ Asked(blocks)[i] = blocks[i].request_size
          /\ \A k \in 1..Len(blocks) : k # i => Asked(blocks')[k] = Asked(blocks)[k]
      BY <1>2, <1>3, <2>1, <2>2 DEF Asked
    <3>3. PICK d \in Int : d = n - blocks[i].request_size
      BY <1>3
    <3>4. Asked(blocks')[i] = Asked(blocks)[i] + d
      BY <1>3, <3>2, <3>3
    <3>5. i \in 1..Len(blocks)
      BY <1>2, <1>3
    <3>6. SumTo(Asked(blocks'), Len(blocks)) = SumTo(Asked(blocks), Len(blocks)) + d
      BY <1>2, <3>1, <3>2, <3>4, <3>5, SumChanges
    <3>. QED
      BY <3>3, <3>6
  <2>9. SumTo(Asked(blocks), Len(blocks)) \in Int
    BY <1>2, AskedInt, SumInt
  <2>10. /\ total_memory_requested' \in Int /\ total_memory_freed' \in Int
         /\ total_memory_requested' - total_memory_freed'
               = total_memory_requested - total_memory_freed + (n - blocks[i].request_size)
    BY <1>2, <1>3, <1>5 DEF Resized
  <2>. QED
    BY <1>1, <1>2, <2>2, <2>7, <2>8, <2>9, <2>10 DEF MemInv
<1>. QED
  BY <1>4, <1>5 DEF MiniRealloc

(* The report is right: the bytes leaked are those of the blocks that the     *)
(* program still holds, and the invalid addresses are those it passed wrongly. *)
THEOREM ReportCorrect == MemSpec => []ReportIsRight
<1>1. MemInv => ReportIsRight
  <2>. SUFFICES ASSUME MemInv, ~unlinked PROVE ReportIsRight
    BY DEF ReportIsRight
  <2>1. Listed(blocks, held)
    BY DEF MemInv
  <2>2. \A k \in DOMAIN blocks : blocks[k] = [at |-> blocks[k].at, request_size |-> held[blocks[k].at]]
    BY <2>1, Blocks DEF Listed
  <2>3. ToSet(blocks) = {[at |-> a, request_size |-> held[a]] : a \in DOMAIN held}
    BY <2>1, <2>2 DEF ToSet, Listed
  <2>4. IsInjective(blocks)
    BY <2>1 DEF IsInjective, Listed
  <2>5. LeakedBytes = SumTo(Asked(blocks), Len(blocks))
    BY DEF LeakedBytes, Asked
  <2>. QED
    BY <2>3, <2>4, <2>5 DEF MemInv, ReportIsRight
<1>2. MemInv /\ [MemNext]_memVars => MemInv'
  <2>. SUFFICES ASSUME MemInv, [MemNext]_memVars PROVE MemInv'
    OBVIOUS
  <2>1. CASE UNCHANGED memVars
    BY <2>1 DEF memVars, totals, MemInv
  <2>. QED
    BY <2>1, MallocKeeps, ReallocKeeps, FreeKeeps DEF MemNext
<1>. QED
  BY <1>1, <1>2, MemInitInv, PTL DEF MemSpec
=============================================================================
