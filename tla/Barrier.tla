------------------------------ MODULE Barrier ------------------------------
(* critical_concurrency/barrier.c: a reusable barrier of N threads made of  *)
(* a mutex, a condition variable, an arrival counter and a round number     *)
(* that is an unsigned int and wraps.  One step is one call of the pthread  *)
(* library with the code around it that runs under the mutex.               *)
EXTENDS Integers, FiniteSets

CONSTANTS Thread,   \* the threads that meet, as many as n_threads
          N,        \* n_threads of barrier_init
          W,        \* the values of an unsigned int: 0..W-1
          Rounds,   \* model bound: how often a thread calls barrier_wait
          NoThread

ASSUME BarrierAssumption == /\ IsFiniteSet(Thread) /\ N = Cardinality(Thread) /\ N > 0
                            /\ W \in Nat /\ W >= 2
                            /\ Rounds \in Nat
                            /\ NoThread \notin Thread

VARIABLES ready,                \* barrier_init was called
          count, times_used,    \* the fields of barrier_t
          m,                    \* owner of mtx
          pc, local,            \* per thread: program point, the local times_used
          arrived, left, met    \* ghosts: arrivals and departures of each thread, full rounds

vars == <<ready, count, times_used, m, pc, local, arrived, left, met>>

Critical == {"enter", "test", "unlock"}
Points == {"idle", "lock", "wait", "relock"} \union Critical
Waiting == {t \in Thread : pc[t] = "wait"}

Init == /\ ready = FALSE
        /\ count = 0 /\ times_used = 0
        /\ m = NoThread
        /\ pc = [t \in Thread |-> "idle"]
        /\ local = [t \in Thread |-> 0]
        /\ arrived = [t \in Thread |-> 0]
        /\ left = [t \in Thread |-> 0]
        /\ met = 0

Goto(t, p) == pc' = [pc EXCEPT ![t] = p]
-----------------------------------------------------------------------------
InitBarrier == /\ ~ready
               /\ ready' = TRUE
               /\ count' = 0 /\ times_used' = 0
               /\ UNCHANGED <<m, pc, local, arrived, left, met>>

\* Refused (-1, nothing changes) unless times_used is 0; callers do not
\* destroy a barrier that threads are inside of.
DestroyBarrier == /\ ready
                  /\ \A t \in Thread : pc[t] = "idle"
                  /\ ready' = (times_used # 0)
                  /\ UNCHANGED <<count, times_used, m, pc, local, arrived, left, met>>

CallWait(t) == /\ ready
               /\ pc[t] = "idle"
               /\ arrived[t] < Rounds
               /\ Goto(t, "lock")
               /\ UNCHANGED <<ready, count, times_used, m, local, arrived, left, met>>

Lock(t) == /\ pc[t] = "lock" /\ m = NoThread
           /\ m' = t
           /\ Goto(t, "enter")
           /\ UNCHANGED <<ready, count, times_used, local, arrived, left, met>>

Wrap(n) == IF n = W - 1 THEN 0 ELSE n + 1

\* Faults: one waiter is signalled instead of all; the round is complete one
\* thread early.
CompleteThat(t, full, woken) ==
    /\ pc[t] = "enter"
    /\ full
    /\ times_used' = Wrap(times_used)
    /\ count' = 0
    /\ pc' = [u \in Thread |-> IF u = t THEN "unlock"
                               ELSE IF u \in woken THEN "relock" ELSE pc[u]]
    /\ local' = [local EXCEPT ![t] = times_used]
    /\ arrived' = [arrived EXCEPT ![t] = @ + 1]
    /\ met' = met + 1
    /\ UNCHANGED <<ready, m, left>>
CompleteSignalsOne(t) ==
    \E w \in SUBSET Waiting : /\ Cardinality(w) = (IF Waiting = {} THEN 0 ELSE 1)
                              /\ CompleteThat(t, count + 1 = N, w)
CompleteEarly(t) == CompleteThat(t, count + 1 >= N - 1, Waiting)

\* The thread that completes the round starts the next one and wakes everybody.
Complete(t) == /\ pc[t] = "enter"
               /\ count + 1 = N
               /\ times_used' = Wrap(times_used)
               /\ count' = 0
               /\ pc' = [u \in Thread |-> IF u = t THEN "unlock"
                                          ELSE IF pc[u] = "wait" THEN "relock" ELSE pc[u]]
               /\ local' = [local EXCEPT ![t] = times_used]
               /\ arrived' = [arrived EXCEPT ![t] = @ + 1]
               /\ met' = met + 1
               /\ UNCHANGED <<ready, m, left>>

Enter(t) == /\ pc[t] = "enter"
            /\ count + 1 # N
            /\ count' = count + 1
            /\ local' = [local EXCEPT ![t] = times_used]
            /\ Goto(t, "test")
            /\ arrived' = [arrived EXCEPT ![t] = @ + 1]
            /\ UNCHANGED <<ready, times_used, m, left, met>>

\* The while loop: sleep as long as the round has not changed.
Test(t) == /\ pc[t] = "test"
           /\ IF local[t] = times_used THEN m' = NoThread /\ Goto(t, "wait")
                                       ELSE m' = m /\ Goto(t, "unlock")
           /\ UNCHANGED <<ready, count, times_used, local, arrived, left, met>>

\* POSIX allows pthread_cond_wait to return without a broadcast.
Spurious(t) == /\ pc[t] = "wait"
               /\ Goto(t, "relock")
               /\ UNCHANGED <<ready, count, times_used, m, local, arrived, left, met>>

\* Fault: the round is not tested again after the wait (if instead of while).
RelockAndLeave(t) == /\ pc[t] = "relock" /\ m = NoThread
                     /\ m' = t
                     /\ Goto(t, "unlock")
                     /\ UNCHANGED <<ready, count, times_used, local, arrived, left, met>>

Relock(t) == /\ pc[t] = "relock" /\ m = NoThread
             /\ m' = t
             /\ Goto(t, "test")
             /\ UNCHANGED <<ready, count, times_used, local, arrived, left, met>>

Unlock(t) == /\ pc[t] = "unlock"
             /\ m' = NoThread
             /\ Goto(t, "idle")
             /\ left' = [left EXCEPT ![t] = @ + 1]
             /\ UNCHANGED <<ready, count, times_used, local, arrived, met>>

Step(t) == Lock(t) \/ Complete(t) \/ Enter(t) \/ Test(t) \/ Relock(t) \/ Unlock(t)

Next == \/ InitBarrier \/ DestroyBarrier
        \/ \E t \in Thread : CallWait(t) \/ Step(t) \/ Spurious(t)

Spec == Init /\ [][Next]_vars

\* Runnable threads are scheduled, each thread calls barrier_wait until it has
\* done its rounds; neither spurious wakeups nor re-creations go on for ever.
Fairness == /\ WF_vars(InitBarrier)
            /\ \A t \in Thread : WF_vars(CallWait(t)) /\ WF_vars(Step(t))
            /\ <>[][~DestroyBarrier /\ ~\E t \in Thread : Spurious(t)]_vars
FairSpec == Spec /\ Fairness
-----------------------------------------------------------------------------
(* The fields of barrier_t, the threads' locals and the ghosts are in range.  *)
TypeOK == /\ ready \in BOOLEAN
          /\ count \in 0..(N - 1)
          /\ times_used \in 0..(W - 1)
          /\ m \in Thread \union {NoThread}
          /\ pc \in [Thread -> Points]
          /\ local \in [Thread -> 0..(W - 1)]
          /\ arrived \in [Thread -> Nat] /\ left \in [Thread -> Nat] /\ met \in Nat

(* Two calls of barrier_wait never work on the counters at the same time.     *)
MutualExclusion == \A t \in Thread : pc[t] \in Critical <=> m = t

\* The threads inside barrier_wait whose round is still open.
Inside == {t \in Thread : pc[t] \in {"wait", "relock", "test"} /\ local[t] = times_used}

(* count is the number of threads of the open round, whatever stragglers of   *)
(* the round before have not got the mutex back yet.                          *)
CountsInside == count = Cardinality(Inside)

(* Whoever sleeps on cv sleeps because its round is open: the broadcast has   *)
(* woken everybody of a completed round, and a fast thread that has already   *)
(* arrived in the next round does not capture a slow one.                     *)
SleepersAreInside == Waiting \subseteq Inside

(* Nobody leaves a round before everybody has arrived in it, even when fast   *)
(* threads are already in the next one.                                       *)
Together == \A t, u \in Thread : left[t] <= arrived[u]

\* Where every thread stands with respect to the last full round.
RoundOf(t) ==
    IF t \in Inside THEN arrived[t] = met + 1 /\ left[t] = met
    ELSE IF pc[t] \in {"idle", "lock", "enter"} THEN arrived[t] = met /\ left[t] = met
    ELSE arrived[t] = met /\ left[t] + 1 = met

(* The inductive invariant behind Together: a thread of the open round has    *)
(* arrived once more than there were full rounds, every other one has not.    *)
RoundInv == /\ \A t \in Thread : RoundOf(t)
            /\ ~ready => \A t \in Thread : pc[t] = "idle"

Meeting == INSTANCE Rendezvous
(* The counter, the wrapping round number and the condition variable          *)
(* implement the rendezvous.                                                  *)
ImplementsRendezvous == Meeting!Spec

(* Threads that all call barrier_wait Rounds times all come back every time.  *)
EverybodyReturns == <>[](\A t \in Thread : left[t] = Rounds)
=============================================================================
