------------------------------ MODULE Semamore ------------------------------
(* critical_concurrency/semamore.c: a counting semaphore with a maximum,    *)
(* made of a mutex and one condition variable.  One step is one call of the *)
(* pthread library or the code between two of them.                         *)
EXTENDS Integers, FiniteSets

CONSTANTS Thread,
          InitVal, MaxVal,   \* the arguments of semm_init
          Bound,             \* model bound: posts that are not matched by a wait
          NoThread

ASSUME SemamoreAssumption == /\ IsFiniteSet(Thread)
                             /\ MaxVal \in Nat /\ InitVal \in 0..MaxVal
                             /\ Bound \in Nat
                             /\ NoThread \notin Thread

VARIABLES value,    \* s->value
          m,        \* owner of s->m
          pc, op,   \* per thread: program point, call
          due       \* ghost: InitVal + posts so far - waits that took their unit

vars == <<value, m, pc, op, due>>

Critical == {"test", "signal", "unlock"}
Points == {"idle", "lock", "wait"} \union Critical
Waiting == {t \in Thread : pc[t] = "wait"}

Init == /\ value = InitVal /\ due = InitVal
        /\ m = NoThread
        /\ pc = [t \in Thread |-> "idle"]
        /\ op = [t \in Thread |-> "none"]

Goto(t, p) == pc' = [pc EXCEPT ![t] = p]
-----------------------------------------------------------------------------
Call(t, o) == /\ pc[t] = "idle"
              /\ o = "post" => due < Bound
              /\ Goto(t, "lock")
              /\ op' = [op EXCEPT ![t] = o]
              /\ UNCHANGED <<value, m, due>>

\* pthread_mutex_lock, and the re-acquisition inside pthread_cond_wait.
Lock(t) == /\ pc[t] = "lock" /\ m = NoThread
           /\ m' = t
           /\ Goto(t, "test")
           /\ UNCHANGED <<value, op, due>>

\* semm_wait: block while the value is 0.
Block(t) == /\ pc[t] = "test" /\ op[t] = "wait" /\ value = 0
            /\ m' = NoThread
            /\ Goto(t, "wait")
            /\ UNCHANGED <<value, op, due>>

Take(t) == /\ pc[t] = "test" /\ op[t] = "wait" /\ value # 0
           /\ value' = value - 1
           /\ due' = due - 1
           /\ Goto(t, "unlock")
           /\ UNCHANGED <<m, op>>

\* Faults: waiters are only signalled when the value was 0, or never.
PostThat(t, signals) ==
    /\ pc[t] = "test" /\ op[t] = "post"
    /\ value' = IF value < MaxVal THEN value + 1 ELSE value
    /\ Goto(t, IF value < MaxVal /\ signals THEN "signal" ELSE "unlock")
    /\ due' = due + 1
    /\ UNCHANGED <<m, op>>
PostSignalsFirst(t) == PostThat(t, value = 0)
PostSilently(t) == PostThat(t, FALSE)

\* semm_post: at max_val it only returns.
Post(t) == /\ pc[t] = "test" /\ op[t] = "post"
           /\ IF value < MaxVal THEN value' = value + 1 /\ Goto(t, "signal")
                                ELSE value' = value /\ Goto(t, "unlock")
           /\ due' = due + 1
           /\ UNCHANGED <<m, op>>

\* pthread_cond_signal wakes one waiter, whichever it is, or nobody.
Signal(t) == /\ pc[t] = "signal"
             /\ IF Waiting = {} THEN Goto(t, "unlock")
                ELSE \E w \in Waiting : pc' = [pc EXCEPT ![t] = "unlock", ![w] = "lock"]
             /\ UNCHANGED <<value, m, op, due>>

Unlock(t) == /\ pc[t] = "unlock"
             /\ m' = NoThread
             /\ Goto(t, "idle")
             /\ op' = [op EXCEPT ![t] = "none"]
             /\ UNCHANGED <<value, due>>

Spurious(t) == /\ pc[t] = "wait"
               /\ Goto(t, "lock")
               /\ UNCHANGED <<value, m, op, due>>

Step(t) == Lock(t) \/ Block(t) \/ Take(t) \/ Post(t) \/ Signal(t) \/ Unlock(t)

Next == \E t \in Thread : \/ Call(t, "wait") \/ Call(t, "post")
                          \/ Step(t) \/ Spurious(t)

Spec == Init /\ [][Next]_vars

\* Runnable threads are scheduled; spurious wakeups do not go on for ever.
FairSpec == /\ Spec
            /\ \A t \in Thread : WF_vars(Step(t))
            /\ <>[][~\E t \in Thread : Spurious(t)]_vars
-----------------------------------------------------------------------------
(* The fields are in range: the value stays between 0 and max_val although    *)
(* a woken thread may find its unit taken by a newcomer.                      *)
TypeOK == /\ value \in 0..MaxVal
          /\ m \in Thread \union {NoThread}
          /\ pc \in [Thread -> Points]
          /\ op \in [Thread -> {"none", "wait", "post"}]
          /\ due \in Int

(* semm_wait and semm_post never touch the value at the same time.            *)
MutualExclusion == \A t \in Thread : pc[t] \in Critical <=> m = t

\* The threads that are about to take a unit or to wake somebody.
Helpers == {t \in Thread : pc[t] = "signal" \/ (op[t] = "wait" /\ pc[t] \in {"lock", "test"})}

(* No unit is stranded while a thread sleeps in semm_wait: there is somebody  *)
(* on the way for each of them, so that one pthread_cond_signal per post is   *)
(* enough.                                                                    *)
NoStrandedUnit == Waiting # {} => value <= Cardinality(Helpers)

(* A unit that a thread is waiting for gets taken, by whomever.               *)
UnitsGetTaken ==
    (value > 0 /\ \E t \in Thread : op[t] = "wait" /\ pc[t] \in {"lock", "wait", "test"})
        ~> (\E t \in Thread : op[t] = "wait" /\ pc[t] = "unlock")

(* semamore.c:39-41: a post at max_value blocks, otherwise it increments the  *)
(* value; so every post that returned counts.                                 *)
EveryPostCounts == value = due
=============================================================================
