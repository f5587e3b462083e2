------------------------------ MODULE Cracker ------------------------------
(* password_cracker/cracker2.c: all threads crack one user's password at a   *)
(* time, each in its own part of the search space.  They share, under one     *)
(* lock, the flags complete and found, the password and the hash count, and   *)
(* meet twice per user at a pthread barrier.  The queue is the atomic FIFO of *)
(* FifoQueue.  One step is one critical section or one library call.          *)
EXTENDS Integers, Sequences, SequencesExt, FiniteSets

CONSTANTS Thread,   \* thread_count threads
          Users,    \* number of lines of the input
          Count,    \* guesses in each part
          Nothing

Part == 1..Cardinality(Thread)
Guess == Part \X (1..Count)
Job == [user : 1..Users, part : Part]

\* A barrier for no thread at all cannot be made.
ASSUME CrackerAssumption == /\ IsFiniteSet(Thread) /\ Thread # {}
                            /\ Users \in Nat /\ Count \in Nat /\ Nothing \notin Job

VARIABLES solution,                               \* the guesses that hash to the user's hash
          jobs,                                   \* the queue
          complete, found, password, hash_count,  \* shared, guarded by lock
          pc, task, left, hashes,                 \* per thread: point, *d, *count, hash_count
          starts, summaries, made                 \* ghosts: what was printed, guesses per user

shared == <<complete, found, password, hash_count>>
local == <<task, left, hashes>>
ghosts == <<starts, summaries, made>>
vars == <<solution, jobs, shared, pc, local, ghosts>>

\* Fault: a single NULL for all threads.
FilledOneNull == [k \in 1..(Users * Cardinality(Thread) + 1) |->
                     LET u == ((k - 1) \div Cardinality(Thread)) + 1
                     IN  IF u > Users THEN Nothing
                         ELSE [user |-> u, part |-> ((k - 1) % Cardinality(Thread)) + 1]]

\* For every user one job per part, then a NULL for every thread.
Filled == [k \in 1..((Users + 1) * Cardinality(Thread)) |->
              LET u == ((k - 1) \div Cardinality(Thread)) + 1
              IN  IF u > Users THEN Nothing
                  ELSE [user |-> u, part |-> ((k - 1) % Cardinality(Thread)) + 1]]

Init == /\ solution \in [1..Users -> SUBSET Guess]
        /\ jobs = Filled
        /\ complete = 1 /\ found = 0 /\ password = Nothing /\ hash_count = 0
        /\ pc = [t \in Thread |-> "pull"]
        /\ task = [t \in Thread |-> Nothing]
        /\ left = [t \in Thread |-> 0] /\ hashes = [t \in Thread |-> 0]
        /\ starts = <<>> /\ summaries = <<>> /\ made = [u \in 1..Users |-> 0]

Goto(t, p) == pc' = [pc EXCEPT ![t] = p]
-----------------------------------------------------------------------------
Pull(t) == /\ pc[t] = "pull" /\ jobs # <<>>
           /\ jobs' = Tail(jobs)
           /\ task' = [task EXCEPT ![t] = Head(jobs)]
           /\ Goto(t, IF Head(jobs) = Nothing THEN "done" ELSE "begin")
           /\ UNCHANGED <<solution, shared, left, hashes, ghosts>>

\* The first thread to get here opens the user.
Begin(t) == /\ pc[t] = "begin"
            /\ complete' = 0
            /\ starts' = IF complete = 1 THEN Append(starts, task[t].user) ELSE starts
            /\ left' = [left EXCEPT ![t] = Count]
            /\ hashes' = [hashes EXCEPT ![t] = 0]
            /\ Goto(t, "check")
            /\ UNCHANGED <<solution, jobs, found, password, hash_count, task, summaries, made>>

\* The search ends with the part, or when somebody else has found the password.
Check(t) == /\ pc[t] = "check"
            /\ Goto(t, IF left[t] > 0 /\ found = 0 THEN "guess" ELSE "report")
            /\ UNCHANGED <<solution, jobs, shared, local, ghosts>>

Current(t) == <<task[t].part, Count - left[t] + 1>>

Try(t) == /\ pc[t] = "guess"
          /\ hashes' = [hashes EXCEPT ![t] = @ + 1]
          /\ made' = [made EXCEPT ![task[t].user] = @ + 1]
          /\ IF Current(t) \in solution[task[t].user]
             THEN Goto(t, "tell") /\ UNCHANGED left
             ELSE Goto(t, "check") /\ left' = [left EXCEPT ![t] = @ - 1]
          /\ UNCHANGED <<solution, jobs, shared, task, starts, summaries>>

Tell(t) == /\ pc[t] = "tell"
           /\ password' = Current(t)
           /\ found' = 1
           /\ Goto(t, "report")
           /\ UNCHANGED <<solution, jobs, complete, hash_count, local, ghosts>>

Report(t) == /\ pc[t] = "report"
             /\ hash_count' = hash_count + hashes[t]
             /\ Goto(t, "barrier1")
             /\ UNCHANGED <<solution, jobs, complete, found, password, local, ghosts>>

\* Faults: found is not reset; the second barrier is left out.
SummaryThat(t, f, p) ==
    /\ pc[t] = "summary"
    /\ IF complete = 0
       THEN /\ summaries' = Append(summaries, [user |-> task[t].user, hashes |-> hash_count,
                                  password |-> IF found = 1 THEN password ELSE Nothing])
            /\ complete' = 1 /\ hash_count' = 0 /\ found' = f
       ELSE UNCHANGED <<summaries, complete, hash_count, found>>
    /\ Goto(t, p)
    /\ UNCHANGED <<solution, jobs, password, local, starts, made>>
SummaryKeepsFound(t) == SummaryThat(t, found, "barrier2")
SummaryWithoutBarrier(t) == SummaryThat(t, 0, "pull")

\* The first thread after the barrier closes the user.
Summary(t) == /\ pc[t] = "summary"
              /\ IF complete = 0
                 THEN /\ summaries' = Append(summaries, [user |-> task[t].user, hashes |-> hash_count,
                                            password |-> IF found = 1 THEN password ELSE Nothing])
                      /\ complete' = 1 /\ hash_count' = 0 /\ found' = 0
                 ELSE UNCHANGED <<summaries, complete, hash_count, found>>
              /\ Goto(t, "barrier2")
              /\ UNCHANGED <<solution, jobs, password, local, starts, made>>

\* pthread_barrier_wait: both calls meet at the same barrier, which opens when
\* as many threads as it was made for are inside.
Meet == /\ \A t \in Thread : pc[t] \in {"barrier1", "barrier2"}
        /\ pc' = [t \in Thread |-> IF pc[t] = "barrier1" THEN "summary" ELSE "pull"]
        /\ UNCHANGED <<solution, jobs, shared, local, ghosts>>

Step(t) == \/ Pull(t) \/ Begin(t) \/ Check(t) \/ Try(t) \/ Tell(t) \/ Report(t) \/ Summary(t)

\* start joins the threads.
Finished == (\A t \in Thread : pc[t] = "done") /\ UNCHANGED vars

Next == (\E t \in Thread : Step(t)) \/ Meet \/ Finished

CrackerFairness == (\A t \in Thread : WF_vars(Step(t))) /\ WF_vars(Meet)

Spec == Init /\ [][Next]_vars /\ CrackerFairness
-----------------------------------------------------------------------------
Working == {"begin", "check", "guess", "tell", "report", "barrier1", "summary", "barrier2"}

(* The two barriers keep the threads together: nobody works on a user while   *)
(* another thread is still busy with the one before, and no two threads       *)
(* search the same part.                                                      *)
OneUserAtATime ==
    \A t, u \in Thread : (pc[t] \in Working /\ pc[u] \in Working /\ t # u)
        => task[t].user = task[u].user /\ task[t].part # task[u].part

\* Every user is opened and closed once, in the order of the input, and the
\* summary of one comes before the start of the next.
OpenedThenClosed ==
    /\ \A i \in DOMAIN starts : starts[i] = i
    /\ \A i \in DOMAIN summaries : summaries[i].user = i
    /\ Len(starts) - Len(summaries) = (IF complete = 0 THEN 1 ELSE 0)

(* Each user is opened and closed in turn; the summary shows a password of    *)
(* that user, whichever thread has found it and whatever was found for the    *)
(* user before; it reports a failure only when there is none; and the hash    *)
(* count is the number of guesses all threads made (cracker2.c:46-127).       *)
SummariesAreRight ==
    /\ OpenedThenClosed
    /\ \A i \in DOMAIN summaries :
          /\ summaries[i].hashes = made[i]
          /\ IF solution[i] = {} THEN summaries[i].password = Nothing
             ELSE summaries[i].password \in solution[i]

(* All threads come to an end, each by a NULL of its own, with every user     *)
(* summarised: nobody is left alone at a barrier.                             *)
AllJoined == <>((\A t \in Thread : pc[t] = "done") /\ Len(summaries) = Users)
=============================================================================
