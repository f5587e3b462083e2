----------------------------- MODULE Scheduler -----------------------------
(***************************************************************************)
(* savvy_scheduler/libscheduler.c, driven by a clock: jobs arrive, one of  *)
(* them runs, quanta expire at any time, twice in one tick and for a job   *)
(* that is through as well, and a job that has run for its running_time is *)
(* finished before the clock goes on.  The priority queue is external: it  *)
(* gives any of the jobs that no other comes before.  Times are ticks.     *)
(***************************************************************************)
EXTENDS Integers, FiniteSets, Sums

CONSTANTS Jobs,           \* 1 .. the number of jobs
          RunningTimes, Priorities,
          MaxTime,        \* bound: before this tick jobs arrive, and quanta expire in
                          \* the very tick in which the turn began or the job is through
          NoJob

ASSUME SchedulerAssumption == /\ RunningTimes \subseteq Nat \ {0} /\ Priorities \subseteq Int
                              /\ NoJob \notin Jobs

Schemes == {"FCFS", "PRI", "PPRI", "PSRTF", "RR", "SJF"}

VARIABLES pqueue_scheme, pqueue,
          info,      \* job -> its job_info
          number_of_jobs, total_waiting_time, total_turnaround_time, total_response_time,
          current,   \* the job that runs
          time,
          ran, waited,  \* ticks that each job has run, was queued
          begun, answered,  \* the jobs that have had a turn; ticks each was queued before its first
          patience   \* ticks each has been queued since it was last put into the queue

schedTotals == <<number_of_jobs, total_waiting_time, total_turnaround_time, total_response_time>>
ticks == <<time, ran, waited, answered>>
clock == <<ticks, begun, patience>>
schedVars == <<pqueue_scheme, pqueue, info, schedTotals, current, clock>>

\* scheduler_start_up.
SchedInit ==
  /\ pqueue_scheme \in Schemes
  /\ pqueue = {}
  /\ info = [j \in {} |-> 0]
  /\ number_of_jobs = 0
  /\ total_waiting_time = 0 /\ total_turnaround_time = 0 /\ total_response_time = 0
  /\ current = NoJob
  /\ time = 0
  /\ ran = [j \in Jobs |-> 0] /\ waited = ran /\ answered = ran /\ patience = ran
  /\ begun = {}
-----------------------------------------------------------------------------
\* The comparers: what a scheme orders jobs by, and whether ties are broken
\* by comparer_fcfs.
Key(i) == CASE pqueue_scheme = "FCFS" -> i.first_arrival_time
            [] pqueue_scheme \in {"PRI", "PPRI"} -> i.priority
            [] pqueue_scheme = "PSRTF" -> i.remaining_time
            [] pqueue_scheme = "RR" -> i.arrival_time
            [] pqueue_scheme = "SJF" -> i.running_time

TieBroken == pqueue_scheme \in {"PRI", "PPRI", "PSRTF", "SJF"}

Before(i, k) == \/ Key(i) < Key(k)
                \/ TieBroken /\ Key(i) = Key(k) /\ i.first_arrival_time < k.first_arrival_time

SchedNewJob(j, running, priority) ==
  /\ j = number_of_jobs + 1
  /\ info' = [k \in DOMAIN info \cup {j} |-> IF k # j THEN info[k]
                ELSE [arrival_time |-> time, first_arrival_time |-> time,
                      remaining_time |-> running, start_time |-> -1, fist_start_time |-> -1,
                      running_time |-> running, priority |-> priority]]
  /\ number_of_jobs' = j
  /\ pqueue' = pqueue \cup {j}
  /\ UNCHANGED <<pqueue_scheme, total_waiting_time, total_turnaround_time, total_response_time,
                 current, clock>>

\* Fault: every turn counts as the first.
StartedAnew(i) == [i EXCEPT !.start_time = time, !.fist_start_time = time]

Started(i) == [i EXCEPT !.start_time = time,
                        !.fist_start_time = IF @ = -1 THEN time ELSE @]

\* priqueue_poll from the jobs in queue, which have infos known.
Poll(queue, known) ==
  \E j \in queue :
    /\ \A k \in queue : ~Before(known[k], known[j])
    /\ pqueue' = queue \ {j}
    /\ info' = [known EXCEPT ![j] = Started(@)]
    /\ current' = j
    /\ begun' = begun \cup {j}

\* Fault: the time since the job was started is not taken off.
EvictWithoutCharge(i) == [i EXCEPT !.arrival_time = time]

Evict(i) == [i EXCEPT !.remaining_time = @ - (time - i.start_time), !.arrival_time = time]

QuantumExpired ==
  /\ pqueue # {}
  /\ \/ current = NoJob /\ Poll(pqueue, info) /\ UNCHANGED patience
     \/ /\ current # NoJob
        /\ pqueue_scheme \notin {"FCFS", "PRI", "SJF"}
        /\ Poll(pqueue \cup {current}, [info EXCEPT ![current] = Evict(@)])
        /\ patience' = [patience EXCEPT ![current] = 0]
  /\ UNCHANGED <<pqueue_scheme, schedTotals, ticks>>

Done(j) == j # NoJob /\ ran[j] = info[j].running_time

JobFinished ==
  /\ Done(current)
  /\ LET i == info[current]
     IN /\ total_waiting_time' = total_waiting_time + (time - i.first_arrival_time - i.running_time)
        /\ total_turnaround_time' = total_turnaround_time + (time - i.first_arrival_time)
        /\ total_response_time' = total_response_time + (i.fist_start_time - i.first_arrival_time)
        /\ info' = [k \in DOMAIN info \ {current} |-> info[k]]
  /\ current' = NoJob
  /\ UNCHANGED <<pqueue_scheme, pqueue, number_of_jobs, clock>>

\* One tick of the clock, which never finds jobs queued and none at work, nor
\* a job at work that is through.
Tick == /\ ~Done(current)
        /\ current = NoJob => pqueue = {} /\ time < MaxTime
        /\ time' = time + 1
        /\ ran' = [j \in Jobs |-> IF j = current THEN ran[j] + 1 ELSE ran[j]]
        /\ waited' = [j \in Jobs |-> IF j \in pqueue THEN waited[j] + 1 ELSE waited[j]]
        /\ answered' = [j \in Jobs |-> IF j \in pqueue \ begun THEN answered[j] + 1 ELSE answered[j]]
        /\ patience' = [j \in Jobs |-> IF j \in pqueue THEN patience[j] + 1 ELSE 0]
        /\ UNCHANGED <<pqueue_scheme, pqueue, info, schedTotals, current, begun>>

\* Neither new at the processor nor through.
UnderWay(j) == j # NoJob => time > info[j].start_time /\ ~Done(j)

SchedNext == \/ JobFinished
             \/ /\ time < MaxTime \/ UnderWay(current)
                /\ QuantumExpired
             \/ Tick
             \/ /\ time < MaxTime
                /\ \E j \in Jobs, running \in RunningTimes, priority \in Priorities :
                     SchedNewJob(j, running, priority)

SchedSpec == SchedInit /\ [][SchedNext]_schedVars
-----------------------------------------------------------------------------
\* The totals of the finished jobs are the ticks they really waited, stayed
\* and waited for their first turn, whoever took turns with them, and whether
\* or not their turns lasted (libscheduler.c:187-194, from times set at lines
\* 141-185: a turn answers a job even if it is taken away in the same tick).
OfFinished(f) == SumTo([j \in 1..number_of_jobs |-> IF j \in DOMAIN info THEN 0 ELSE f[j]],
                       number_of_jobs)

TotalsAreRight ==
  /\ total_waiting_time = OfFinished(waited)
  /\ total_turnaround_time = OfFinished([j \in Jobs |-> waited[j] + ran[j]])
  /\ total_response_time = OfFinished(answered)

\* What the schemes promise, by what has really happened to the jobs: their
\* age, the ticks they still need and, under RR, those since they were put
\* into the queue (after a turn of no length too).  Ties go to the older job.
Age(j) == waited[j] + ran[j]

Needs(j) == info[j].running_time - ran[j]

Rank(j) == CASE pqueue_scheme = "FCFS" -> -Age(j)
             [] pqueue_scheme \in {"PRI", "PPRI"} -> info[j].priority
             [] pqueue_scheme = "PSRTF" -> Needs(j)
             [] pqueue_scheme = "RR" -> -patience[j]
             [] pqueue_scheme = "SJF" -> info[j].running_time

Precedes(k, j) == \/ Rank(k) < Rank(j)
                  \/ pqueue_scheme # "RR" /\ Rank(k) = Rank(j) /\ Age(k) > Age(j)

NobodyPrecedes == \A k \in pqueue : ~Precedes(k, current)

\* A job gets its turn when its scheme says so: when a quantum is over nobody
\* who is left in the queue precedes the job that gets the processor, the job
\* that had it included, and the schemes that do not preempt never take it
\* away (libscheduler.c:157-185 with the comparers of 68-137).
RightJobRuns ==
  [][/\ QuantumExpired => NobodyPrecedes'
     /\ current # NoJob /\ current' \notin {current, NoJob}
          => pqueue_scheme \in {"PPRI", "PSRTF", "RR"}]_schedVars
=============================================================================
