------------------------------ MODULE ParMake ------------------------------
(* parallel_make/parmake.c: goals that reach a cycle are dropped, the rules   *)
(* are sorted, those that are ready are queued, and worker threads pull rules *)
(* from the queue, run their commands and, under one lock, scan all rules for *)
(* those that have become ready.  The queue is the atomic FIFO that SyncQueue  *)
(* is shown to implement, with no limit.  Commands are modelled by what       *)
(* matters here: they may create the file the rule is named after, and then   *)
(* succeed or fail.                                                          *)
EXTENDS MakeGraph, FiniteSets

CONSTANTS Thread,     \* num_threads workers
          Rule,       \* the rules in the dependency graph but ""
          Makefiles,  \* model bound: what parser_parse_makefile may return,
                      \* each rule's dependencies and the neighbors of ""
          Built,      \* model bound: the graphs, with the goals left, whose rules are run
          Stop,       \* "", the rule that tells the workers to stop
          NoThread

ASSUME ParMakeAssumption ==
    /\ Makefiles \subseteq [graph : [Rule -> Seq(Rule)], goals : Seq(Rule)]
    /\ Built \subseteq Makefiles
    /\ Stop \notin Rule /\ NoThread \notin Thread
    /\ IsFiniteSet(Rule)
    /\ Thread # {}      \* parmake is called with at least one thread

VARIABLES phase,                \* of the main thread: parsed, checked, sorted or making
          graph, goals, sorted, \* dependencies, neighbors of "", the vector sorted
          files,                \* the rules whose name is an existing file
          state,                \* rule->state: 0 not ready, 1 made, -1 failed, 2 queued
          jobs,                 \* the queue
          lock,                 \* owner of the global lock
          pc, target,           \* per worker: program point, the rule it works on
          todo, outcome, next,  \* per worker: dependencies to read, state or flag, scan position
          runs, result          \* ghosts: runs of each rule's commands, how they ended

main == <<phase, graph, goals, sorted>>
workers == <<pc, target, todo, outcome, next>>
vars == <<main, files, state, jobs, lock, workers, runs, result>>

Init == /\ phase = "parsed"
        /\ \E mk \in Makefiles : graph = mk.graph /\ goals = mk.goals
        /\ sorted = <<>>
        /\ files = {} /\ jobs = <<>> /\ lock = NoThread
        /\ state = [r \in Rule |-> 0]
        /\ pc = [t \in Thread |-> "none"]
        /\ target = [t \in Thread |-> Stop]
        /\ todo = [t \in Thread |-> <<>>]
        /\ outcome = [t \in Thread |-> 0]
        /\ next = [t \in Thread |-> 1]
        /\ runs = [r \in Rule |-> 0]
        /\ result = [r \in Rule |-> 0]

Goto(t, p) == pc' = [pc EXCEPT ![t] = p]
-----------------------------------------------------------------------------
(* The main thread. *)

Check == /\ phase = "parsed" /\ phase' = "checked"
         /\ goals' = CheckCycle(graph, goals)
         /\ UNCHANGED <<graph, sorted, files, state, jobs, lock, workers, runs, result>>

Sort == /\ phase = "checked" /\ phase' = "sorted"
        /\ sorted' = TopologicalSort(graph, goals)
        /\ UNCHANGED <<graph, goals, files, state, jobs, lock, workers, runs, result>>

\* The first loop after the sort: rules whose file exists count as made.
Found(fs) == [r \in Rule |-> IF r \in fs /\ r \in Range(sorted) THEN 1 ELSE 0]

\* The second loop, in order: rules whose dependencies are all made are queued.
Queued(fs) ==
    LET visit(acc, r) == IF \A d \in Range(graph[r]) : acc.state[d] = 1
                         THEN [state |-> [acc.state EXCEPT ![r] = 2], jobs |-> Append(acc.jobs, r)]
                         ELSE acc
        after[n \in 0..Len(sorted)] ==
            IF n = 0 THEN [state |-> Found(fs), jobs |-> <<>>]
            ELSE visit(after[n - 1], sorted[n])
    IN  after[Len(sorted)]

\* The workers are created; any rule may exist as a file by now.
Start == /\ phase = "sorted" /\ phase' = "making"
         /\ [graph |-> graph, goals |-> goals] \in Built
         /\ files' \in SUBSET Rule
         /\ state' = Queued(files').state
         /\ jobs' = IF sorted = <<>> THEN <<Stop>> ELSE Queued(files').jobs
         /\ pc' = [t \in Thread |-> "pull"]
         /\ UNCHANGED <<graph, goals, sorted, lock, target, todo, outcome, next, runs, result>>
-----------------------------------------------------------------------------
(* The workers. *)

Pull(t) == /\ pc[t] = "pull" /\ jobs # <<>>
           /\ jobs' = Tail(jobs)
           /\ target' = [target EXCEPT ![t] = Head(jobs)]
           /\ todo' = [todo EXCEPT ![t] = IF Head(jobs) = Stop THEN <<>> ELSE graph[Head(jobs)]]
           /\ outcome' = [outcome EXCEPT ![t] = 0]
           /\ Goto(t, IF Head(jobs) = Stop THEN "stop" ELSE "deps")
           /\ UNCHANGED <<main, files, state, lock, next, runs, result>>

\* Fault: the stop rule is taken out for good.
PassOnNothing(t) == /\ pc[t] = "stop"
                    /\ Goto(t, "done")
                    /\ UNCHANGED <<main, files, state, jobs, lock, target, todo, outcome, next, runs, result>>

\* The stop rule goes back into the queue for the other workers.
PassOnStop(t) == /\ pc[t] = "stop"
                 /\ jobs' = Append(jobs, Stop)
                 /\ Goto(t, "done")
                 /\ UNCHANGED <<main, files, state, lock, target, todo, outcome, next, runs, result>>

\* The states of the dependencies are read one by one, each under the lock.
ReadDep(t) == /\ pc[t] = "deps" /\ lock = NoThread /\ todo[t] # <<>>
              /\ IF state[Head(todo[t])] = -1
                 THEN outcome' = [outcome EXCEPT ![t] = -1] /\ todo' = [todo EXCEPT ![t] = <<>>]
                 ELSE outcome' = outcome /\ todo' = [todo EXCEPT ![t] = Tail(@)]
              /\ UNCHANGED <<main, files, state, jobs, lock, pc, target, next, runs, result>>

\* Then the rule's own: a rule that was made in the meantime is skipped.
ReadOwn(t) == /\ pc[t] = "deps" /\ lock = NoThread /\ todo[t] = <<>>
              /\ Goto(t, IF state[target[t]] = 1 THEN "pull"
                         ELSE IF outcome[t] = 0 THEN "run" ELSE "update")
              /\ runs' = IF state[target[t]] # 1 /\ outcome[t] = 0
                         THEN [runs EXCEPT ![target[t]] = @ + 1] ELSE runs
              /\ UNCHANGED <<main, files, state, jobs, lock, target, todo, outcome, next, result>>

CreateFile(t) == /\ pc[t] = "run" /\ target[t] \notin files
                 /\ files' = files \union {target[t]}
                 /\ UNCHANGED <<main, state, jobs, lock, workers, runs, result>>

\* All commands succeeded, or one failed and the others are not run.
EndCommands(t, s) == /\ pc[t] = "run"
                     /\ outcome' = [outcome EXCEPT ![t] = s]
                     /\ result' = [result EXCEPT ![target[t]] = s]
                     /\ Goto(t, "update")
                     /\ UNCHANGED <<main, files, state, jobs, lock, target, todo, next, runs>>

Update(t) == /\ pc[t] = "update" /\ lock = NoThread
             /\ lock' = t
             /\ state' = [state EXCEPT ![target[t]] = outcome[t]]
             /\ next' = [next EXCEPT ![t] = 1]
             /\ Goto(t, "scan")
             /\ UNCHANGED <<main, files, jobs, target, todo, outcome, runs, result>>

\* Fault: a rule is ready when no dependency failed.
LookedEarly(r) == IF r \in files THEN 1
                  ELSE IF state[r] # 0 THEN state[r]
                  ELSE IF \E d \in Range(graph[r]) : state[d] = -1 THEN -1 ELSE 2

\* What the scan makes of rule r: a file counts as made whatever happened, and
\* the first dependency that is not made decides about a rule that is not ready.
Looked(r) == LET open == {i \in DOMAIN graph[r] : state[graph[r][i]] # 1}
                 first == CHOOSE i \in open : \A j \in open : i <= j
             IN  IF r \in files THEN 1
                 ELSE IF state[r] # 0 THEN state[r]
                 ELSE IF open = {} THEN 2
                 ELSE IF state[graph[r][first]] = -1 THEN -1 ELSE 0

\* Fault: rules that are queued already are looked at again.
ScanAgain(t) == /\ pc[t] = "scan" /\ next[t] <= Len(sorted)
                /\ LET r == sorted[next[t]]
                       ready == state[r] \in {0, 2} /\ \A d \in Range(graph[r]) : state[d] = 1
                   IN  /\ state' = [state EXCEPT ![r] = Looked(r)]
                       /\ jobs' = IF ready THEN Append(jobs, r) ELSE jobs
                /\ next' = [next EXCEPT ![t] = @ + 1]
                /\ UNCHANGED <<main, files, lock, pc, target, todo, outcome, runs, result>>

Scan(t) == /\ pc[t] = "scan" /\ next[t] <= Len(sorted)
           /\ LET r == sorted[next[t]]
              IN  /\ state' = [state EXCEPT ![r] = Looked(r)]
                  /\ jobs' = IF state[r] = 0 /\ Looked(r) = 2 THEN Append(jobs, r) ELSE jobs
           /\ next' = [next EXCEPT ![t] = @ + 1]
           /\ UNCHANGED <<main, files, lock, pc, target, todo, outcome, runs, result>>

\* Fault: every scan ends the work.
EndScanStops(t) == /\ pc[t] = "scan" /\ next[t] > Len(sorted)
                   /\ jobs' = Append(jobs, Stop)
                   /\ lock' = NoThread
                   /\ Goto(t, "pull")
                   /\ UNCHANGED <<main, files, state, target, todo, outcome, next, runs, result>>

\* Stop is queued once no goal is waiting to become ready; the lock is released.
EndScan(t) == /\ pc[t] = "scan" /\ next[t] > Len(sorted)
              /\ jobs' = IF \A g \in Range(goals) : state[g] # 0 THEN Append(jobs, Stop) ELSE jobs
              /\ lock' = NoThread
              /\ Goto(t, "pull")
              /\ UNCHANGED <<main, files, state, target, todo, outcome, next, runs, result>>

Step(t) == \/ Pull(t) \/ PassOnStop(t) \/ ReadDep(t) \/ ReadOwn(t)
           \/ (\E s \in {1, -1} : EndCommands(t, s))
           \/ Update(t) \/ Scan(t) \/ EndScan(t)

\* parmake joins all workers and returns; the model does not run the other makefiles.
Finished == /\ \/ \A t \in Thread : pc[t] = "done"
               \/ phase = "sorted" /\ [graph |-> graph, goals |-> goals] \notin Built
            /\ UNCHANGED vars

Next == Check \/ Sort \/ Start \/ (\E t \in Thread : Step(t) \/ CreateFile(t)) \/ Finished

\* Workers are scheduled and every command comes to an end.
Spec == Init /\ [][Next]_vars /\ \A t \in Thread : WF_vars(Step(t))
-----------------------------------------------------------------------------
(* check_cycle drops exactly the goals that depend on a cycle, in every order *)
(* of the goals, although the search shares visited and stack between them    *)
(* and stops at the first cycle it meets; topological_sort puts the others in *)
(* an order that respects all dependencies (parmake.c:40-87).                 *)
OrderIsRight ==
    [][/\ phase = "parsed" => goals' = AcyclicGoals(graph, goals)
       /\ phase' = "sorted" => IsOrderFor(graph, sorted', goals)]_vars

(* However many workers find a rule ready at the same time, its commands are  *)
(* run at most once and it is never queued again.                             *)
RunOnce == \A r \in Rule : /\ runs[r] <= 1
                          /\ runs[r] = 1 => r \notin Range(jobs)

(* A rule's commands never start before each of its dependencies either is an *)
(* existing file or was made by commands that succeeded.                      *)
DependenciesFirst ==
    \A t \in Thread : pc[t] = "run" =>
        \A d \in Range(graph[target[t]]) : d \in files \/ result[d] = 1

(* When the workers are done every goal was decided: it is a file, it was     *)
(* made, or it failed; and none is still in the queue.                        *)
GoalsDecided ==
    (\A t \in Thread : pc[t] = "done") =>
        \A g \in Range(goals) : state[g] \in {1, -1} /\ g \notin Range(jobs)

(* All workers see the stop rule and parmake returns.                         *)
AllStop == phase = "making" ~> (\A t \in Thread : pc[t] = "done")
=============================================================================
