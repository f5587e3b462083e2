----------------------------- MODULE MakeGraph -----------------------------
(* The pure part of parallel_make/parmake.c: which goals are dropped because *)
(* they reach a cycle, and the order in which the rules are queued.  A graph  *)
(* maps each rule to the sequence of its dependencies; the goals are a        *)
(* sequence (the neighbors of the rule named "").                             *)
EXTENDS Integers, Sequences, FiniteSets, SequencesExt

(* graph_has_cycle_util goes over a list of rules, the dependencies of the    *)
(* vertex it is called for; a goal is a list of its own.  s holds the rest of *)
(* the list, the answer and the two sets.  When the answer is 1 the vertices  *)
(* on the way stay in stack.                                                  *)
GraphHasCycleUtil(G) ==
    LET search[s \in [todo : Seq(DOMAIN G), found : BOOLEAN,
                      vis : SUBSET DOMAIN G, stack : SUBSET DOMAIN G]] ==
            LET u == Head(s.todo)
                below == search[[todo |-> G[u], found |-> FALSE,
                                 vis |-> s.vis \union {u}, stack |-> s.stack \union {u}]]
            IN  IF s.todo = <<>> THEN s
                ELSE IF u \in s.stack THEN [s EXCEPT !.found = TRUE]
                ELSE IF u \in s.vis THEN search[[s EXCEPT !.todo = Tail(@)]]
                ELSE IF below.found THEN below
                ELSE search[[below EXCEPT !.todo = Tail(s.todo), !.stack = @ \ {u}]]
    IN  search

SearchFrom(G, v, acc) ==
    GraphHasCycleUtil(G)[[todo |-> <<v>>, found |-> FALSE, vis |-> acc.vis, stack |-> acc.stack]]

Keep(acc, v) == [acc EXCEPT !.kept = Append(@, v)]
Visit(G, acc, v) == LET s == SearchFrom(G, v, acc)
                    IN  [vis |-> s.vis, stack |-> s.stack,
                         kept |-> IF s.found THEN acc.kept ELSE Append(acc.kept, v)]

\* Fault: a goal that an earlier search has visited is taken to be acyclic.
CheckGoalIfNew(G, acc, v) == IF v \in acc.vis THEN Keep(acc, v) ELSE Visit(G, acc, v)

\* A goal visited earlier is dropped when it was left in stack.
CheckGoal(G, acc, v) == IF v \notin acc.vis THEN Visit(G, acc, v)
                        ELSE IF v \in acc.stack THEN acc
                        ELSE Keep(acc, v)

(* check_cycle: visited and stack are shared by all goals.                    *)
CheckCycle(G, goals) ==
    LET after[n \in 0..Len(goals)] ==
            IF n = 0 THEN [vis |-> {}, stack |-> {}, kept |-> <<>>]
            ELSE CheckGoal(G, after[n - 1], goals[n])
    IN  after[Len(goals)].kept

(* topological_sort_util and topological_sort go over a list of rules in the  *)
(* same way, the dependencies of one rule or the goals: what is not visited   *)
(* yet is, and a rule is appended after the search of its dependencies.  s    *)
(* holds the rest of the list, visited and sorted.                            *)
TopologicalSortUtil(G) ==
    LET search[s \in [todo : Seq(DOMAIN G), visited : SUBSET DOMAIN G, sorted : Seq(DOMAIN G)]] ==
            LET u == Head(s.todo)
                below == search[[todo |-> G[u], visited |-> s.visited \union {u}, sorted |-> s.sorted]]
            IN  IF s.todo = <<>> THEN s
                ELSE IF u \in s.visited
                THEN search[[todo |-> Tail(s.todo), visited |-> s.visited, sorted |-> s.sorted]]
                ELSE search[[todo |-> Tail(s.todo), visited |-> below.visited,
                             sorted |-> Append(below.sorted, u)]]
    IN  search

TopologicalSort(G, targets) ==
    TopologicalSortUtil(G)[[todo |-> targets, visited |-> {}, sorted |-> <<>>]].sorted
-----------------------------------------------------------------------------
(* The reference, by which the two results are judged.                        *)

\* The rules behind v, those reached from it by one or more dependencies.
Needs(G, v) ==
    LET within[n \in 0..Cardinality(DOMAIN G)] ==
            LET nearer == within[n - 1]
            IN  IF n = 0 THEN Range(G[v]) ELSE nearer \union UNION {Range(G[w]) : w \in nearer}
    IN  within[Cardinality(DOMAIN G)]

MeetsCycle(G, v) == \E u \in Needs(G, v) \union {v} : u \in Needs(G, u)

AcyclicGoals(G, goals) ==
    LET upTo[n \in 0..Len(goals)] ==
            IF n = 0 THEN <<>>
            ELSE IF MeetsCycle(G, goals[n]) THEN upTo[n - 1]
            ELSE Append(upTo[n - 1], goals[n])
    IN  upTo[Len(goals)]

\* The list holds every rule that the roots need once, and after everything
\* it depends on.
IsOrderFor(G, list, roots) ==
    /\ IsInjective(list)
    /\ Range(list) = UNION {Needs(G, r) \union {r} : r \in Range(roots)}
    /\ \A i \in DOMAIN list : \A u \in Range(G[list[i]]) : \E j \in 1..(i - 1) : list[j] = u
=============================================================================
