----------------------------- MODULE MapReduce -----------------------------
(* mapreduce/mapreduce.c: a parent forks splitters, mappers and a reducer    *)
(* and connects them by pipes.  A pipe is empty for good only when no process *)
(* holds its write end any more; every child inherits the descriptors that    *)
(* are open in the parent when it is forked.  Data are counted in units.      *)
EXTENDS Integers, FiniteSets, FiniteSetsExt

CONSTANTS Mappers,    \* num_mappers
          Capacity,   \* units that fit into a pipe
          MaxData     \* model bound: units a splitter writes

Mapper == 1..Mappers
Pipe == 0..Mappers                       \* input_pipes[i], and 0: reducer_input_pipe
Workers == {"splitter", "mapper"} \X Mapper
PARENT == <<"parent", 0>>
REDUCER == <<"reducer", 0>>
Process == Workers \union {PARENT, REDUCER}

ASSUME MapReduceAssumption == Mappers \in Nat \ {0} /\ Capacity \in Nat /\ MaxData \in Nat

VARIABLES at, i,           \* the parent: program point, loop counter
          status,          \* of each process: new, running, ended or failed
          data,            \* units the splitters and mappers have still to write
          in_pipe,         \* units in each pipe
          writers,         \* the processes that hold the write end of each pipe
          output           \* units the reducer has read

parent == <<at, i>>
mapReduceVars == <<parent, status, data, in_pipe, writers, output>>

MapReduceInit ==
        /\ at = "split" /\ i = 1
        /\ status = [p \in Process |-> IF p = PARENT THEN "running" ELSE "new"]
        /\ \E d \in [Mapper -> 0..MaxData] :
              data = [p \in Workers |-> IF p[1] = "splitter" THEN d[p[2]] ELSE 0]
        /\ in_pipe = [q \in Pipe |-> 0]
        /\ writers = [q \in Pipe |-> {PARENT}]
        /\ output = 0

Ended(p) == status[p] \in {"ended", "failed"}
-----------------------------------------------------------------------------
(* fork_process: the child inherits all write ends the parent has, and closes *)
(* those of its own input and output pipes.  The output stays open as its     *)
(* standard output.  When fork fails, 1 is taken for the pid; waitpid of it   *)
(* fails, so that the process counts as ended.                                *)
Fork(p, input, closed) ==
    \/ /\ status' = [status EXCEPT ![p] = "running"]
       /\ writers' = [q \in Pipe |->
                         IF PARENT \in writers[q] /\ q # input THEN (writers[q] \union {p}) \ closed[q]
                         ELSE writers[q] \ closed[q]]
    \/ /\ status' = [status EXCEPT ![p] = "failed"]
       /\ writers' = [q \in Pipe |-> writers[q] \ closed[q]]

NoEnds == [q \in Pipe |-> {}]
Close(q) == [NoEnds EXCEPT ![q] = {PARENT}]

\* The next round of a loop over the mappers, or what comes after it.
Loop(here, there) == IF i < Mappers THEN at' = here /\ i' = i + 1 ELSE at' = there /\ i' = 1

Split == /\ at = "split"
         /\ Fork(<<"splitter", i>>, -1, NoEnds)
         /\ Loop("split", "wait_split")
         /\ UNCHANGED <<data, in_pipe, output>>

WaitSplit == /\ at = "wait_split" /\ Ended(<<"splitter", i>>)
             /\ Loop("wait_split", "map")
             /\ UNCHANGED <<status, data, in_pipe, writers, output>>

\* Fault: the parent keeps the input pipes open.
MapKeepsInput == /\ at = "map"
                 /\ Fork(<<"mapper", i>>, i, NoEnds)
                 /\ Loop("map", "wait_map")
                 /\ UNCHANGED <<data, in_pipe, output>>

Map == /\ at = "map"
       /\ Fork(<<"mapper", i>>, i, Close(i))
       /\ Loop("map", "wait_map")
       /\ UNCHANGED <<data, in_pipe, output>>

WaitMap == /\ at = "wait_map" /\ Ended(<<"mapper", i>>)
           /\ Loop("wait_map", "reduce")
           /\ UNCHANGED <<status, data, in_pipe, writers, output>>

Reduce == /\ at = "reduce"
          /\ Fork(REDUCER, 0, Close(0))
          /\ at' = "wait_reduce" /\ UNCHANGED i
          /\ UNCHANGED <<data, in_pipe, output>>

\* Fault: the output is looked at before the reducer has ended.
WaitForNothing == /\ at = "wait_reduce"
                  /\ at' = "done" /\ UNCHANGED i
                  /\ UNCHANGED <<status, data, in_pipe, writers, output>>

WaitReduce == /\ at = "wait_reduce" /\ Ended(REDUCER)
              /\ at' = "done" /\ UNCHANGED i
              /\ UNCHANGED <<status, data, in_pipe, writers, output>>
-----------------------------------------------------------------------------
(* The children. *)

Output(p) == IF p[1] = "splitter" THEN p[2] ELSE 0

Write(p) == /\ status[p] = "running" /\ data[p] > 0
            /\ in_pipe[Output(p)] < Capacity
            /\ in_pipe' = [in_pipe EXCEPT ![Output(p)] = @ + 1]
            /\ data' = [data EXCEPT ![p] = @ - 1]
            /\ UNCHANGED <<parent, status, writers, output>>

\* A mapper has a unit to write for each one it reads.
ReadMapper(m) == /\ status[<<"mapper", m>>] = "running" /\ in_pipe[m] > 0
                 /\ in_pipe' = [in_pipe EXCEPT ![m] = @ - 1]
                 /\ data' = [data EXCEPT ![<<"mapper", m>>] = @ + 1]
                 /\ UNCHANGED <<parent, status, writers, output>>

ReadReducer == /\ status[REDUCER] = "running" /\ in_pipe[0] > 0
               /\ in_pipe' = [in_pipe EXCEPT ![0] = @ - 1]
               /\ output' = output + 1
               /\ UNCHANGED <<parent, status, data, writers>>

\* The end of the input: the pipe is empty and nobody can write to it.
AtEnd(q) == in_pipe[q] = 0 /\ writers[q] = {}

CanExit(p) == IF p = REDUCER THEN AtEnd(0)
               ELSE data[p] = 0 /\ (p[1] = "mapper" => AtEnd(p[2]))

\* exit closes all descriptors.
Exit(p) == /\ p # PARENT /\ status[p] = "running" /\ CanExit(p)
           /\ status' = [status EXCEPT ![p] = "ended"]
           /\ writers' = [q \in Pipe |-> writers[q] \ {p}]
           /\ UNCHANGED <<parent, data, in_pipe, output>>

\* execvp failed, or the program gave up.
Fail(p) == /\ p # PARENT /\ status[p] = "running"
           /\ status' = [status EXCEPT ![p] = "failed"]
           /\ writers' = [q \in Pipe |-> writers[q] \ {p}]
           /\ UNCHANGED <<parent, data, in_pipe, output>>
-----------------------------------------------------------------------------
Parent == Split \/ WaitSplit \/ Map \/ WaitMap \/ Reduce \/ WaitReduce
Child(p) == \/ p \in Workers /\ Write(p)
            \/ (\E m \in Mapper : p = <<"mapper", m>> /\ ReadMapper(m))
            \/ p = REDUCER /\ ReadReducer
            \/ Exit(p)
Done == at = "done" /\ UNCHANGED mapReduceVars

MapReduceNext == Parent \/ (\E p \in Process : Child(p) \/ Fail(p)) \/ Done

MapReduceFairness == /\ WF_mapReduceVars(Parent)
                     /\ \A p \in Process : WF_mapReduceVars(Child(p))

MapReduceSpec == MapReduceInit /\ [][MapReduceNext]_mapReduceVars /\ MapReduceFairness
-----------------------------------------------------------------------------
Sum == FoldSet(LAMBDA p, n : data[p] + n, 0, Workers)
Fits == Sum <= Capacity

(* When the input fits into the pipes everything comes to an end: although    *)
(* each mapper also holds the inputs of those forked after it, none waits for *)
(* ever for the end of its input, and the parent does not keep a write end.   *)
(* Otherwise the parent may wait for ever for a splitter that waits for room  *)
(* in a pipe whose mapper was not started, or for a mapper in the same way.   *)
Terminates == Fits => <>(at = "done")

AllSucceeded == \A p \in Process : status[p] # "failed"

(* Nothing that was split is missing in the output when all processes were   *)
(* successful: the reducer stops only after the last unit of every mapper.    *)
OutputIsComplete ==
    at = "done" /\ AllSucceeded => /\ \A p \in Workers : data[p] = 0
                                  /\ \A q \in Pipe : in_pipe[q] = 0
=============================================================================
