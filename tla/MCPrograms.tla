----------------------------- MODULE MCPrograms -----------------------------
(* cracker2 and mapreduce, which have nothing to do with each other: an       *)
(* initial state picks the program that runs.                                 *)
EXTENDS Cracker, MapReduce

VARIABLE program
programsVars == <<program, vars, mapReduceVars>>

ProgramsInit ==
    /\ program \in {"cracker2", "mapreduce"}
    /\ Init /\ MapReduceInit
    /\ program # "cracker2" => \A u \in 1..Users : solution[u] = {}
    /\ program # "mapreduce" => Sum = 0

ProgramsNext == /\ \/ program = "cracker2" /\ Next /\ UNCHANGED mapReduceVars
                   \/ program = "mapreduce" /\ MapReduceNext /\ UNCHANGED vars
                /\ UNCHANGED program

\* The fairness of the program that runs.
ProgramsSpec ==
    /\ ProgramsInit /\ [][ProgramsNext]_programsVars
    /\ \/ program = "cracker2" /\ CrackerFairness
       \/ program = "mapreduce" /\ MapReduceFairness
-----------------------------------------------------------------------------
(* The threads of cracker2 never wait for ever at a barrier or for a job that *)
(* does not come (cracker2.c:36-129).                                         *)
CrackersJoin == program = "cracker2" => AllJoined

(* The processes of mapreduce never wait for ever at a pipe that stays open,  *)
(* if the input fits into the pipes (mapreduce.c:85-133).                     *)
PipelineEnds == program = "mapreduce" => Terminates
=============================================================================
