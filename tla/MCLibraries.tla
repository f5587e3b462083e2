---------------------------- MODULE MCLibraries ----------------------------
(* The sequential components, which have nothing to do with each other: an    *)
(* initial state picks the one that is used.                                  *)
EXTENDS Malloc, Mmu, MinixFs, Vector, MemCheck, Scheduler, Shell

VARIABLE library
librariesVars == <<library, mallocVars, mmuVars, minixVars, vectorVars, memVars, schedVars, shellVars>>

\* The pages of segments: in each of two tables the one that a process does
\* not get when it is added.
MCSegments == {<<0, 1>>, <<1, 1>>}

\* A command, one in the background, a list that starts the same command
\* twice, both kinds of conditions, and a redirection.
Line(text, mode, words, zombie) == [text |-> text, mode |-> mode, words |-> words, zombie |-> zombie]
MCLines == {
    Line("a", 0, <<"external">>, FALSE),
    Line("a &", 0, <<"external">>, TRUE),
    Line("a; a &", 1, <<"external", "external">>, TRUE),
    Line("a && cd", 2, <<"external", "cd">>, FALSE),
    Line("cd || a", 3, <<"cd", "external">>, FALSE),
    Line("a > f", 4, <<"external">>, FALSE)}

LibrariesInit ==
    /\ library \in {"malloc", "mmu", "minixfs", "vector", "mini_memcheck", "scheduler", "shell"}
    /\ MallocInit /\ MmuInit /\ MinixInit /\ VectorInit /\ MemInit /\ SchedInit /\ ShellInit
    /\ library # "scheduler" => pqueue_scheme = "FCFS"
    /\ library # "shell" => history = <<>>

Still(name, its_vars) == library # name => UNCHANGED its_vars

LibrariesNext ==
    /\ \/ library = "malloc" /\ MallocNext
       \/ library = "mmu" /\ MmuNext
       \/ library = "minixfs" /\ MinixNext
       \/ library = "vector" /\ VectorNext
       \/ library = "mini_memcheck" /\ MemNext
       \/ library = "scheduler" /\ SchedNext
       \/ library = "shell" /\ ShellNext
    /\ Still("malloc", mallocVars) /\ Still("mmu", mmuVars) /\ Still("minixfs", minixVars)
    /\ Still("vector", vectorVars) /\ Still("mini_memcheck", memVars)
    /\ Still("scheduler", schedVars) /\ Still("shell", shellVars)
    /\ UNCHANGED library

LibrariesSpec == LibrariesInit /\ [][LibrariesNext]_librariesVars
=============================================================================
