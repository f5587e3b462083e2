------------------------------- MODULE Shell -------------------------------
(***************************************************************************)
(* shell/shell.c: a shell, its history and its children.  A line is a      *)
(* record [text, mode, words, zombie]: mode 0 is one command, 1 is ;, 2 is *)
(* &&, 3 is ||, 4 to 6 are the redirections; words are the kinds of its    *)
(* commands, "cd" (and ps) or "external"; zombie says that it ends in &.   *)
(* Parsing and printing are left out.  A fork gives the next number; pids  *)
(* are not used again.  Children run, stop, go on and end as they like.    *)
(***************************************************************************)
EXTENDS Integers, Sequences, FiniteSets

CONSTANTS Lines,
          MaxForks, MaxHistory,  \* bounds
          ShellPid

\* A line is its text: the other fields are what it is parsed into.
ASSUME ShellAssumption == /\ ShellPid \notin Nat
                          /\ \A l \in Lines : l.mode \in 0..6 /\ l.zombie \in BOOLEAN
                          /\ \A l, k \in Lines : l.text = k.text => l = k

VARIABLES history,  \* entries [line, pid]
          child,    \* children, by pid: [line, state, foreground]
          shell,    \* "prompt", "run" (a command of line is next), "waitpid", "wait", "exited", "failed"
          job,      \* the line that is run, and which of its commands
          last      \* what run_cmd or redirect returned last

shellVars == <<history, child, shell, job, last>>

NoJobYet == [line |-> [text |-> "", mode |-> 0, words |-> <<>>, zombie |-> FALSE], part |-> 0]

\* The history of an earlier session is read first (-h).
ShellInit == /\ history \in {<<>>} \cup {<<[line |-> l, pid |-> ShellPid]>> : l \in Lines}
             /\ child = <<>>
             /\ shell = "prompt"
             /\ job = NoJobYet
             /\ last = 0
-----------------------------------------------------------------------------
\* store_process, for a line that is typed or taken from the history.
RunLine(l) == /\ Len(history) < MaxHistory
              /\ history' = Append(history, [line |-> l, pid |-> ShellPid])
              /\ job' = [line |-> l, part |-> 1]
              /\ shell' = "run"
              /\ UNCHANGED <<child, last>>

TypeLine == shell = "prompt" /\ \E l \in Lines : RunLine(l)

\* #n and !prefix run an entry again.
RunAgain == shell = "prompt" /\ \E n \in DOMAIN history : RunLine(history[n].line)

\* #n with n the number of entries passes the check of line 392 and uses a
\* pointer that was never set.
RunPastHistory == /\ shell = "prompt"
                  /\ shell' = "failed"
                  /\ UNCHANGED <<history, child, job, last>>

\* Fault: the first entry gets the pid, whatever its text.
ModifyPidOfFirst(h, l, pid) == [h EXCEPT ![1].pid = pid]

\* modify_pid: the first entry with this text.
ModifyPid(h, l, pid) ==
  LET same == {n \in DOMAIN h : h[n].line.text = l.text}
  IN [h EXCEPT ![CHOOSE n \in same : \A k \in same : n <= k].pid = pid]

\* After a command that returned pid (-1: it failed): the second command, or
\* the prompt.
Recorded(pid) == IF job.line.mode \in {2, 3} THEN ShellPid ELSE pid
SecondRuns(pid) == /\ job.part = 1
                   /\ \/ job.line.mode = 1
                      \/ job.line.mode = 2 /\ pid # -1
                      \/ job.line.mode = 3 /\ pid = -1
GivesUp(pid) == pid = -1 /\ job.line.mode \in {0, 2, 3}

GoOn(pid) ==
  /\ last' = pid
  /\ IF SecondRuns(pid)
     THEN /\ shell' = "run"
          /\ job' = [job EXCEPT !.part = 2]
          /\ UNCHANGED history
     ELSE /\ shell' = "prompt"
          /\ job' = NoJobYet
          /\ history' = IF GivesUp(pid) THEN history
                        ELSE ModifyPid(history, job.line, Recorded(pid))

Fork(foreground) ==
  /\ Len(child) < MaxForks
  /\ child' = Append(child, [line |-> job.line, state |-> "running", foreground |-> foreground])

\* run_cmd: cd returns 0 or -1, external_run the pid of a command in the
\* background, or waits.
Builtin == /\ shell = "run" /\ job.line.mode < 4 /\ job.line.words[job.part] = "cd"
           /\ \E pid \in {0, -1} : GoOn(pid)
           /\ UNCHANGED child

\* A redirection executes whatever its first word is.
StartsExternal == shell = "run" /\ (job.line.mode >= 4 \/ job.line.words[job.part] = "external")

RunInBackground == /\ StartsExternal /\ job.line.zombie /\ job.line.mode < 4
                   /\ Fork(FALSE)
                   /\ GoOn(Len(child) + 1)

RunAndWait == /\ StartsExternal /\ ~job.line.zombie /\ job.line.mode < 4
              /\ Fork(TRUE)
              /\ shell' = "waitpid"
              /\ UNCHANGED <<history, job, last>>

\* Fault: a redirection is not waited for.
RedirectWithoutWait == /\ StartsExternal /\ job.line.mode >= 4
                       /\ Fork(TRUE)
                       /\ GoOn(Len(child) + 1)

Redirect == /\ StartsExternal /\ job.line.mode >= 4
            /\ Fork(TRUE)
            /\ shell' = "wait"
            /\ UNCHANGED <<history, job, last>>

ForkFails == /\ StartsExternal
             /\ shell' = "failed"
             /\ UNCHANGED <<history, child, job, last>>

Ended(p) == child[p].state \in {"succeeded", "died"}

\* waitpid with WUNTRACED: a command that stops looks like one that failed,
\* since WEXITSTATUS is then the signal; it stays behind, stopped.
WaitpidReturns ==
  LET p == Len(child)
  IN /\ shell = "waitpid" /\ child[p].state # "running"
     /\ child' = [child EXCEPT ![p] = IF Ended(p) THEN [@ EXCEPT !.state = "reaped"]
                                      ELSE [@ EXCEPT !.foreground = FALSE]]
     /\ GoOn(IF child[p].state = "succeeded" THEN p ELSE -1)

\* wait(NULL): some child.
WaitReturns ==
  /\ shell = "wait"
  /\ \E p \in DOMAIN child : Ended(p) /\ child' = [child EXCEPT ![p].state = "reaped"]
  /\ GoOn(Len(child))

\* kill, stop and cont of a child that is known to the system.
Signal(p, from, to) ==
  child' = [child EXCEPT ![p].state = IF @ \in from THEN to ELSE @]

Command ==
  /\ shell = "prompt"
  /\ \E p \in DOMAIN child :
       /\ child[p].state # "reaped"
       /\ \/ Signal(p, {"running", "stopped"}, "succeeded")  \* SIGKILL leaves WEXITSTATUS zero
          \/ Signal(p, {"running"}, "stopped")
          \/ Signal(p, {"stopped"}, "running")
  /\ UNCHANGED <<history, shell, job, last>>

\* exit: every process that an entry names is killed, if it is there.
Killed(h) == {h[n].pid : n \in DOMAIN h} \ {ShellPid}

Exit == /\ shell = "prompt"
        /\ shell' = "exited"
        /\ child' = [p \in DOMAIN child |->
                       IF p \in Killed(history) /\ ~Ended(p) /\ child[p].state # "reaped"
                       THEN [child[p] EXCEPT !.state = "succeeded"] ELSE child[p]]
        /\ UNCHANGED <<history, job, last>>

ChildMoves ==
  /\ shell \notin {"exited", "failed"}
  /\ \E p \in DOMAIN child :
       \/ \E end \in {"succeeded", "died"} : child[p].state = "running" /\ Signal(p, {"running"}, end)
       \/ child[p].foreground /\ child[p].state = "running" /\ Signal(p, {"running"}, "stopped")
       \/ child[p].state = "stopped" /\ Signal(p, {"stopped"}, "running")
  /\ UNCHANGED <<history, shell, job, last>>

ShellNext == \/ TypeLine \/ RunAgain \/ RunPastHistory \/ Builtin \/ RunInBackground
             \/ RunAndWait \/ Redirect \/ ForkFails \/ WaitpidReturns \/ WaitReturns
             \/ Command \/ Exit \/ ChildMoves

ShellSpec == ShellInit /\ [][ShellNext]_shellVars
-----------------------------------------------------------------------------
\* Every wait takes one child: what a redirection leaves unwaited for, since
\* its wait(NULL) took a child of the background (shell.c:312), is paid for
\* by such a child, and at the prompt no other command of the foreground is
\* still at work.
Foreground == {p \in DOMAIN child : child[p].foreground}
Reaped == {p \in DOMAIN child : child[p].state = "reaped"}

WaitsAreEven ==
  shell \in {"prompt", "exited"} =>
    Cardinality(Foreground \ Reaped) = Cardinality(Reaped \ Foreground)

\* What survives the shell (shell.c:627-638) is a command of a list, one
\* that stopped in the foreground, or one whose line was run again later; a
\* single line in the background that was typed once never does.
LeftBehind ==
  shell = "exited" =>
    \A p \in DOMAIN child :
      child[p].state \in {"running", "stopped"} =>
        \/ child[p].line.mode \in {1, 2, 3}
        \/ ~child[p].line.zombie /\ child[p].line.mode = 0
        \/ \E q \in p + 1 .. Len(child) : child[q].line.text = child[p].line.text
=============================================================================
