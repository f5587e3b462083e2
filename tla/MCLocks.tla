------------------------------ MODULE MCLocks ------------------------------
(* The semaphore and the drms side by side: an initial state picks one of     *)
(* them, the other is left alone.                                             *)
EXTENDS Semamore, Drm

VARIABLE library

LocksInit == library \in {"semamore", "libdrm"} /\ Init /\ GraphInit

\* Where the graph was lost nothing is claimed any more, and nothing followed.
LocksNext == /\ \/ library = "semamore" /\ Next /\ UNCHANGED drmVars
                \/ library = "libdrm" /\ ~lost /\ DrmNext /\ UNCHANGED vars
                \/ lost /\ UNCHANGED <<vars, drmVars>>
             /\ UNCHANGED library

\* The fairness of each library, for the library that runs.
LocksSpec ==
    /\ LocksInit /\ [][LocksNext]_<<library, vars, drmVars>>
    /\ \A t \in Thread : WF_vars(Step(t))
    /\ \A t \in DrmThread : WF_drmVars(DrmStep(t))
    /\ <>[][~\E t \in Thread : Spurious(t)]_vars
=============================================================================
