--------------------------- MODULE AddressSpaces ---------------------------
(***************************************************************************)
(* What the mmu promises: each process has pages of its own that hold what *)
(* it wrote to them last, and zero before that.                            *)
(***************************************************************************)
EXTENDS Integers

CONSTANTS Pids, Segments, PageValues, NoSpace

VARIABLES space,  \* the contents of each process's pages, or NoSpace
          result  \* what the last call read, or -1

spacesVars == <<space, result>>

Silent == result' = -1

SpacesInit == space = [p \in Pids |-> NoSpace] /\ result = -1

Come(p) == /\ space[p] = NoSpace
           /\ space' = [space EXCEPT ![p] = [page \in Segments |-> 0]]
           /\ Silent
Go(gone) == space' = [p \in Pids |-> IF p \in gone THEN NoSpace ELSE space[p]] /\ Silent

Load(p, page) == space[p] # NoSpace /\ result' = space[p][page] /\ UNCHANGED space
Store(p, page, v) == /\ space[p] # NoSpace
                     /\ space' = [space EXCEPT ![p][page] = v]
                     /\ Silent
\* Of an access outside of the segments.
Fault == Silent /\ UNCHANGED space

SpacesNext == \/ \E p \in Pids :
                   \/ Come(p)
                   \/ \E page \in Segments : Load(p, page) \/ \E v \in PageValues : Store(p, page, v)
              \/ \E gone \in SUBSET Pids : Go(gone)
              \/ Fault

SpacesSpec == SpacesInit /\ [][SpacesNext]_spacesVars
=============================================================================
