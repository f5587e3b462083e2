---------------------------- MODULE Locks_proofs ----------------------------
(* Proofs about the two libraries that make threads wait for each other: for  *)
(* any finite set of threads and any max_val the semaphore strands no unit;   *)
(* for any threads and drms the fields of the drms and the graph say the same *)
(* of each other, whatever the cycle check answers.                           *)
EXTENDS Semamore, Drm, TLAPS, FiniteSetTheorems
-----------------------------------------------------------------------------
(* The semaphore.                                                             *)

\* A thread inside a call knows which one, so that whoever is woken on cv is
\* in semm_wait.
CallsKnown == \A t \in Waiting : op[t] = "wait"

IInv == TypeOK /\ MutualExclusion /\ CallsKnown /\ NoStrandedUnit

LEMMA HelpersFinite == IsFiniteSet(Helpers) /\ Cardinality(Helpers) \in Nat
  BY SemamoreAssumption, FS_Subset, FS_CardinalityType DEF Helpers

LEMMA InitIInv == Init => IInv
  BY SemamoreAssumption
  DEF Init, IInv, TypeOK, Points, Critical, MutualExclusion, CallsKnown, NoStrandedUnit, Waiting

\* The shape of a step that moves t and adds it to, or takes it from, Helpers.
LEMMA HelpersMove ==
    ASSUME NEW t \in Thread, TypeOK, \A u \in Thread \ {t} : pc'[u] = pc[u] /\ op'[u] = op[u]
    PROVE  /\ Cardinality(Helpers') \in Nat
           /\ t \in Helpers /\ t \in Helpers' => Cardinality(Helpers') = Cardinality(Helpers)
           /\ t \notin Helpers /\ t \notin Helpers' => Cardinality(Helpers') = Cardinality(Helpers)
           /\ t \notin Helpers /\ t \in Helpers' => Cardinality(Helpers') = Cardinality(Helpers) + 1
           /\ t \in Helpers /\ t \notin Helpers' => Cardinality(Helpers') = Cardinality(Helpers) - 1
<1>1. \A u \in Thread \ {t} : u \in Helpers' <=> u \in Helpers
  BY DEF Helpers
<1>2. Helpers \subseteq Thread /\ Helpers' \subseteq Thread
  BY DEF Helpers
<1>3. /\ t \in Helpers /\ t \in Helpers' => Helpers' = Helpers
      /\ t \notin Helpers /\ t \notin Helpers' => Helpers' = Helpers
      /\ t \notin Helpers /\ t \in Helpers' => Helpers' = Helpers \union {t}
      /\ t \in Helpers /\ t \notin Helpers' => Helpers' = Helpers \ {t}
  BY <1>1, <1>2
<1>4. IsFiniteSet(Helpers) /\ IsFiniteSet(Helpers') /\ Cardinality(Helpers') \in Nat
  BY <1>2, SemamoreAssumption, FS_Subset, FS_CardinalityType
<1>. QED  BY <1>3, <1>4, FS_AddElement, FS_RemoveElement

LEMMA NextIInv == IInv /\ [Next]_vars => IInv'
<1>. SUFFICES ASSUME IInv, [Next]_vars PROVE IInv'
  OBVIOUS
<1>. USE SemamoreAssumption
<1>1. /\ TypeOK /\ MutualExclusion /\ CallsKnown /\ NoStrandedUnit
      /\ pc \in [Thread -> Points] /\ op \in [Thread -> {"none", "wait", "post"}]
      /\ value \in 0..MaxVal /\ due \in Int /\ Cardinality(Helpers) \in Nat
  BY HelpersFinite DEF IInv, TypeOK
<1>2. ASSUME NEW t \in Thread, NEW o \in {"wait", "post"}, Call(t, o) PROVE IInv'
  <2>1. /\ pc[t] = "idle" /\ pc' = [pc EXCEPT ![t] = "lock"] /\ op' = [op EXCEPT ![t] = o]
        /\ value' = value /\ m' = m /\ due' = due
    BY <1>2 DEF Call, Goto
  <2>2. TypeOK' /\ MutualExclusion' /\ CallsKnown'
    BY <1>1, <2>1 DEF TypeOK, Points, Critical, MutualExclusion, CallsKnown, Waiting
  <2>3. t \notin Helpers /\ Waiting' = Waiting
    BY <1>1, <2>1 DEF Helpers, Waiting
  <2>4. \A u \in Thread \ {t} : pc'[u] = pc[u] /\ op'[u] = op[u]
    BY <1>1, <2>1
  <2>. QED  BY <1>1, <2>1, <2>2, <2>3, <2>4, HelpersMove DEF IInv, NoStrandedUnit
<1>3. ASSUME NEW t \in Thread, Lock(t) PROVE IInv'
  <2>1. /\ pc[t] = "lock" /\ pc' = [pc EXCEPT ![t] = "test"] /\ op' = op /\ m = NoThread
        /\ value' = value /\ m' = t /\ due' = due
    BY <1>3 DEF Lock, Goto
  <2>2. TypeOK' /\ MutualExclusion' /\ CallsKnown'
    BY <1>1, <2>1 DEF TypeOK, Points, Critical, MutualExclusion, CallsKnown, Waiting
  <2>3. (t \in Helpers' <=> t \in Helpers) /\ Waiting' = Waiting
    BY <1>1, <2>1 DEF Helpers, Waiting
  <2>4. \A u \in Thread \ {t} : pc'[u] = pc[u] /\ op'[u] = op[u]
    BY <1>1, <2>1
  <2>. QED  BY <1>1, <2>1, <2>2, <2>3, <2>4, HelpersMove DEF IInv, NoStrandedUnit
<1>4. ASSUME NEW t \in Thread, Block(t) PROVE IInv'
  <2>1. /\ pc[t] = "test" /\ pc' = [pc EXCEPT ![t] = "wait"] /\ op' = op /\ op[t] = "wait"
        /\ value = 0 /\ value' = value /\ m' = NoThread /\ due' = due
    BY <1>4 DEF Block, Goto
  <2>2. TypeOK' /\ MutualExclusion' /\ CallsKnown'
    BY <1>1, <2>1 DEF TypeOK, Points, Critical, MutualExclusion, CallsKnown, Waiting
  <2>3. \A u \in Thread \ {t} : pc'[u] = pc[u] /\ op'[u] = op[u]
    BY <1>1, <2>1
  <2>. QED  BY <1>1, <2>1, <2>2, <2>3, HelpersMove DEF IInv, NoStrandedUnit
<1>5. ASSUME NEW t \in Thread, Take(t) PROVE IInv'
  <2>1. /\ pc[t] = "test" /\ pc' = [pc EXCEPT ![t] = "unlock"] /\ op' = op /\ op[t] = "wait"
        /\ value # 0 /\ value' = value - 1 /\ m' = m /\ due' = due - 1
    BY <1>5 DEF Take, Goto
  <2>2. TypeOK' /\ MutualExclusion' /\ CallsKnown'
    BY <1>1, <2>1 DEF TypeOK, Points, Critical, MutualExclusion, CallsKnown, Waiting
  <2>3. t \in Helpers /\ t \notin Helpers' /\ Waiting' = Waiting
    BY <1>1, <2>1 DEF Helpers, Waiting
  <2>4. \A u \in Thread \ {t} : pc'[u] = pc[u] /\ op'[u] = op[u]
    BY <1>1, <2>1
  <2>. QED  BY <1>1, <2>1, <2>2, <2>3, <2>4, HelpersMove DEF IInv, NoStrandedUnit
<1>6. ASSUME NEW t \in Thread, Post(t) PROVE IInv'
  <2>1. /\ pc[t] = "test" /\ op' = op /\ op[t] = "post" /\ m' = m /\ due' = due + 1
        /\ \/ value < MaxVal /\ value' = value + 1 /\ pc' = [pc EXCEPT ![t] = "signal"]
           \/ value' = value /\ pc' = [pc EXCEPT ![t] = "unlock"]
    BY <1>6 DEF Post, Goto
  <2>2. TypeOK' /\ MutualExclusion' /\ CallsKnown'
    BY <1>1, <2>1 DEF TypeOK, Points, Critical, MutualExclusion, CallsKnown, Waiting
  <2>3. /\ t \notin Helpers /\ Waiting' = Waiting
        /\ value' = value \/ (value' = value + 1 /\ t \in Helpers')
    BY <1>1, <2>1 DEF Helpers, Waiting
  <2>4. \A u \in Thread \ {t} : pc'[u] = pc[u] /\ op'[u] = op[u]
    BY <1>1, <2>1
  <2>. QED  BY <1>1, <2>2, <2>3, <2>4, HelpersMove DEF IInv, NoStrandedUnit
<1>7. ASSUME NEW t \in Thread, Signal(t) PROVE IInv'
  <2>1. pc[t] = "signal" /\ value' = value /\ m' = m /\ op' = op /\ due' = due
    BY <1>7 DEF Signal
  <2>2. CASE Waiting = {}
    <3>1. pc' = [pc EXCEPT ![t] = "unlock"]
      BY <1>7, <2>2 DEF Signal, Goto
    <3>2. Waiting' = {}
      BY <1>1, <2>2, <3>1 DEF Waiting
    <3>3. TypeOK' /\ MutualExclusion' /\ CallsKnown'
      BY <1>1, <2>1, <3>1 DEF TypeOK, Points, Critical, MutualExclusion, CallsKnown, Waiting
    <3>. QED  BY <3>2, <3>3 DEF IInv, NoStrandedUnit
  <2>3. CASE Waiting # {}
    <3>1. PICK w \in Waiting : pc' = [pc EXCEPT ![t] = "unlock", ![w] = "lock"]
      BY <1>7, <2>3 DEF Signal
    <3>2. w \in Thread /\ w # t /\ op[w] = "wait" /\ pc[w] = "wait"
      BY <1>1, <2>1 DEF Waiting, CallsKnown
    <3>3. TypeOK' /\ MutualExclusion' /\ CallsKnown'
      BY <1>1, <2>1, <3>1, <3>2 DEF TypeOK, Points, Critical, MutualExclusion, CallsKnown, Waiting
    <3>4. Helpers' = (Helpers \ {t}) \union {w} /\ t \in Helpers /\ w \notin Helpers
      BY <1>1, <2>1, <3>1, <3>2 DEF Helpers
    <3>5. Cardinality(Helpers') = Cardinality(Helpers)
      <4>1. IsFiniteSet(Helpers \ {t}) /\ Cardinality(Helpers \ {t}) = Cardinality(Helpers) - 1
        BY <3>4, HelpersFinite, FS_RemoveElement
      <4>2. w \notin Helpers \ {t}
        BY <3>4
      <4>3. Cardinality(Helpers') = Cardinality(Helpers \ {t}) + 1
        BY <3>4, <4>1, <4>2, FS_AddElement
      <4>. QED  BY <4>1, <4>3, HelpersFinite
    <3>. QED  BY <1>1, <2>1, <2>3, <3>3, <3>5 DEF IInv, NoStrandedUnit
  <2>. QED  BY <2>2, <2>3
<1>8. ASSUME NEW t \in Thread, Unlock(t) PROVE IInv'
  <2>1. /\ pc[t] = "unlock" /\ pc' = [pc EXCEPT ![t] = "idle"] /\ op' = [op EXCEPT ![t] = "none"]
        /\ value' = value /\ m' = NoThread /\ due' = due
    BY <1>8 DEF Unlock, Goto
  <2>2. TypeOK' /\ MutualExclusion' /\ CallsKnown'
    BY <1>1, <2>1 DEF TypeOK, Points, Critical, MutualExclusion, CallsKnown, Waiting
  <2>3. t \notin Helpers /\ t \notin Helpers' /\ Waiting' = Waiting
    BY <1>1, <2>1 DEF Helpers, Waiting
  <2>4. \A u \in Thread \ {t} : pc'[u] = pc[u] /\ op'[u] = op[u]
    BY <1>1, <2>1
  <2>. QED  BY <1>1, <2>1, <2>2, <2>3, <2>4, HelpersMove DEF IInv, NoStrandedUnit
<1>9. ASSUME NEW t \in Thread, Spurious(t) PROVE IInv'
  <2>1. /\ pc[t] = "wait" /\ pc' = [pc EXCEPT ![t] = "lock"] /\ op' = op
        /\ value' = value /\ m' = m /\ due' = due
    BY <1>9 DEF Spurious, Goto
  <2>2. TypeOK' /\ MutualExclusion' /\ CallsKnown' /\ op[t] = "wait"
    BY <1>1, <2>1 DEF TypeOK, Points, Critical, MutualExclusion, CallsKnown, Waiting
  <2>3. t \notin Helpers /\ t \in Helpers' /\ t \in Waiting
    BY <1>1, <2>1, <2>2 DEF Helpers, Waiting
  <2>4. \A u \in Thread \ {t} : pc'[u] = pc[u] /\ op'[u] = op[u]
    BY <1>1, <2>1
  <2>. QED  BY <1>1, <2>1, <2>2, <2>3, <2>4, HelpersMove DEF IInv, NoStrandedUnit
<1>10. CASE UNCHANGED vars
  BY <1>1, <1>10 DEF vars, IInv, TypeOK, MutualExclusion, CallsKnown, NoStrandedUnit, Helpers, Waiting
<1>. QED
  BY <1>2, <1>3, <1>4, <1>5, <1>6, <1>7, <1>8, <1>9, <1>10 DEF Next, Step

(* semm_wait never takes a unit that is not there and semm_post never exceeds *)
(* max_val: the value stays in 0..max_val.                                    *)
THEOREM TypeCorrect == Spec => []TypeOK
<1>. QED  BY InitIInv, NextIInv, PTL DEF Spec, IInv

(* With any number of threads, one signal per post strands no unit while a    *)
(* thread sleeps in semm_wait.                                                *)
THEOREM UnitsNotStranded == Spec => []NoStrandedUnit
<1>. QED  BY InitIInv, NextIInv, PTL DEF Spec, IInv
-----------------------------------------------------------------------------
(* The drms and their graph.                                                  *)

Making == {"init", "create", "new_drm"}
Breaking == {"destroy", "remove"}
Entering == {"wait", "add_drm"}
Seen == {"see_thread", "add_thread"}
\* Inside of drm_wait after its check.
Asking == {"check_locked", "request", "check_cycle", "search", "give_up", "spin", "take", "hold"}
Posting == {"post", "post_thread", "post_edge", "unhold", "unlock"}

DrmPoints == {"idle", "check_edge"} \union Making \union Breaking \union Entering \union Seen
               \union Asking \union Posting

GraphTypeOK == /\ alive \subseteq DRM
               /\ locked \in [DRM -> {0, 1}]
               /\ lost \in BOOLEAN
               /\ drm_pc \in [DrmThread -> DrmPoints]
               /\ arg \in [DrmThread -> DRM \union {Nobody}]
               /\ held \in [DrmThread -> SUBSET alive]

\* A drm that is being made or destroyed is used by one thread, and a thread
\* inside of another call is there for a drm that nobody destroys.
Private == Making \union Breaking
CallsApart ==
  /\ \A t \in DrmThread : drm_pc[t] \in Private => arg[t] \in DRM \ alive
  /\ \A t \in DrmThread : drm_pc[t] \notin Private \union {"idle"} => arg[t] \in alive
  /\ \A t, u \in DrmThread : drm_pc[t] \in Private /\ drm_pc[u] \in Private /\ t # u => arg[t] # arg[u]

\* A thread does not hold what it asks for.
NotHeldYet == \A t \in DrmThread : drm_pc[t] \in Asking \union {"unlock"} => arg[t] \notin held[t]

\* What drm_wait has added is in the graph, and so are both ends of an edge.
InGraph ==
  /\ \A t \in DrmThread : drm_pc[t] \in Seen \union {"check_edge"} \union Asking => arg[t] \in vertices
  /\ \A t \in DrmThread : drm_pc[t] \in {"check_edge"} \union Asking => t \in vertices
  /\ edges \subseteq (vertices \intersect DrmThread) \X (vertices \intersect DRM)
  /\ vertices \subseteq DrmThread \union alive \union Leaving

\* Each edge is a drm that was given or that is asked for.
EdgesKnown ==
  \A t \in DrmThread, d \in DRM :
    /\ d \in held[t] => <<t, d>> \in edges
    /\ <<t, d>> \in edges => \/ d \in held[t]
                             \/ arg[t] = d /\ drm_pc[t] \in Asking
                             \/ d \in Leaving

GraphInv == GraphTypeOK /\ CallsApart /\ (~lost => NotHeldYet /\ InGraph /\ EdgesKnown /\ LockedIsOwned)

LEMMA InitGraphInv == GraphInit => GraphInv
  BY DEF GraphInit, GraphInv, GraphTypeOK, DrmPoints, CallsApart, Private, Making, Breaking, Entering, Seen,
         Posting, NotHeldYet, Asking, InGraph, Leaving, EdgesKnown, LockedIsOwned

LEMMA NextGraphInv == GraphInv /\ [DrmNext]_drmVars => GraphInv'
<1>. SUFFICES ASSUME GraphInv, [DrmNext]_drmVars PROVE GraphInv'
  OBVIOUS
<1>. USE DrmAssumption
     DEF GraphInv, GraphTypeOK, DrmPoints, CallsApart, Private, Making, Breaking, Entering, Seen,
         Posting, NotHeldYet, Asking, InGraph, Leaving, EdgesKnown, LockedIsOwned, drms, rag,
         Return, Continue, DrmGoto
<1>1. ASSUME NEW t \in DrmThread, NEW d \in DRM, CallInit(t, d) PROVE GraphInv'
  BY <1>1 DEF CallInit, EnterCall, Quiet
<1>2. ASSUME NEW t \in DrmThread, NEW d \in DRM, CallDestroy(t, d) PROVE GraphInv'
  BY <1>2 DEF CallDestroy, EnterCall, Quiet
<1>3. ASSUME NEW t \in DrmThread, NEW d \in DRM, CallDrm(t, d, "wait") \/ CallDrm(t, d, "post")
      PROVE GraphInv'
  BY <1>3 DEF CallDrm, EnterCall
<1>4. ASSUME NEW t \in DrmThread, CheckGraph(t) PROVE GraphInv'
  BY <1>4 DEF CheckGraph
<1>5. ASSUME NEW t \in DrmThread, CreateGraph(t) PROVE GraphInv'
  <2>1. /\ drm_pc[t] = "create" /\ drm_pc' = [drm_pc EXCEPT ![t] = "new_drm"] /\ arg' = arg
        /\ UNCHANGED <<alive, locked, held>>
        /\ lost' \in BOOLEAN /\ (lost' <=> lost \/ vertices # {})
        /\ vertices' = {} /\ edges' = {}
    BY <1>5 DEF CreateGraph
  <2>2. GraphTypeOK' /\ CallsApart'
    BY <2>1
  <2>3. SUFFICES ASSUME ~lost' PROVE (NotHeldYet /\ InGraph /\ EdgesKnown /\ LockedIsOwned)'
    BY <2>2
  <2>4. ~lost /\ vertices = {} /\ edges = {} /\ vertices' = vertices /\ edges' = edges
    BY <2>1, <2>3
  <2>. QED
    BY <2>1, <2>4
<1>6. ASSUME NEW t \in DrmThread, NewDrm(t) PROVE GraphInv'
  BY <1>6 DEF NewDrm
<1>7. ASSUME NEW t \in DrmThread, FindDrm(t) PROVE GraphInv'
  BY <1>7 DEF FindDrm
<1>8. ASSUME NEW t \in DrmThread, RemoveDrm(t) PROVE GraphInv'
  BY <1>8 DEF RemoveDrm
<1>9. ASSUME NEW t \in DrmThread, AddVertices(t) PROVE GraphInv'
  BY <1>9 DEF AddVertices, SeeVertex, AddVertex
<1>10. ASSUME NEW t \in DrmThread, CheckEdge(t) PROVE GraphInv'
  BY <1>10 DEF CheckEdge
<1>11. ASSUME NEW t \in DrmThread, ReadLocked(t) PROVE GraphInv'
  BY <1>11 DEF ReadLocked
<1>12. ASSUME NEW t \in DrmThread, Request(t) PROVE GraphInv'
  BY <1>12 DEF Request
<1>13. ASSUME NEW t \in DrmThread, CheckCycle(t) PROVE GraphInv'
  <2>1. /\ drm_pc[t] \in {"check_cycle", "search"}
        /\ drm_pc' \in {[drm_pc EXCEPT ![t] = p] : p \in {"search", "spin", "give_up"}}
        /\ UNCHANGED <<arg, drms, rag, held>>
    BY <1>13 DEF CheckCycle, StartSearch, NextStart, LookAt, EndLoop, SearchOn, Answer, Searching
  <2>. QED
    BY <2>1
<1>14. ASSUME NEW t \in DrmThread, GiveUp(t) PROVE GraphInv'
  BY <1>14 DEF GiveUp
<1>15. ASSUME NEW t \in DrmThread, TakeDrm(t) PROVE GraphInv'
  BY <1>15 DEF TakeDrm
<1>16. ASSUME NEW t \in DrmThread, Hold(t) PROVE GraphInv'
  BY <1>16 DEF Hold
<1>17. ASSUME NEW t \in DrmThread, PostCheck(t) PROVE GraphInv'
  BY <1>17 DEF PostCheck, PostTest
<1>18. ASSUME NEW t \in DrmThread, Unhold(t) PROVE GraphInv'
  BY <1>18 DEF Unhold
<1>19. ASSUME NEW t \in DrmThread, UnlockDrm(t) PROVE GraphInv'
  BY <1>19 DEF UnlockDrm
<1>20. CASE UNCHANGED drmVars
  BY <1>20 DEF drmVars
<1>. QED
  BY <1>1, <1>2, <1>3, <1>4, <1>5, <1>6, <1>7, <1>8, <1>9, <1>10, <1>11, <1>12, <1>13,
     <1>14, <1>15, <1>16, <1>17, <1>18, <1>19, <1>20 DEF DrmNext, DrmStep

(* Unless the graph was lost by two first calls of drm_init, every locked drm *)
(* has a thread that will unlock it, and the graph registers what threads     *)
(* hold, for any number of threads and drms (libdrm.c:73-148).                *)
THEOREM GraphCorrect == DrmSpec => []GraphAndLocksAgree
<1>1. GraphInv /\ ~lost => EdgesAreHoldings
  <2>1. SUFFICES ASSUME GraphInv, ~lost, NEW t \in DrmThread, drm_pc[t] = "idle"
                 PROVE Neighbors(edges, t) \ Leaving = held[t]
    BY DEF EdgesAreHoldings
  <2>2. held[t] \subseteq alive /\ alive \subseteq DRM /\ edges \subseteq DrmThread \X DRM /\ drm_pc[t] \notin Asking
    BY <2>1 DEF GraphInv, GraphTypeOK, Asking, InGraph
  <2>3. ASSUME NEW d \in held[t] PROVE d \in Neighbors(edges, t) \ Leaving
    <3>1. <<t, d>> \in edges
      BY <2>1, <2>2, <2>3 DEF GraphInv, EdgesKnown
    <3>2. \E e \in edges : e[1] = t /\ e[2] = d
      BY <3>1, <<t, d>>[1] = t, <<t, d>>[2] = d
    <3>3. d \notin Leaving
      BY <2>1, <2>2, <2>3 DEF GraphInv, CallsApart, Private, Breaking, Leaving
    <3>. QED
      BY <3>2, <3>3 DEF Neighbors
  <2>4. ASSUME NEW d \in Neighbors(edges, t) \ Leaving PROVE d \in held[t]
    <3>1. PICK e \in edges : e[1] = t /\ e[2] = d
      BY <2>4 DEF Neighbors
    <3>2. d \in DRM /\ <<t, d>> \in edges
      BY <2>2, <3>1
    <3>. QED
      BY <2>1, <2>2, <2>4, <3>2 DEF GraphInv, EdgesKnown
  <2>. QED
    BY <2>3, <2>4
<1>2. GraphInv /\ ~lost => edges \subseteq DrmThread \X (alive \union Leaving)
  BY DrmAssumption DEF GraphInv, InGraph
<1>3. GraphInv => GraphAndLocksAgree
  BY <1>1, <1>2 DEF GraphInv, InGraph, GraphAndLocksAgree
<1>. QED
  BY <1>3, InitGraphInv, NextGraphInv, PTL DEF DrmSpec
=============================================================================
