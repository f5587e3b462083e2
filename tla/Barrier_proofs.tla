--------------------------- MODULE Barrier_proofs ---------------------------
(* Proofs about Barrier for any number of threads and any width of           *)
(* times_used.                                                                *)
EXTENDS Barrier, TLAPS, FiniteSetTheorems

IInv == TypeOK /\ MutualExclusion /\ CountsInside /\ SleepersAreInside /\ RoundInv

LEMMA InitIInv == Init => IInv
<1>. SUFFICES ASSUME Init PROVE IInv
  OBVIOUS
<1>. USE BarrierAssumption
<1>1. N \in Nat
  BY FS_CardinalityType
<1>2. Inside = {} /\ Waiting = {}
  BY DEF Init, Inside, Waiting
<1>3. TypeOK
  <2>1. ready \in BOOLEAN
    BY Zenon DEF Init
  <2>2. count \in 0..(N - 1) /\ times_used \in 0..(W - 1) /\ met \in Nat
    BY <1>1 DEF Init
  <2>3. /\ local \in [Thread -> 0..(W - 1)]
        /\ arrived \in [Thread -> Nat] /\ left \in [Thread -> Nat]
    BY DEF Init
  <2>. QED  BY <2>1, <2>2, <2>3 DEF Init, TypeOK, Points, Critical
<1>4. MutualExclusion
  BY DEF Init, Critical, MutualExclusion
<1>5. RoundInv
  BY <1>2 DEF Init, RoundInv, RoundOf
<1>. QED  BY <1>2, <1>3, <1>4, <1>5, FS_EmptySet DEF Init, IInv, CountsInside, SleepersAreInside

\* The last thread to arrive finds all the others inside the open round.
LEMMA OthersInside ==
    ASSUME IInv, NEW t \in Thread, Complete(t)
    PROVE  Inside = Thread \ {t}
<1>. USE BarrierAssumption
<1>1. pc[t] = "enter" /\ count + 1 = N /\ count = Cardinality(Inside)
  BY DEF Complete, IInv, CountsInside
<1>2. Inside \subseteq Thread \ {t}
  BY <1>1 DEF Inside
<1>3. /\ IsFiniteSet(Thread \ {t}) /\ Cardinality(Thread \ {t}) = N - 1
      /\ Cardinality(Inside) \in Nat /\ N \in Nat
  BY <1>2, FS_RemoveElement, FS_Subset, FS_CardinalityType
<1>. QED  BY <1>1, <1>2, <1>3, FS_Subset

\* A new round opens: everybody else is woken and none of them is inside it.
LEMMA CompleteIInv ==
    ASSUME IInv, NEW t \in Thread, Complete(t)
    PROVE  IInv'
<1>. USE BarrierAssumption
<1>1. /\ TypeOK /\ MutualExclusion /\ RoundInv /\ N \in Nat
      /\ Inside = Thread \ {t}
  BY OthersInside, FS_CardinalityType DEF IInv
<1>2. /\ pc[t] = "enter" /\ pc'[t] = "unlock" /\ ready /\ m' = m
      /\ pc' \in [Thread -> Points]
      /\ \A u \in Thread \ {t} : pc[u] \in {"wait", "relock", "test"}
                                 /\ local[u] = times_used
                                 /\ pc'[u] = IF pc[u] = "wait" THEN "relock" ELSE pc[u]
  BY <1>1 DEF Complete, Inside, RoundInv, TypeOK, Points, Critical
<1>3. /\ times_used' \in 0..(W - 1) /\ times_used' # times_used
      /\ local' \in [Thread -> 0..(W - 1)] /\ \A u \in Thread : local'[u] = times_used
  BY <1>1, <1>2 DEF Complete, Wrap, TypeOK
<1>4. Inside' = {} /\ Waiting' = {}
  BY <1>2, <1>3 DEF Inside, Waiting
<1>5. /\ arrived' \in [Thread -> Nat] /\ left' = left /\ met' = met + 1 /\ count' = 0
      /\ arrived'[t] = arrived[t] + 1
      /\ \A u \in Thread \ {t} : arrived'[u] = arrived[u]
  BY <1>1 DEF Complete, TypeOK
<1>6. TypeOK'
  <2>1. met' \in Nat /\ left' \in [Thread -> Nat] /\ ready' \in BOOLEAN /\ m' \in Thread \union {NoThread}
    BY <1>1, <1>2, <1>5 DEF TypeOK, Complete
  <2>. QED  BY <1>1, <1>2, <1>3, <1>5, <2>1 DEF TypeOK
<1>7. MutualExclusion'
  BY <1>1, <1>2 DEF MutualExclusion, Critical
<1>8. RoundInv'
  <2>1. ready'
    BY <1>2 DEF Complete
  <2>2. arrived[t] = met /\ left[t] = met
    BY <1>1, <1>2 DEF RoundInv, RoundOf
  <2>3. \A u \in Thread \ {t} : arrived[u] = met + 1 /\ left[u] = met
    BY <1>1 DEF RoundInv, RoundOf
  <2>4. met \in Nat
    BY <1>1 DEF TypeOK
  <2>. QED  BY <1>2, <1>4, <1>5, <2>1, <2>2, <2>3, <2>4 DEF RoundInv, RoundOf
<1>9. CountsInside' /\ SleepersAreInside'
  BY <1>4, <1>5, FS_EmptySet DEF CountsInside, SleepersAreInside
<1>. QED  BY <1>6, <1>7, <1>8, <1>9 DEF IInv

\* A thread that is not the last one joins the open round.
LEMMA EnterIInv ==
    ASSUME IInv, NEW t \in Thread, Enter(t)
    PROVE  IInv'
<1>. USE BarrierAssumption
<1>1. /\ TypeOK /\ MutualExclusion /\ RoundInv /\ SleepersAreInside /\ N \in Nat
      /\ count = Cardinality(Inside)
  BY FS_CardinalityType DEF IInv, CountsInside
<1>2. /\ pc[t] = "enter" /\ pc' = [pc EXCEPT ![t] = "test"] /\ pc' \in [Thread -> Points]
      /\ local' = [local EXCEPT ![t] = times_used] /\ times_used' = times_used
  BY <1>1 DEF Enter, Goto, TypeOK, Points, Critical
<1>3. t \notin Inside /\ Inside' = Inside \union {t} /\ Waiting' = Waiting
  BY <1>1, <1>2 DEF Inside, Waiting, TypeOK
<1>4. count' = Cardinality(Inside') /\ count' \in 0..(N - 1)
  <2>1. IsFiniteSet(Inside)
    BY FS_Subset DEF Inside
  <2>2. Cardinality(Inside') = Cardinality(Inside) + 1
    BY <1>3, <2>1, FS_AddElement
  <2>. QED  BY <1>1, <2>2 DEF Enter, TypeOK
<1>5. TypeOK'
  <2>1. local' \in [Thread -> 0..(W - 1)] /\ arrived' \in [Thread -> Nat]
    BY <1>1 DEF Enter, TypeOK
  <2>. QED  BY <1>1, <1>2, <1>4, <2>1 DEF Enter, TypeOK
<1>6. MutualExclusion'
  BY <1>1, <1>2 DEF Enter, MutualExclusion, Critical, TypeOK
<1>7. SleepersAreInside'
  BY <1>1, <1>3 DEF SleepersAreInside
<1>8. RoundInv'
  <2>1. \A u \in Thread : RoundOf(u)
    BY <1>1 DEF RoundInv
  <2>2. arrived[t] = met /\ left[t] = met /\ ready
    BY <1>1, <1>2, <1>3 DEF RoundInv, RoundOf
  <2>3. /\ arrived' = [arrived EXCEPT ![t] = @ + 1] /\ left' = left /\ met' = met /\ ready' = ready
    BY DEF Enter
  <2>4. RoundOf(t)'
    BY <1>1, <1>3, <2>2, <2>3 DEF RoundOf, TypeOK
  <2>5. ASSUME NEW u \in Thread \ {t} PROVE RoundOf(u)'
    BY <1>1, <1>2, <1>3, <2>1, <2>3 DEF RoundOf, TypeOK
  <2>. QED  BY <2>2, <2>3, <2>4, <2>5 DEF RoundInv
<1>. QED  BY <1>4, <1>5, <1>6, <1>7, <1>8 DEF IInv, CountsInside

\* Every other step moves a thread without changing the rounds.
LEMMA NextIInv == IInv /\ [Next]_vars => IInv'
<1>. SUFFICES ASSUME IInv, [Next]_vars PROVE IInv'
  OBVIOUS
<1>. USE BarrierAssumption
<1>1. /\ TypeOK /\ MutualExclusion /\ RoundInv /\ SleepersAreInside /\ CountsInside /\ N \in Nat
  BY FS_CardinalityType DEF IInv
<1>2. CASE InitBarrier \/ DestroyBarrier
  <2>1. /\ \A t \in Thread : pc[t] = "idle"
        /\ m' = m /\ pc' = pc /\ local' = local /\ arrived' = arrived /\ left' = left /\ met' = met
    BY <1>1, <1>2 DEF InitBarrier, DestroyBarrier, RoundInv
  <2>2. ready' \in BOOLEAN /\ times_used' \in 0..(W - 1)
    <3>1. CASE InitBarrier
      BY <3>1 DEF InitBarrier
    <3>2. CASE DestroyBarrier
      <4>1. ready' = (times_used # 0) /\ times_used' = times_used
        BY <3>2, Zenon DEF DestroyBarrier
      <4>. QED  BY <1>1, <4>1 DEF TypeOK
    <3>. QED  BY <1>2, <3>1, <3>2
  <2>3. Inside = {} /\ Inside' = {} /\ Waiting' = {}
    BY <2>1 DEF Inside, Waiting
  <2>4. count' = 0
    BY <1>1, <1>2, <2>3, FS_EmptySet DEF InitBarrier, DestroyBarrier, CountsInside
  <2>5. TypeOK'
    BY <1>1, <2>1, <2>2, <2>4 DEF TypeOK
  <2>6. RoundInv'
    BY <1>1, <2>1, <2>3 DEF RoundInv, RoundOf
  <2>. QED  BY <1>1, <2>1, <2>3, <2>4, <2>5, <2>6, FS_EmptySet
            DEF IInv, MutualExclusion, CountsInside, SleepersAreInside
<1>3. ASSUME NEW t \in Thread, NEW p \in Points, pc' = [pc EXCEPT ![t] = p],
             UNCHANGED <<ready, count, times_used, local, arrived, left, met>>,
             m' \in Thread \union {NoThread}, MutualExclusion',
             ready, t \in Inside' <=> t \in Inside, p = "wait" => t \in Inside,
             t \notin Inside =>
                (pc[t] \in {"idle", "lock", "enter"} <=> p \in {"idle", "lock", "enter"})
      PROVE  IInv'
  <2>1. TypeOK'
    BY <1>1, <1>3 DEF TypeOK
  <2>2. \A u \in Thread : u # t => pc'[u] = pc[u]
    BY <1>1, <1>3 DEF TypeOK
  <2>3. Inside' = Inside
    BY <1>3, <2>2 DEF Inside
  <2>4. pc'[t] = p
    BY <1>1, <1>3 DEF TypeOK
  <2>5. RoundInv'
    BY <1>1, <1>3, <2>2, <2>3, <2>4 DEF RoundInv, RoundOf
  <2>6. SleepersAreInside'
    BY <1>1, <1>3, <2>2, <2>3, <2>4 DEF SleepersAreInside, Waiting
  <2>. QED  BY <1>1, <1>3, <2>1, <2>3, <2>5, <2>6 DEF IInv, CountsInside
<1>4. ASSUME NEW t \in Thread, CallWait(t) PROVE IInv'
  BY <1>1, <1>3, <1>4 DEF CallWait, Goto, TypeOK, Points, Critical, Inside, MutualExclusion
<1>5. ASSUME NEW t \in Thread, pc[t] # "idle" PROVE ready
  BY <1>1, <1>5 DEF RoundInv
<1>6. ASSUME NEW t \in Thread, Lock(t) PROVE IInv'
  BY <1>1, <1>3, <1>5, <1>6 DEF Lock, Goto, TypeOK, Points, Critical, Inside, MutualExclusion
<1>7. ASSUME NEW t \in Thread, Relock(t) PROVE IInv'
  BY <1>1, <1>3, <1>5, <1>7 DEF Relock, Goto, TypeOK, Points, Critical, Inside, MutualExclusion
<1>8. ASSUME NEW t \in Thread, Spurious(t) PROVE IInv'
  BY <1>1, <1>3, <1>5, <1>8 DEF Spurious, Goto, TypeOK, Points, Critical, Inside, MutualExclusion
<1>9. ASSUME NEW t \in Thread, Test(t) PROVE IInv'
  <2>1. CASE local[t] = times_used
    BY <1>1, <1>3, <1>5, <1>9, <2>1 DEF Test, Goto, TypeOK, Points, Critical, Inside, MutualExclusion
  <2>2. CASE local[t] # times_used
    BY <1>1, <1>3, <1>5, <1>9, <2>2 DEF Test, Goto, TypeOK, Points, Critical, Inside, MutualExclusion
  <2>. QED  BY <2>1, <2>2
<1>10. ASSUME NEW t \in Thread, Unlock(t) PROVE IInv'
  <2>1. /\ pc[t] = "unlock" /\ pc' = [pc EXCEPT ![t] = "idle"] /\ m' = NoThread
        /\ left' = [left EXCEPT ![t] = @ + 1]
        /\ UNCHANGED <<ready, count, times_used, local, arrived, met>>
    BY <1>10 DEF Unlock, Goto
  <2>2. Inside' = Inside /\ Waiting' = Waiting /\ t \notin Inside
    BY <1>1, <2>1 DEF Inside, Waiting, TypeOK
  <2>3. TypeOK'
    BY <1>1, <2>1 DEF TypeOK, Points, Critical
  <2>4. MutualExclusion'
    BY <1>1, <2>1 DEF MutualExclusion, TypeOK, Critical
  <2>5. RoundInv'
    <3>1. ASSUME NEW u \in Thread PROVE RoundOf(u)'
      BY <1>1, <2>1, <2>2 DEF RoundInv, RoundOf, TypeOK
    <3>. QED  BY <3>1, <2>1, <1>5, <1>10 DEF RoundInv, Unlock
  <2>. QED  BY <1>1, <2>1, <2>2, <2>3, <2>4, <2>5 DEF IInv, CountsInside, SleepersAreInside
<1>11. CASE UNCHANGED vars
  BY <1>1, <1>11 DEF vars, IInv, TypeOK, MutualExclusion, CountsInside, SleepersAreInside,
                     RoundInv, RoundOf, Inside, Waiting
<1>. QED
  BY <1>2, <1>4, <1>6, <1>7, <1>8, <1>9, <1>10, <1>11, CompleteIInv, EnterIInv DEF Next, Step

(* The fields stay in range: count never reaches n_threads between two calls. *)
THEOREM TypeCorrect == Spec => []TypeOK
<1>. QED  BY InitIInv, NextIInv, PTL DEF Spec, IInv

(* The broadcast leaves nobody of a completed round asleep, and count is the  *)
(* number of threads in the open round although stragglers are still inside   *)
(* barrier_wait.                                                              *)
THEOREM CountCorrect == Spec => [](CountsInside /\ SleepersAreInside)
<1>. QED  BY InitIInv, NextIInv, PTL DEF Spec, IInv

LEMMA IInvTogether == IInv => Together
<1>. SUFFICES ASSUME IInv PROVE Together
  OBVIOUS
<1>1. ASSUME NEW t \in Thread PROVE left[t] <= met /\ met <= arrived[t]
  BY DEF IInv, TypeOK, RoundInv, RoundOf
<1>2. met \in Nat /\ left \in [Thread -> Nat] /\ arrived \in [Thread -> Nat]
  BY DEF IInv, TypeOK
<1>. QED  BY <1>1, <1>2 DEF Together

(* barrier_wait lets nobody out of a round that somebody has not arrived in,  *)
(* for any number of threads and although times_used wraps.                   *)
THEOREM BarrierCorrect == Spec => []Together
<1>. QED  BY InitIInv, NextIInv, IInvTogether, PTL DEF Spec

(* barrier.c implements the rendezvous: arriving is the increment of count,   *)
(* leaving is the return from barrier_wait.                                   *)
THEOREM RefinesRendezvous == Spec => ImplementsRendezvous
<1>1. Init => Meeting!Init
  BY DEF Init, Meeting!Init
<1>2. IInv /\ [Next]_vars => [Meeting!Next]_<<arrived, left>>
  <2>. SUFFICES ASSUME IInv, [Next]_vars PROVE [Meeting!Next]_<<arrived, left>>
    OBVIOUS
  <2>0. /\ \A t \in Thread : RoundOf(t)
        /\ met \in Nat /\ left \in [Thread -> Nat] /\ arrived \in [Thread -> Nat]
    BY DEF IInv, TypeOK, RoundInv
  <2>1. ASSUME NEW t \in Thread, Enter(t) \/ Complete(t) PROVE Meeting!Arrive(t)
    <3>1. arrived[t] = left[t]
      BY <2>0, <2>1 DEF Enter, Complete, RoundOf, Inside
    <3>. QED  BY <2>1, <3>1 DEF Enter, Complete, Meeting!Arrive
  <2>2. ASSUME NEW t \in Thread, Unlock(t) PROVE Meeting!Leave(t)
    <3>1. pc[t] = "unlock" /\ t \notin Inside
      BY <2>2 DEF Unlock, Inside
    <3>2. arrived[t] = met /\ left[t] + 1 = met
      BY <2>0, <3>1 DEF RoundOf
    <3>3. \A u \in Thread : met <= arrived[u]
      BY <2>0 DEF RoundOf
    <3>. QED  BY <2>0, <2>2, <3>2, <3>3 DEF Unlock, Meeting!Leave
  <2>3. CASE UNCHANGED <<arrived, left>>
    BY <2>3
  <2>. QED
    BY <2>1, <2>2, <2>3
    DEF Next, Step, vars, Meeting!Next, InitBarrier, DestroyBarrier, CallWait, Lock, Test, Relock, Spurious
<1>. QED  BY <1>1, <1>2, InitIInv, NextIInv, PTL DEF Spec, ImplementsRendezvous, Meeting!Spec
=============================================================================
