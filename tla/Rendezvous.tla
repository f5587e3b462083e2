---------------------------- MODULE Rendezvous ----------------------------
(* What critical_concurrency/barrier.c promises: threads meet round after   *)
(* round, and nobody leaves a round before everybody has arrived in it.     *)
EXTENDS Naturals

CONSTANT Thread

VARIABLES arrived,   \* arrived[t]: rounds t has arrived in
          left       \* left[t]: rounds t has left again

Init == arrived = [t \in Thread |-> 0] /\ left = [t \in Thread |-> 0]

Arrive(t) == /\ arrived[t] = left[t]
             /\ arrived' = [arrived EXCEPT ![t] = @ + 1]
             /\ UNCHANGED left

Leave(t) == /\ left[t] < arrived[t]
            /\ \A u \in Thread : arrived[t] <= arrived[u]
            /\ left' = [left EXCEPT ![t] = @ + 1]
            /\ UNCHANGED arrived

Next == \E t \in Thread : Arrive(t) \/ Leave(t)

Spec == Init /\ [][Next]_<<arrived, left>>
=============================================================================
