---------------------------- MODULE FifoQueue ----------------------------
(* What critical_concurrency/queue.c promises its callers: a first-in      *)
(* first-out queue whose push and pull each take effect in one step        *)
(* somewhere between the call and the return.  A capacity that is not       *)
(* positive means no limit.  SyncQueue shows that the linked list behind    *)
(* one mutex and one condition variable implements it.                      *)
EXTENDS Integers, Sequences

CONSTANTS Thread,    \* the calling threads
          Value,     \* the pointers the callers store
          Limits,    \* the capacities they ask for: no limit when <= 0
          NoValue    \* no value in hand

VARIABLES capacity,  \* max_size of queue_create
          queue,     \* the stored values, oldest first
          status,    \* status[t]: idle, or which call t is in, or that it took effect
          hand       \* hand[t]: what t pushes, or what its pull returns

vars == <<capacity, queue, status, hand>>

Full == capacity > 0 /\ Len(queue) >= capacity

Init == /\ capacity = 0
        /\ queue = <<>>
        /\ status = [t \in Thread |-> "idle"]
        /\ hand = [t \in Thread |-> NoValue]

Call(t, op, v) == /\ status[t] = "idle"
                  /\ status' = [status EXCEPT ![t] = op]
                  /\ hand' = [hand EXCEPT ![t] = v]
                  /\ UNCHANGED <<capacity, queue>>

Push(t) == /\ status[t] = "push"
           /\ ~Full
           /\ queue' = Append(queue, hand[t])
           /\ status' = [status EXCEPT ![t] = "done"]
           /\ UNCHANGED <<capacity, hand>>

Pull(t) == /\ status[t] = "pull"
           /\ queue # <<>>
           /\ queue' = Tail(queue)
           /\ hand' = [hand EXCEPT ![t] = Head(queue)]
           /\ status' = [status EXCEPT ![t] = "done"]
           /\ UNCHANGED capacity

Return(t) == /\ status[t] = "done"
             /\ status' = [status EXCEPT ![t] = "idle"]
             /\ hand' = [hand EXCEPT ![t] = NoValue]
             /\ UNCHANGED <<capacity, queue>>

\* queue_create: a new queue, of any capacity.
Create(k) == /\ queue = <<>> /\ \A t \in Thread : status[t] = "idle"
             /\ capacity' = k
             /\ UNCHANGED <<queue, status, hand>>

\* queue_destroy, once nobody is inside: what is still stored is dropped.
Clear == /\ \A t \in Thread : status[t] = "idle"
         /\ queue' = <<>>
         /\ UNCHANGED <<capacity, status, hand>>

Next == \/ \E t \in Thread : \/ \E v \in Value : Call(t, "push", v)
                             \/ Call(t, "pull", NoValue)
                             \/ Push(t)
                             \/ Pull(t)
                             \/ Return(t)
        \/ Clear
        \/ \E k \in Limits : Create(k)

Spec == Init /\ [][Next]_vars
=============================================================================
