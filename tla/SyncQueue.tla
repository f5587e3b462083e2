---------------------------- MODULE SyncQueue ----------------------------
(* critical_concurrency/queue.c: a linked list guarded by the mutex m and   *)
(* the condition variable cv that pushers AND pullers wait on.  One step    *)
(* is one call of the pthread library or the straight-line code between    *)
(* two of them.  malloc never fails, as the code assumes.                   *)
EXTENDS Integers, FiniteSets, Sequences

CONSTANTS Thread,    \* the threads that call push and pull
          Value,     \* the void pointers they store
          Node,      \* the addresses malloc may return for a queue_node
          Limits,    \* the max_size they ask queue_create for
          Bound,     \* model bound: nodes of an unlimited queue, stored or about to be
          NULL, NoThread, NoValue

ASSUME QueueAssumption ==
    /\ Limits \subseteq Int /\ Bound \in Nat
    /\ NULL \notin Node /\ NoThread \notin Thread /\ NoValue \notin Value

VARIABLES exists,                 \* between queue_create and queue_destroy
          head, tail, size, max_size,  \* the fields of struct queue
          next, val, live,        \* the heap: links and data of nodes, the allocated ones
          m,                      \* owner of the mutex
          pc, op, data,           \* per thread: program point, call, void *data
          chain                   \* ghost: the nodes linked so far and not unlinked, in order

list == <<head, tail, size, max_size, next, val, live, chain>>
vars == <<exists, list, m, pc, op, data>>

Critical == {"test", "signal", "unlock"}
Points == {"idle", "lock", "wait"} \union Critical

\* The threads blocked in pthread_cond_wait on cv.
Waiting == {t \in Thread : pc[t] = "wait"}
Pushers == {t \in Thread : op[t] = "push" /\ pc[t] \in {"lock", "wait", "test"}}

Full == max_size > 0 /\ size >= max_size
Empty == size = 0

EmptyList == /\ head = NULL /\ tail = NULL /\ size = 0
             /\ next = [n \in Node |-> NULL]
             /\ val = [n \in Node |-> NoValue]
             /\ live = {} /\ chain = <<>>

Init == /\ exists = FALSE /\ max_size = 0
        /\ EmptyList
        /\ m = NoThread
        /\ pc = [t \in Thread |-> "idle"]
        /\ op = [t \in Thread |-> "none"]
        /\ data = [t \in Thread |-> NoValue]

Goto(t, p) == pc' = [pc EXCEPT ![t] = p]
-----------------------------------------------------------------------------
\* The fields of a queue that does not exist are those of an empty one, which
\* queue_create makes of it.
Create(k) == /\ ~exists
             /\ exists' = TRUE
             /\ max_size' = k
             /\ UNCHANGED <<head, tail, size, next, val, live, chain, m, pc, op, data>>

\* The callers destroy a queue after joining its users; the loop frees the
\* nodes from head on, which are those of chain (see ListOK).
Destroy == /\ exists
           /\ \A t \in Thread : pc[t] = "idle"
           /\ exists' = FALSE
           /\ head' = NULL /\ tail' = NULL /\ size' = 0
           /\ live' = live \ {chain[i] : i \in 1..Len(chain)}
           /\ next' = [n \in Node |-> NULL]
           /\ val' = [n \in Node |-> NoValue]
           /\ chain' = <<>>
           /\ UNCHANGED <<max_size, m, pc, op, data>>

Call(t, o, v) == /\ exists
                 /\ pc[t] = "idle"
                 /\ Goto(t, "lock")
                 /\ op' = [op EXCEPT ![t] = o]
                 /\ data' = [data EXCEPT ![t] = v]
                 /\ UNCHANGED <<exists, list, m>>

CallPush(t, v) == /\ max_size <= 0 => Cardinality(live) + Cardinality(Pushers) < Bound
                  /\ Call(t, "push", v)
CallPull(t) == Call(t, "pull", NoValue)

\* pthread_mutex_lock, and the re-acquisition at the end of pthread_cond_wait.
Lock(t) == /\ pc[t] = "lock"
           /\ m = NoThread
           /\ m' = t
           /\ Goto(t, "test")
           /\ UNCHANGED <<exists, list, op, data>>

MustWait(t) == IF op[t] = "push" THEN Full ELSE Empty

\* The while loops: pthread_cond_wait releases m and blocks in one step.
Wait(t) == /\ pc[t] = "test"
           /\ MustWait(t)
           /\ m' = NoThread
           /\ Goto(t, "wait")
           /\ UNCHANGED <<exists, list, op, data>>

\* Fault: nodes are pushed at the head.
LinkAtHead(t) ==
    /\ pc[t] = "test" /\ op[t] = "push" /\ ~MustWait(t)
    /\ size' = size + 1
    /\ \E n \in Node \ live : /\ live' = live \union {n}
                              /\ val' = [val EXCEPT ![n] = data[t]]
                              /\ next' = [next EXCEPT ![n] = head]
                              /\ head' = n /\ tail' = (IF head = NULL THEN n ELSE tail)
                              /\ chain' = <<n>> \o chain
    /\ Goto(t, "signal")
    /\ UNCHANGED <<exists, max_size, m, op, data>>

Link(t) == /\ pc[t] = "test" /\ op[t] = "push" /\ ~MustWait(t)
           /\ size' = size + 1
           /\ \E n \in Node \ live :
                 /\ live' = live \union {n}
                 /\ val' = [val EXCEPT ![n] = data[t]]
                 /\ next' = IF head = NULL THEN [next EXCEPT ![n] = NULL]
                            ELSE [next EXCEPT ![n] = NULL, ![tail] = n]
                 /\ head' = IF head = NULL THEN n ELSE head
                 /\ tail' = n
                 /\ chain' = Append(chain, n)
           /\ Goto(t, "signal")
           /\ UNCHANGED <<exists, max_size, m, op, data>>

\* Fault: tail is left dangling when the last node goes.
UnlinkKeepsTail(t) == /\ pc[t] = "test" /\ op[t] = "pull" /\ ~MustWait(t)
                      /\ size' = size - 1
                      /\ data' = [data EXCEPT ![t] = val[head]]
                      /\ head' = next[head]
                      /\ live' = live \ {head}
                      /\ next' = [next EXCEPT ![head] = NULL]
                      /\ val' = [val EXCEPT ![head] = NoValue]
                      /\ chain' = Tail(chain)
                      /\ Goto(t, "signal")
                      /\ UNCHANGED <<exists, max_size, tail, m, op>>

\* A freed node's fields are reset: ListOK says that nothing reads them.
Unlink(t) == /\ pc[t] = "test" /\ op[t] = "pull" /\ ~MustWait(t)
             /\ size' = size - 1
             /\ data' = [data EXCEPT ![t] = val[head]]
             /\ head' = next[head]
             /\ tail' = IF next[head] = NULL THEN NULL ELSE tail
             /\ live' = live \ {head}
             /\ next' = [next EXCEPT ![head] = NULL]
             /\ val' = [val EXCEPT ![head] = NoValue]
             /\ chain' = Tail(chain)
             /\ Goto(t, "signal")
             /\ UNCHANGED <<exists, max_size, m, op>>

\* Faults: only one of the two calls signals.
SignalAfter(t, o) ==
    /\ pc[t] = "signal"
    /\ IF Waiting = {} \/ op[t] # o THEN Goto(t, "unlock")
       ELSE \E w \in Waiting : pc' = [pc EXCEPT ![t] = "unlock", ![w] = "lock"]
    /\ UNCHANGED <<exists, list, m, op, data>>
SignalAfterPull(t) == SignalAfter(t, "pull")
SignalAfterPush(t) == SignalAfter(t, "push")

\* pthread_cond_signal wakes one waiter, whichever it is, or nobody.
Signal(t) == /\ pc[t] = "signal"
             /\ IF Waiting = {} THEN Goto(t, "unlock")
                ELSE \E w \in Waiting : pc' = [pc EXCEPT ![t] = "unlock", ![w] = "lock"]
             /\ UNCHANGED <<exists, list, m, op, data>>

\* pthread_mutex_unlock and return.
Unlock(t) == /\ pc[t] = "unlock"
             /\ m' = NoThread
             /\ Goto(t, "idle")
             /\ op' = [op EXCEPT ![t] = "none"]
             /\ data' = [data EXCEPT ![t] = NoValue]
             /\ UNCHANGED <<exists, list>>

\* POSIX allows pthread_cond_wait to return without a signal.
Spurious(t) == /\ pc[t] = "wait"
               /\ Goto(t, "lock")
               /\ UNCHANGED <<exists, list, m, op, data>>

\* What the thread itself does once it is inside a call.
Step(t) == Lock(t) \/ Wait(t) \/ Link(t) \/ Unlink(t) \/ Signal(t) \/ Unlock(t)

Next == \/ \E k \in Limits : Create(k)
        \/ Destroy
        \/ \E t \in Thread : \/ \E v \in Value : CallPush(t, v)
                             \/ CallPull(t)
                             \/ Step(t)
                             \/ Spurious(t)

Spec == Init /\ [][Next]_vars

\* A runnable thread is scheduled eventually; a free mutex is given to somebody.
Fairness == \A t \in Thread : WF_vars(Step(t))
\* Spurious wakeups do not go on for ever.
FairSpec == Spec /\ Fairness /\ <>[][~\E t \in Thread : Spurious(t)]_vars
-----------------------------------------------------------------------------
(* Every field holds a value of its type: struct queue and the heap nodes.   *)
TypeOK == /\ exists \in BOOLEAN
          /\ head \in Node \union {NULL} /\ tail \in Node \union {NULL}
          /\ size \in Int /\ max_size \in Int
          /\ next \in [Node -> Node \union {NULL}]
          /\ val \in [Node -> Value \union {NoValue}]
          /\ live \subseteq Node
          /\ m \in Thread \union {NoThread}
          /\ pc \in [Thread -> Points]
          /\ op \in [Thread -> {"none", "push", "pull"}]
          /\ data \in [Thread -> Value \union {NoValue}]
          /\ chain \in Seq(Node)

(* The list queue_push and queue_pull maintain is never torn: size counts     *)
(* its nodes, head and tail are its ends (both NULL when it is empty), every  *)
(* link leads to the next node and only allocated nodes are linked, so that   *)
(* no freed node is read and none leaks.                                      *)
ListOK == /\ size = Len(chain)
          /\ \A i, j \in 1..Len(chain) : chain[i] = chain[j] => i = j
          /\ live = {chain[i] : i \in 1..Len(chain)}
          /\ head = IF chain = <<>> THEN NULL ELSE chain[1]
          /\ tail = IF chain = <<>> THEN NULL ELSE chain[Len(chain)]
          /\ \A i \in 1..Len(chain) :
                next[chain[i]] = IF i = Len(chain) THEN NULL ELSE chain[i + 1]

(* The threads between pthread_mutex_lock and pthread_mutex_unlock exclude    *)
(* each other, across the waits in pthread_cond_wait.                         *)
MutualExclusion == \A t \in Thread : pc[t] \in Critical <=> m = t

(* max_size is respected, however many pushers wake up at once.               *)
CapacityRespected == max_size > 0 => size <= max_size

\* A thread that will test the queue again or wake up somebody.
Awake == \E t \in Thread : pc[t] \in {"lock", "test", "signal"}

(* No waiter of an unlimited queue is forgotten: while values are stored and  *)
(* a puller sleeps on cv, some thread is on its way to pull or to signal.     *)
NoLostWakeup ==
    (max_size <= 0 /\ size > 0 /\ Waiting # {})
        => \E t \in Thread : \/ pc[t] = "signal"
                             \/ op[t] = "pull" /\ pc[t] \in {"lock", "test"}

(* The same for any queue and both kinds of waiters: whoever sleeps on cv     *)
(* could only go on sleeping, or somebody is awake who will look after it.    *)
(* queue.c:31 promises thread-safety from the mutex and ONE condition         *)
(* variable; it holds while there are at most 2 * max_size threads and at     *)
(* most max_size + 2.                                                         *)
NobodyForgotten == (\E t \in Waiting : ~MustWait(t)) => Awake

(* Values that are stored while somebody pulls do not stay for ever: some     *)
(* pull takes a value, whatever the other threads do.                         *)
PullsHappen ==
    (size > 0 /\ \E t \in Thread : op[t] = "pull" /\ pc[t] \in {"lock", "wait", "test"})
        ~> (\E t \in Thread : op[t] = "pull" /\ pc[t] = "signal")

\* What a caller sees of a thread's progress through its call.
Status(t) == IF pc[t] = "idle" THEN "idle"
             ELSE IF pc[t] \in {"signal", "unlock"} THEN "done" ELSE op[t]

Fifo == INSTANCE FifoQueue
          WITH capacity <- max_size,
               queue <- [i \in 1..Len(chain) |-> val[chain[i]]],
               status <- [t \in Thread |-> Status(t)],
               hand <- data

(* The linked list with its mutex and condition variable is a FIFO queue:     *)
(* push takes effect when it links its node, pull when it unlinks one.        *)
ImplementsFifo == Fifo!Spec
=============================================================================
