-------------------------- MODULE SyncQueue_proofs --------------------------
(* Proofs about SyncQueue, for any threads, values, nodes and limits.       *)
EXTENDS SyncQueue, TLAPS, SequenceTheorems, FiniteSetTheorems

\* TypeOK is not inductive alone: queue_pull reads the fields of head, which
\* is a node only because size counts the nodes of the list.
ListInv == TypeOK /\ ListOK

\* The empty list satisfies ListOK, whatever the rest of the state.
LEMMA EmptyListOK == EmptyList => ListOK
<1>1. ASSUME EmptyList PROVE Len(chain) = 0 /\ live = {chain[i] : i \in 1..Len(chain)}
  BY <1>1 DEF EmptyList
<1>. QED  BY <1>1 DEF EmptyList, ListOK

LEMMA InitListInv == Init => ListInv
<1>1. ASSUME Init PROVE TypeOK
  <2>1. chain \in Seq(Node)
    BY <1>1 DEF Init, EmptyList
  <2>2. /\ next \in [Node -> Node \union {NULL}] /\ val \in [Node -> Value \union {NoValue}]
        /\ head \in Node \union {NULL} /\ tail \in Node \union {NULL}
        /\ live \subseteq Node /\ size \in Int /\ max_size \in Int
    BY <1>1 DEF Init, EmptyList
  <2>. QED  BY <1>1, <2>1, <2>2 DEF Init, TypeOK, Points, Critical
<1>. QED  BY <1>1, EmptyListOK DEF Init, ListInv

\* queue_push links its node behind the last one and keeps the list well-formed.
LEMMA LinkListInv ==
    ASSUME ListInv, NEW t \in Thread, Link(t)
    PROVE  ListInv'
<1>. USE QueueAssumption DEF ListInv
<1>1. PICK n \in Node \ live :
         /\ live' = live \union {n}
         /\ val' = [val EXCEPT ![n] = data[t]]
         /\ next' = IF head = NULL THEN [next EXCEPT ![n] = NULL]
                    ELSE [next EXCEPT ![n] = NULL, ![tail] = n]
         /\ head' = IF head = NULL THEN n ELSE head
         /\ tail' = n
         /\ chain' = Append(chain, n)
  BY DEF Link
<1>2. size' = size + 1 /\ pc' = [pc EXCEPT ![t] = "signal"] /\ UNCHANGED <<exists, max_size, m, op, data>>
  BY DEF Link, Goto
<1>3. chain \in Seq(Node) /\ Len(chain) \in Nat /\ size = Len(chain)
  BY DEF TypeOK, ListOK
<1>4. /\ chain' \in Seq(Node) /\ Len(chain') = Len(chain) + 1
      /\ \A i \in 1..Len(chain) : chain'[i] = chain[i]
      /\ chain'[Len(chain) + 1] = n
  BY <1>1, <1>3
<1>5. \A i \in 1..Len(chain) : chain[i] \in live /\ chain[i] \in Node /\ chain[i] # n
  BY <1>3, <1>1 DEF ListOK
<1>6. TypeOK'
  <2>1. head' \in Node /\ tail' \in Node /\ live' \subseteq Node
    BY <1>1 DEF TypeOK
  <2>2. next' \in [Node -> Node \union {NULL}]
    BY <1>1 DEF TypeOK
  <2>3. val' \in [Node -> Value \union {NoValue}]
    BY <1>1 DEF TypeOK
  <2>4. pc' \in [Thread -> Points]
    BY <1>2 DEF TypeOK, Points, Critical
  <2>. QED  BY <1>2, <1>4, <2>1, <2>2, <2>3, <2>4 DEF TypeOK
<1>7. ListOK'
  <2>1. CASE chain = <<>>
    <3>1. head = NULL /\ Len(chain) = 0
      BY <2>1 DEF ListOK
    <3>2. Len(chain') = 1 /\ chain'[1] = n /\ chain' # <<>>
      BY <1>4, <3>1
    <3>3. live' = {n} /\ head' = n /\ tail' = n /\ next'[n] = NULL
      BY <1>1, <3>1 DEF ListOK, TypeOK
    <3>. QED  BY <3>1, <3>2, <3>3, <1>2, <1>3 DEF ListOK
  <2>2. CASE chain # <<>>
    <3>1. /\ Len(chain) > 0 /\ head = chain[1] /\ tail = chain[Len(chain)]
          /\ head # NULL /\ tail \in Node /\ tail # n
      BY <2>2, <1>3, <1>5 DEF ListOK
    <3>2. next' = [next EXCEPT ![n] = NULL, ![tail] = n]
      BY <1>1, <3>1
    <3>3. /\ size' = Len(chain')
          /\ head' = chain'[1] /\ tail' = chain'[Len(chain')] /\ chain' # <<>>
      BY <1>1, <1>2, <1>3, <1>4, <3>1
    <3>4. \A i, j \in 1..Len(chain') : chain'[i] = chain'[j] => i = j
      BY <1>3, <1>4, <1>5 DEF ListOK
    <3>5. live' = {chain'[i] : i \in 1..Len(chain')}
      BY <1>1, <1>3, <1>4 DEF ListOK
    <3>6. ASSUME NEW i \in 1..Len(chain')
          PROVE  next'[chain'[i]] = IF i = Len(chain') THEN NULL ELSE chain'[i + 1]
      <4>1. CASE i = Len(chain) + 1
        BY <4>1, <1>4, <3>2, <3>1 DEF TypeOK
      <4>2. CASE i = Len(chain)
        BY <4>2, <1>3, <1>4, <3>2, <3>1 DEF TypeOK
      <4>3. CASE i < Len(chain)
        <5>1. chain'[i] = chain[i] /\ chain'[i + 1] = chain[i + 1] /\ chain[i] # tail
          BY <4>3, <1>3, <1>4, <3>1 DEF ListOK
        <5>2. next'[chain[i]] = next[chain[i]]
          BY <4>3, <5>1, <3>2, <1>3, <1>5 DEF TypeOK
        <5>. QED  BY <4>3, <5>1, <5>2, <1>3, <1>4 DEF ListOK
      <4>. QED  BY <4>1, <4>2, <4>3, <1>3, <1>4
    <3>. QED  BY <3>3, <3>4, <3>5, <3>6 DEF ListOK
  <2>. QED  BY <2>1, <2>2
<1>. QED  BY <1>6, <1>7

\* queue_pull takes the first node off and frees it: the rest is still a list.
LEMMA UnlinkListInv ==
    ASSUME ListInv, NEW t \in Thread, Unlink(t)
    PROVE  ListInv'
<1>. USE QueueAssumption DEF ListInv
<1>1. chain \in Seq(Node) /\ Len(chain) \in Nat /\ size = Len(chain) /\ size # 0
  BY DEF TypeOK, ListOK, Unlink, MustWait, Empty
<1>2. chain # <<>> /\ head = chain[1] /\ head \in Node
  BY <1>1 DEF ListOK
<1>3. /\ chain' = Tail(chain) /\ chain' \in Seq(Node) /\ Len(chain') = Len(chain) - 1
      /\ \A i \in 1..Len(chain') : chain'[i] = chain[i + 1]
  BY <1>1, <1>2 DEF Unlink
<1>4. \A i \in 1..Len(chain') : chain'[i] # head /\ chain'[i] \in Node
  BY <1>1, <1>2, <1>3 DEF ListOK
<1>5. TypeOK'
  <2>1. next[head] \in Node \union {NULL} /\ val[head] \in Value \union {NoValue}
    BY <1>2 DEF TypeOK
  <2>2. /\ head' \in Node \union {NULL} /\ tail' \in Node \union {NULL}
        /\ live' \subseteq Node /\ size' \in Int
    BY <2>1, <1>1 DEF Unlink, TypeOK
  <2>3. /\ next' \in [Node -> Node \union {NULL}]
        /\ val' \in [Node -> Value \union {NoValue}]
        /\ data' \in [Thread -> Value \union {NoValue}]
    BY <2>1 DEF Unlink, TypeOK
  <2>4. pc' \in [Thread -> Points]
    BY DEF Unlink, Goto, TypeOK, Points, Critical
  <2>. QED  BY <1>3, <2>2, <2>3, <2>4 DEF Unlink, TypeOK
<1>6. next' = [next EXCEPT ![head] = NULL]
  BY DEF Unlink
<1>7. ListOK'
  <2>1. \A i, j \in 1..Len(chain') : chain'[i] = chain'[j] => i = j
    BY <1>1, <1>3 DEF ListOK
  <2>2. live' = {chain'[i] : i \in 1..Len(chain')}
    <3>1. live = {chain[i] : i \in 1..Len(chain)} /\ live' = live \ {chain[1]}
      BY <1>2 DEF ListOK, Unlink
    <3>2. ASSUME NEW n \in live' PROVE \E i \in 1..Len(chain') : n = chain'[i]
      <4>1. PICK k \in 1..Len(chain) : n = chain[k] /\ k # 1
        BY <3>1
      <4>2. k - 1 \in 1..Len(chain') /\ chain'[k - 1] = chain[k]
        BY <4>1, <1>1, <1>3
      <4>. QED  BY <4>1, <4>2
    <3>3. ASSUME NEW i \in 1..Len(chain') PROVE chain'[i] \in live'
      BY <3>1, <1>1, <1>2, <1>3, <1>4
    <3>. QED  BY <3>2, <3>3
  <2>3. ASSUME NEW i \in 1..Len(chain')
        PROVE  next'[chain'[i]] = IF i = Len(chain') THEN NULL ELSE chain'[i + 1]
    <3>1. next'[chain'[i]] = next[chain[i + 1]]
      BY <1>3, <1>4, <1>6 DEF TypeOK
    <3>2. i + 1 \in 1..Len(chain) /\ (i = Len(chain') <=> i + 1 = Len(chain))
      BY <1>1, <1>3
    <3>3. i # Len(chain') => chain'[i + 1] = chain[i + 2]
      BY <1>1, <1>3
    <3>. QED  BY <3>1, <3>2, <3>3, <1>1 DEF ListOK
  <2>4. CASE Len(chain) = 1
    <3>1. chain' = <<>> /\ next[head] = NULL /\ size' = 0
      BY <2>4, <1>1, <1>2, <1>3 DEF ListOK, Unlink
    <3>2. head' = NULL /\ tail' = NULL
      BY <3>1 DEF Unlink
    <3>. QED  BY <3>1, <3>2, <2>1, <2>2, <2>3 DEF ListOK
  <2>5. CASE Len(chain) > 1
    <3>1. next[head] = chain[2] /\ chain[2] # NULL /\ chain' # <<>>
      <4>1. 1 \in 1..Len(chain) /\ 1 # Len(chain) /\ 1 \in 1..Len(chain')
        BY <2>5, <1>1, <1>3
      <4>2. next[chain[1]] = chain[2]
        BY <4>1 DEF ListOK
      <4>3. chain[2] \in Node
        BY <4>1, <1>3, <1>4
      <4>4. chain' # <<>>
        <5>1. Len(chain') # 0 /\ chain' \in Seq(Node)
          BY <4>1, <1>1, <1>3
        <5>. QED  BY <5>1, EmptySeq
      <4>. QED  BY <4>2, <4>3, <4>4, <1>2
    <3>2. head' = chain'[1] /\ tail' = tail /\ tail = chain[Len(chain)] /\ size' = Len(chain')
      BY <2>5, <3>1, <1>1, <1>2, <1>3 DEF Unlink, ListOK
    <3>3. chain'[Len(chain')] = chain[Len(chain)]
      BY <2>5, <1>1, <1>3
    <3>. QED  BY <3>1, <3>2, <3>3, <2>1, <2>2, <2>3 DEF ListOK
  <2>. QED  BY <2>4, <2>5, <1>1
<1>. QED  BY <1>5, <1>7

\* Only Link, Unlink and Destroy touch the list.
LEMMA NextListInv == ListInv /\ [Next]_vars => ListInv'
<1>. SUFFICES ASSUME ListInv, [Next]_vars PROVE ListInv'
  OBVIOUS
<1>. USE QueueAssumption DEF ListInv
<1>1. ASSUME UNCHANGED list PROVE ListOK'
  BY <1>1 DEF list, ListOK
<1>2. ASSUME NEW k \in Limits, Create(k) PROVE ListInv'
  <2>1. ListOK'
    BY <1>2 DEF Create, ListOK
  <2>2. TypeOK'
    BY <1>2 DEF Create, TypeOK
  <2>. QED  BY <2>1, <2>2
<1>3. CASE Destroy
  <2>1. live' = {} /\ chain' = <<>> /\ Len(chain') = 0
    BY <1>3 DEF Destroy, ListOK
  <2>2. ListOK'
    <3>1. live' = {chain'[i] : i \in 1..Len(chain')}
      BY <2>1
    <3>. QED  BY <1>3, <2>1, <3>1 DEF Destroy, ListOK
  <2>3. /\ next' \in [Node -> Node \union {NULL}] /\ val' \in [Node -> Value \union {NoValue}]
        /\ chain' \in Seq(Node)
    BY <1>3 DEF Destroy
  <2>4. TypeOK'
    <3>1. exists' \in BOOLEAN
      BY <1>3, Zenon DEF Destroy
    <3>2. head' = NULL /\ tail' = NULL /\ size' = 0 /\ max_size' = max_size
      BY <1>3 DEF Destroy
    <3>3. m' = m /\ pc' = pc /\ op' = op /\ data' = data
      BY <1>3 DEF Destroy
    <3>. QED  BY <2>1, <2>3, <3>1, <3>2, <3>3 DEF TypeOK
  <2>. QED  BY <2>2, <2>4
<1>4. ASSUME NEW t \in Thread, NEW v \in Value, CallPush(t, v) PROVE ListInv'
  BY <1>1, <1>4 DEF CallPush, Call, Goto, TypeOK, list, Points, Critical
<1>5. ASSUME NEW t \in Thread, CallPull(t) PROVE ListInv'
  BY <1>1, <1>5 DEF CallPull, Call, Goto, TypeOK, list, Points, Critical
<1>6. ASSUME NEW t \in Thread, Lock(t) PROVE ListInv'
  BY <1>1, <1>6 DEF Lock, Goto, TypeOK, list, Points, Critical
<1>7. ASSUME NEW t \in Thread, Wait(t) PROVE ListInv'
  BY <1>1, <1>7 DEF Wait, Goto, TypeOK, list, Points, Critical
<1>8. ASSUME NEW t \in Thread, Signal(t) PROVE ListInv'
  <2>1. pc' \in [Thread -> Points]
    BY <1>8 DEF Signal, Goto, TypeOK, Points, Critical
  <2>. QED  BY <1>1, <1>8, <2>1 DEF Signal, TypeOK, list
<1>9. ASSUME NEW t \in Thread, Unlock(t) PROVE ListInv'
  BY <1>1, <1>9 DEF Unlock, Goto, TypeOK, list, Points, Critical
<1>10. ASSUME NEW t \in Thread, Spurious(t) PROVE ListInv'
  BY <1>1, <1>10 DEF Spurious, Goto, TypeOK, list, Points, Critical
<1>11. CASE UNCHANGED vars
  BY <1>1, <1>11 DEF vars, list, TypeOK
<1>. QED
  BY <1>2, <1>3, <1>4, <1>5, <1>6, <1>7, <1>8, <1>9, <1>10, <1>11,
     LinkListInv, UnlinkListInv DEF Next, Step, ListInv

(* In every reachable state the fields hold values of their types: queue_pull *)
(* never follows a NULL head.                                                 *)
THEOREM TypeCorrect == Spec => []TypeOK
<1>. QED  BY InitListInv, NextListInv, PTL DEF Spec, ListInv

(* queue_push and queue_pull keep the linked list whole: for any max_size and *)
(* number of threads, size counts the nodes, head and tail are the ends, and  *)
(* every linked node is allocated.                                            *)
THEOREM ListCorrect == Spec => []ListOK
<1>. QED  BY InitListInv, NextListInv, PTL DEF Spec, ListInv
-----------------------------------------------------------------------------
(* Mutual exclusion and lost wakeups.                                        *)

\* No pusher of an unlimited queue ever sleeps, so a signal meant for a puller
\* cannot be consumed by a pusher.
OnlyPullersSleep == /\ \A t \in Thread : pc[t] # "idle" => op[t] # "none"
                    /\ max_size <= 0 => \A t \in Waiting : op[t] = "pull"

\* A queue that does not exist is empty and nobody is inside of it.
Unused == ~exists => chain = <<>> /\ \A t \in Thread : pc[t] = "idle"

ControlInv == ListInv /\ Unused /\ MutualExclusion /\ OnlyPullersSleep /\ NoLostWakeup

LEMMA InitControlInv == Init => ControlInv
  BY InitListInv, QueueAssumption
  DEF Init, EmptyList, Unused, ControlInv, MutualExclusion, Critical, OnlyPullersSleep, NoLostWakeup, Waiting

LEMMA NextControlInv == ControlInv /\ [Next]_vars => ControlInv'
<1>. SUFFICES ASSUME ControlInv, [Next]_vars PROVE ControlInv'
  OBVIOUS
<1>. USE QueueAssumption DEF Waiting, Critical
<1>0. ListInv /\ ListInv'
  BY NextListInv DEF ControlInv
<1>1. /\ pc \in [Thread -> Points] /\ op \in [Thread -> {"none", "push", "pull"}]
      /\ size \in Int /\ max_size \in Int /\ MutualExclusion /\ OnlyPullersSleep /\ NoLostWakeup
  BY <1>0 DEF ControlInv, ListInv, TypeOK
<1>u. Unused'
  BY DEF ControlInv, Unused, Next, Step, vars, list, Create, Destroy, CallPush, CallPull, Call,
         Lock, Wait, Link, Unlink, Signal, Unlock, Spurious, Goto
<1>2. ASSUME NEW k \in Limits, Create(k) PROVE ControlInv'
  <2>1. \A t \in Thread : pc'[t] = "idle"
    BY <1>2 DEF Create, ControlInv, Unused
  <2>2. pc' = pc /\ m' = m /\ op' = op
    BY <1>2 DEF Create
  <2>. QED  BY <1>0, <1>u, <1>1, <2>1, <2>2 DEF ControlInv, MutualExclusion, OnlyPullersSleep, NoLostWakeup
<1>3. CASE Destroy
  BY <1>0, <1>u, <1>1, <1>3 DEF Destroy, ControlInv, MutualExclusion, OnlyPullersSleep, NoLostWakeup
<1>4. ASSUME NEW t \in Thread, NEW o \in {"push", "pull"}, NEW v, Call(t, o, v)
      PROVE  ControlInv'
  <2>1. MutualExclusion'
    BY <1>1, <1>4 DEF Call, Goto, list, MutualExclusion
  <2>2. OnlyPullersSleep'
    BY <1>1, <1>4 DEF Call, Goto, list, OnlyPullersSleep
  <2>3. NoLostWakeup'
    BY <1>1, <1>4 DEF Call, Goto, list, NoLostWakeup
  <2>. QED  BY <1>0, <1>u, <2>1, <2>2, <2>3 DEF ControlInv
<1>5. ASSUME NEW t \in Thread, Lock(t) PROVE ControlInv'
  <2>1. MutualExclusion'
    BY <1>1, <1>5 DEF Lock, Goto, list, MutualExclusion
  <2>2. OnlyPullersSleep' /\ NoLostWakeup'
    BY <1>1, <1>5 DEF Lock, Goto, list, OnlyPullersSleep, NoLostWakeup
  <2>. QED  BY <1>0, <1>u, <2>1, <2>2 DEF ControlInv
<1>6. ASSUME NEW t \in Thread, Wait(t) PROVE ControlInv'
  <2>1. MutualExclusion'
    BY <1>1, <1>6 DEF Wait, Goto, list, MutualExclusion
  <2>2. op[t] # "push" => size = 0
    BY <1>1, <1>6 DEF Wait, MustWait, Empty
  <2>3. max_size <= 0 => op[t] # "push"
    BY <1>1, <1>6 DEF Wait, MustWait, Full
  <2>4. t \in Waiting' /\ op' = op /\ max_size' = max_size /\ \A u \in Waiting' : u # t => u \in Waiting
    BY <1>1, <1>6 DEF Wait, Goto, list
  <2>5. max_size <= 0 => op[t] = "pull"
    <3>1. pc[t] = "test"
      BY <1>6 DEF Wait
    <3>. QED  BY <2>3, <1>1, <3>1 DEF OnlyPullersSleep
  <2>6. OnlyPullersSleep'
    BY <1>1, <1>6, <2>4, <2>5 DEF OnlyPullersSleep, Wait, Goto
  <2>7. NoLostWakeup'
    <3>1. size' = size /\ max_size' = max_size /\ pc[t] = "test" /\ pc' = [pc EXCEPT ![t] = "wait"]
      BY <1>6 DEF Wait, Goto, list
    <3>2. ASSUME max_size <= 0, size > 0 PROVE FALSE
      BY <3>2, <2>2, <2>5
    <3>. QED  BY <3>1, <3>2 DEF NoLostWakeup
  <2>. QED  BY <1>0, <1>u, <2>1, <2>6, <2>7 DEF ControlInv
<1>7. ASSUME NEW t \in Thread, Link(t) \/ Unlink(t) PROVE ControlInv'
  <2>1. pc[t] = "test" /\ pc' = [pc EXCEPT ![t] = "signal"] /\ m' = m /\ op' = op /\ max_size' = max_size
    BY <1>7 DEF Link, Unlink, Goto
  <2>. QED  BY <1>0, <1>u, <1>1, <2>1 DEF ControlInv, MutualExclusion, OnlyPullersSleep, NoLostWakeup
<1>8. ASSUME NEW t \in Thread, Signal(t) PROVE ControlInv'
  <2>1. CASE Waiting = {}
    <3>1. pc[t] = "signal" /\ pc' = [pc EXCEPT ![t] = "unlock"] /\ m' = m /\ op' = op
          /\ size' = size /\ max_size' = max_size
      BY <1>8, <2>1 DEF Signal, Goto, list
    <3>. QED  BY <1>0, <1>u, <1>1, <2>1, <3>1 DEF ControlInv, MutualExclusion, OnlyPullersSleep, NoLostWakeup
  <2>2. CASE Waiting # {}
    <3>1. PICK w \in Waiting : pc' = [pc EXCEPT ![t] = "unlock", ![w] = "lock"]
      BY <1>8, <2>2 DEF Signal
    <3>2. /\ pc[t] = "signal" /\ w # t /\ pc[w] = "wait" /\ pc'[w] = "lock" /\ pc'[t] = "unlock"
          /\ m' = m /\ op' = op /\ size' = size /\ max_size' = max_size
          /\ \A u \in Thread : u \notin {t, w} => pc'[u] = pc[u]
      BY <1>1, <1>8, <3>1 DEF Signal, list
    <3>3. MutualExclusion'
      BY <1>1, <3>2 DEF MutualExclusion
    <3>4. OnlyPullersSleep' /\ NoLostWakeup'
      BY <1>1, <3>2 DEF OnlyPullersSleep, NoLostWakeup
    <3>. QED  BY <1>0, <1>u, <3>3, <3>4 DEF ControlInv
  <2>. QED  BY <2>1, <2>2
<1>9. ASSUME NEW t \in Thread, Unlock(t) PROVE ControlInv'
  <2>1. MutualExclusion'
    BY <1>1, <1>9 DEF Unlock, Goto, MutualExclusion
  <2>2. OnlyPullersSleep' /\ NoLostWakeup'
    BY <1>1, <1>9 DEF Unlock, Goto, list, OnlyPullersSleep, NoLostWakeup
  <2>. QED  BY <1>0, <1>u, <2>1, <2>2 DEF ControlInv
<1>10. ASSUME NEW t \in Thread, Spurious(t) PROVE ControlInv'
  <2>1. MutualExclusion'
    BY <1>1, <1>10 DEF Spurious, Goto, MutualExclusion
  <2>2. OnlyPullersSleep' /\ NoLostWakeup'
    BY <1>1, <1>10 DEF Spurious, Goto, list, OnlyPullersSleep, NoLostWakeup
  <2>. QED  BY <1>0, <1>u, <2>1, <2>2 DEF ControlInv
<1>11. CASE UNCHANGED vars
  BY <1>0, <1>u, <1>1, <1>11 DEF vars, list, ControlInv, MutualExclusion, OnlyPullersSleep, NoLostWakeup
<1>. QED
  BY <1>2, <1>3, <1>4, <1>5, <1>6, <1>7, <1>8, <1>9, <1>10, <1>11
  DEF Next, Step, CallPush, CallPull

(* Between pthread_mutex_lock and pthread_mutex_unlock a thread is alone,     *)
(* also when it comes back from pthread_cond_wait.                            *)
THEOREM MutexCorrect == Spec => []MutualExclusion
<1>. QED  BY InitControlInv, NextControlInv, PTL DEF Spec, ControlInv

(* An unlimited queue (how parmake and the password crackers use it) loses    *)
(* no wakeup with any number of threads although push and pull share one cv.  *)
THEOREM NoWakeupLost == Spec => []NoLostWakeup
<1>. QED  BY InitControlInv, NextControlInv, PTL DEF Spec, ControlInv

LEMMA NextCapacity == ControlInv /\ CapacityRespected /\ [Next]_vars => CapacityRespected'
<1>. SUFFICES ASSUME ControlInv, CapacityRespected, [Next]_vars PROVE CapacityRespected'
  OBVIOUS
<1>. USE QueueAssumption DEF CapacityRespected, list
<1>1. size \in Int /\ max_size \in Int /\ size = Len(chain)
  BY DEF ControlInv, ListInv, TypeOK, ListOK
<1>2. ASSUME NEW k \in Limits, Create(k) PROVE CapacityRespected'
  <2>1. size' = 0 /\ max_size' \in Int
    BY <1>1, <1>2 DEF Create, ControlInv, Unused
  <2>. QED  BY <2>1
<1>3. CASE Destroy
  BY <1>1, <1>3 DEF Destroy
<1>4. ASSUME NEW t \in Thread, Link(t) PROVE CapacityRespected'
  BY <1>1, <1>4 DEF Link, MustWait, Full
<1>5. ASSUME NEW t \in Thread, Unlink(t) PROVE CapacityRespected'
  BY <1>1, <1>5 DEF Unlink
<1>6. CASE UNCHANGED list
  BY <1>6
<1>. QED
  BY <1>2, <1>3, <1>4, <1>5, <1>6
  DEF Next, Step, vars, CallPush, CallPull, Call, Lock, Wait, Signal, Unlock, Spurious

LEMMA InitCapacity == Init => CapacityRespected
  BY QueueAssumption DEF Init, EmptyList, CapacityRespected

(* The while loop of queue_push keeps the size within max_size.               *)
THEOREM CapacityCorrect == Spec => []CapacityRespected
<1>. QED  BY InitCapacity, NextCapacity, InitControlInv, NextControlInv, PTL DEF Spec
-----------------------------------------------------------------------------
(* One condition variable for pushers and pullers of a bounded queue.  The    *)
(* argument counts: a signal that wakes the wrong kind is passed on as long   *)
(* as there are few enough threads.                                           *)

\* At most twice as many threads as max_size and at most two more.  With one
\* thread more the signals can get lost.
FewThreads == /\ IsFiniteSet(Thread)
              /\ \A k \in Limits : k > 0 => /\ Cardinality(Thread) <= k + 2
                                            /\ Cardinality(Thread) <= 2 * k

\* Who will look at the queue again, who sleeps, and who is about to signal.
Testing(o) == {t \in Thread : op[t] = o /\ pc[t] \in {"lock", "test"}}
Asleep(o) == {t \in Thread : op[t] = o /\ pc[t] = "wait"}
Signalling == {t \in Thread : pc[t] = "signal"}

\* n is what is there for the sleepers of a kind, stored values or free places,
\* and sl, te count those of the kind, other those of the other kind that
\* test, si the signal.  When only one kind sleeps, enough of it are awake for
\* what there is, or one is missing and enough of the other kind are awake to
\* go on and to signal.
OneKind(n, sl, te, other, si, k) ==
    sl > 0 => \/ n <= te + si
              \/ n = 1 + si /\ sl = 1 /\ other + si >= k /\ k > 1

\* Both kinds sleep only when all other threads are of one kind and awake.
BothKinds(n, te, si, k) == n = si /\ te + si >= k

\* tp, tl: pushers and pullers that test; wp, wl: those asleep; n: size; k: max_size.
Balanced(tp, tl, wp, wl, si, n, k) ==
    /\ wp = 0 => OneKind(n, wl, tl, tp, si, k)
    /\ wl = 0 => OneKind(k - n, wp, tp, tl, si, k)
    /\ wp > 0 /\ wl > 0 =>
          /\ wp = 1 /\ wl = 1
          /\ \/ BothKinds(n, tp, si, k)
             \/ BothKinds(k - n, tl, si, k)

QueueBalanced ==
    Balanced(Cardinality(Testing("push")), Cardinality(Testing("pull")),
             Cardinality(Asleep("push")), Cardinality(Asleep("pull")),
             Cardinality(Signalling), size, max_size)

BalanceInv == /\ ControlInv /\ CapacityRespected
              /\ max_size > 0 => max_size \in Limits /\ QueueBalanced

\* How many members A and B have when they differ in t at most.
CountsDiffer(A, B, t) ==
    /\ Cardinality(A) \in Nat /\ Cardinality(B) \in Nat
    /\ t \in A /\ t \notin B => Cardinality(B) = Cardinality(A) - 1
    /\ t \notin A /\ t \in B => Cardinality(B) = Cardinality(A) + 1
    /\ (t \in A <=> t \in B) => Cardinality(B) = Cardinality(A)

LEMMA OneMoves ==
    ASSUME IsFiniteSet(Thread), NEW A \in SUBSET Thread, NEW B \in SUBSET Thread,
           NEW t, A \ {t} = B \ {t}
    PROVE  CountsDiffer(A, B, t)
<1>1. IsFiniteSet(A) /\ IsFiniteSet(B) /\ Cardinality(A) \in Nat /\ Cardinality(B) \in Nat
  BY FS_Subset, FS_CardinalityType
<1>2. /\ t \in A /\ t \notin B => B = A \ {t}
      /\ t \notin A /\ t \in B => B = A \union {t}
      /\ (t \in A <=> t \in B) => B = A
  OBVIOUS
<1>. QED  BY <1>1, <1>2, FS_AddElement, FS_RemoveElement DEF CountsDiffer

\* The five groups are disjoint.
LEMMA GroupsFit ==
    ASSUME IsFiniteSet(Thread)
    PROVE  LET tp == Cardinality(Testing("push")) tl == Cardinality(Testing("pull"))
               wp == Cardinality(Asleep("push")) wl == Cardinality(Asleep("pull"))
               si == Cardinality(Signalling)
           IN  /\ tp \in Nat /\ tl \in Nat /\ wp \in Nat /\ wl \in Nat /\ si \in Nat
               /\ Cardinality(Thread) \in Nat
               /\ tp + tl + wp + wl + si <= Cardinality(Thread)
<1>1. ASSUME NEW A \in SUBSET Thread, NEW B \in SUBSET Thread, A \intersect B = {}
      PROVE  Cardinality(A \union B) = Cardinality(A) + Cardinality(B)
  <2>1. IsFiniteSet(A) /\ IsFiniteSet(B) /\ Cardinality(A) \in Nat /\ Cardinality(B) \in Nat
    BY FS_Subset, FS_CardinalityType
  <2>2. Cardinality(A \union B) = Cardinality(A) + Cardinality(B) - Cardinality(A \intersect B)
    BY <2>1, FS_Union
  <2>3. Cardinality(A \intersect B) = 0
    BY <1>1, FS_EmptySet
  <2>. QED  BY <2>1, <2>2, <2>3
<1>2. \A A \in SUBSET Thread : /\ Cardinality(A) \in Nat
                               /\ Cardinality(A) <= Cardinality(Thread)
  BY FS_Subset, FS_CardinalityType
<1>. DEFINE P == Testing("push") L == Testing("pull")
            U == Asleep("push") V == Asleep("pull") S == Signalling
<1>3. /\ P \subseteq Thread /\ L \subseteq Thread /\ U \subseteq Thread
      /\ V \subseteq Thread /\ S \subseteq Thread
      /\ P \intersect L = {} /\ (P \union L) \intersect U = {}
      /\ ((P \union L) \union U) \intersect V = {}
      /\ (((P \union L) \union U) \union V) \intersect S = {}
  BY DEF Testing, Asleep, Signalling
<1>. HIDE DEF P, L, U, V, S
<1>4. Cardinality(P \union L) = Cardinality(P) + Cardinality(L)
  BY <1>1, <1>3
<1>5. Cardinality((P \union L) \union U) = Cardinality(P \union L) + Cardinality(U)
  BY <1>1, <1>3
<1>6. Cardinality(((P \union L) \union U) \union V) = Cardinality((P \union L) \union U) + Cardinality(V)
  BY <1>1, <1>3
<1>7. Cardinality((((P \union L) \union U) \union V) \union S)
      = Cardinality(((P \union L) \union U) \union V) + Cardinality(S)
  BY <1>1, <1>3
<1>8. Cardinality((((P \union L) \union U) \union V) \union S) <= Cardinality(Thread)
  BY <1>2, <1>3
<1>9. /\ Cardinality(P) \in Nat /\ Cardinality(L) \in Nat /\ Cardinality(U) \in Nat
      /\ Cardinality(V) \in Nat /\ Cardinality(S) \in Nat /\ Cardinality(Thread) \in Nat
  BY <1>2, <1>3
<1>. QED  BY <1>4, <1>5, <1>6, <1>7, <1>8, <1>9 DEF P, L, U, V, S

\* What each kind of step does to the numbers.
LEMMA BalanceKept ==
    ASSUME NEW tp \in Nat, NEW tl \in Nat, NEW wp \in Nat, NEW wl \in Nat, NEW si \in Nat,
           NEW n \in Nat, NEW k \in Nat, NEW all \in Nat,
           k > 0, n <= k, all <= k + 2, all <= 2 * k, tp + tl + wp + wl + si <= all,
           Balanced(tp, tl, wp, wl, si, n, k)
    PROVE  /\ Balanced(tp + 1, tl, wp, wl, si, n, k)
           /\ Balanced(tp, tl + 1, wp, wl, si, n, k)
           /\ si = 0 /\ tp > 0 /\ n = k => Balanced(tp - 1, tl, wp + 1, wl, si, n, k)
           /\ si = 0 /\ tl > 0 /\ n = 0 => Balanced(tp, tl - 1, wp, wl + 1, si, n, k)
           /\ si = 0 /\ tp > 0 /\ n < k => Balanced(tp - 1, tl, wp, wl, 1, n + 1, k)
           /\ si = 0 /\ tl > 0 /\ n > 0 => Balanced(tp, tl - 1, wp, wl, 1, n - 1, k)
           /\ si = 1 /\ wp = 0 /\ wl = 0 => Balanced(tp, tl, wp, wl, 0, n, k)
           /\ si = 1 /\ wp > 0 => Balanced(tp + 1, tl, wp - 1, wl, 0, n, k)
           /\ si = 1 /\ wl > 0 => Balanced(tp, tl + 1, wp, wl - 1, 0, n, k)
           /\ wp > 0 => Balanced(tp + 1, tl, wp - 1, wl, si, n, k)
           /\ wl > 0 => Balanced(tp, tl + 1, wp, wl - 1, si, n, k)
<1>. USE DEF Balanced, OneKind, BothKinds
<1>1. Balanced(tp + 1, tl, wp, wl, si, n, k) /\ Balanced(tp, tl + 1, wp, wl, si, n, k)
  OBVIOUS
<1>2. si = 0 /\ tp > 0 /\ n = k => Balanced(tp - 1, tl, wp + 1, wl, si, n, k)
  OBVIOUS
<1>3. si = 0 /\ tl > 0 /\ n = 0 => Balanced(tp, tl - 1, wp, wl + 1, si, n, k)
  OBVIOUS
<1>4. si = 0 /\ tp > 0 /\ n < k => Balanced(tp - 1, tl, wp, wl, 1, n + 1, k)
  OBVIOUS
<1>5. si = 0 /\ tl > 0 /\ n > 0 => Balanced(tp, tl - 1, wp, wl, 1, n - 1, k)
  OBVIOUS
<1>6. si = 1 /\ wp = 0 /\ wl = 0 => Balanced(tp, tl, wp, wl, 0, n, k)
  OBVIOUS
<1>7. si = 1 /\ wp > 0 => Balanced(tp + 1, tl, wp - 1, wl, 0, n, k)
  OBVIOUS
<1>8. si = 1 /\ wl > 0 => Balanced(tp, tl + 1, wp, wl - 1, 0, n, k)
  OBVIOUS
<1>9. wp > 0 => Balanced(tp + 1, tl, wp - 1, wl, si, n, k)
  OBVIOUS
<1>10. wl > 0 => Balanced(tp, tl + 1, wp, wl - 1, si, n, k)
  OBVIOUS
<1>. QED  BY <1>1, <1>2, <1>3, <1>4, <1>5, <1>6, <1>7, <1>8, <1>9, <1>10

LEMMA ThreadMoves ==
    ASSUME IsFiniteSet(Thread), NEW t \in Thread,
           \A u \in Thread \ {t} : pc'[u] = pc[u] /\ op'[u] = op[u]
    PROVE  /\ \A o \in {"push", "pull"} : /\ CountsDiffer(Testing(o), Testing(o)', t)
                                         /\ CountsDiffer(Asleep(o), Asleep(o)', t)
           /\ CountsDiffer(Signalling, Signalling', t)
<1>1. ASSUME NEW o \in {"push", "pull"}
      PROVE  CountsDiffer(Testing(o), Testing(o)', t) /\ CountsDiffer(Asleep(o), Asleep(o)', t)
  <2>1. /\ Testing(o) \in SUBSET Thread /\ Testing(o)' \in SUBSET Thread
        /\ Asleep(o) \in SUBSET Thread /\ Asleep(o)' \in SUBSET Thread
    BY DEF Testing, Asleep
  <2>2. Testing(o) \ {t} = Testing(o)' \ {t} /\ Asleep(o) \ {t} = Asleep(o)' \ {t}
    BY DEF Testing, Asleep
  <2>. QED  BY <2>1, <2>2, OneMoves
<1>2. /\ Signalling \in SUBSET Thread /\ Signalling' \in SUBSET Thread
      /\ Signalling \ {t} = Signalling' \ {t}
  BY DEF Signalling
<1>. QED  BY <1>1, <1>2, OneMoves

\* pthread_cond_signal moves two threads, each between two of the groups.
LEMMA WakeMoves ==
    ASSUME IsFiniteSet(Thread), pc \in [Thread -> Points], NEW t \in Thread, NEW w \in Thread,
           pc[t] = "signal", pc[w] = "wait", op' = op,
           pc' = [pc EXCEPT ![t] = "unlock", ![w] = "lock"]
    PROVE  /\ \A o \in {"push", "pull"} : /\ CountsDiffer(Testing(o), Testing(o)', w)
                                         /\ CountsDiffer(Asleep(o), Asleep(o)', w)
           /\ CountsDiffer(Signalling, Signalling', t)
<1>1. /\ t # w /\ pc'[t] = "unlock" /\ pc'[w] = "lock"
      /\ \A u \in Thread \ {t, w} : pc'[u] = pc[u]
  OBVIOUS
<1>2. ASSUME NEW o \in {"push", "pull"}
      PROVE  CountsDiffer(Testing(o), Testing(o)', w) /\ CountsDiffer(Asleep(o), Asleep(o)', w)
  <2>1. /\ Testing(o) \in SUBSET Thread /\ Testing(o)' \in SUBSET Thread
        /\ Asleep(o) \in SUBSET Thread /\ Asleep(o)' \in SUBSET Thread
    BY DEF Testing, Asleep
  <2>2. Testing(o) \ {w} = Testing(o)' \ {w} /\ Asleep(o) \ {w} = Asleep(o)' \ {w}
    BY <1>1 DEF Testing, Asleep
  <2>. QED  BY <2>1, <2>2, OneMoves
<1>3. /\ Signalling \in SUBSET Thread /\ Signalling' \in SUBSET Thread
      /\ Signalling \ {t} = Signalling' \ {t}
  BY <1>1 DEF Signalling
<1>. QED  BY <1>2, <1>3, OneMoves

\* Nobody is inside of the queue: there is nobody to count.
LEMMA IdleBalanced ==
    ASSUME \A t \in Thread : pc'[t] = "idle"
    PROVE  QueueBalanced'
<1>1. /\ Testing("push")' = {} /\ Testing("pull")' = {} /\ Asleep("push")' = {}
      /\ Asleep("pull")' = {} /\ Signalling' = {}
  BY DEF Testing, Asleep, Signalling
<1>2. Cardinality({}) = 0
  BY FS_EmptySet
<1>. QED  BY <1>1, <1>2 DEF QueueBalanced, Balanced, OneKind

LEMMA NextBalanced ==
    ASSUME FewThreads, BalanceInv, [Next]_vars, max_size > 0, ~\E n \in Limits : Create(n)
    PROVE  QueueBalanced'
<1>. DEFINE tp == Cardinality(Testing("push"))
            tl == Cardinality(Testing("pull"))
            wp == Cardinality(Asleep("push"))
            wl == Cardinality(Asleep("pull"))
            si == Cardinality(Signalling)
            k == max_size
<1>1. /\ pc \in [Thread -> Points] /\ op \in [Thread -> {"none", "push", "pull"}]
      /\ size \in Nat /\ k \in Nat /\ size <= k /\ IsFiniteSet(Thread)
      /\ MutualExclusion /\ \A t \in Thread : pc[t] # "idle" => op[t] \in {"push", "pull"}
  BY QueueAssumption
  DEF BalanceInv, ControlInv, ListInv, TypeOK, ListOK, CapacityRespected, FewThreads, OnlyPullersSleep
<1>2. /\ tp \in Nat /\ tl \in Nat /\ wp \in Nat /\ wl \in Nat /\ si \in Nat
      /\ Cardinality(Thread) \in Nat /\ tp + tl + wp + wl + si <= Cardinality(Thread)
  BY <1>1, GroupsFit
<1>3. Cardinality(Thread) <= k + 2 /\ Cardinality(Thread) <= 2 * k
  BY DEF FewThreads, BalanceInv
<1>4. Balanced(tp, tl, wp, wl, si, size, k)
  BY DEF BalanceInv, QueueBalanced
<1>5. Balanced(tp', tl', wp', wl', si', size', k') => QueueBalanced'
  BY DEF QueueBalanced
<1>6. ASSUME NEW t \in Thread, pc[t] = "test" PROVE si = 0
  <2>1. Signalling = {}
    BY <1>1, <1>6 DEF MutualExclusion, Critical, Signalling
  <2>. QED  BY <2>1, FS_EmptySet
<1>7. ASSUME NEW t \in Thread, pc[t] = "signal" PROVE si = 1
  <2>1. Signalling = {t}
    BY <1>1, <1>7 DEF MutualExclusion, Critical, Signalling
  <2>. QED  BY <2>1, FS_Singleton
<1>. HIDE DEF tp, tl, wp, wl, si, k
<1>8. /\ Balanced(tp + 1, tl, wp, wl, si, size, k)
      /\ Balanced(tp, tl + 1, wp, wl, si, size, k)
      /\ si = 0 /\ tp > 0 /\ size = k => Balanced(tp - 1, tl, wp + 1, wl, si, size, k)
      /\ si = 0 /\ tl > 0 /\ size = 0 => Balanced(tp, tl - 1, wp, wl + 1, si, size, k)
      /\ si = 0 /\ tp > 0 /\ size < k => Balanced(tp - 1, tl, wp, wl, 1, size + 1, k)
      /\ si = 0 /\ tl > 0 /\ size > 0 => Balanced(tp, tl - 1, wp, wl, 1, size - 1, k)
      /\ si = 1 /\ wp = 0 /\ wl = 0 => Balanced(tp, tl, wp, wl, 0, size, k)
      /\ si = 1 /\ wp > 0 => Balanced(tp + 1, tl, wp - 1, wl, 0, size, k)
      /\ si = 1 /\ wl > 0 => Balanced(tp, tl + 1, wp, wl - 1, 0, size, k)
      /\ wp > 0 => Balanced(tp + 1, tl, wp - 1, wl, si, size, k)
      /\ wl > 0 => Balanced(tp, tl + 1, wp, wl - 1, si, size, k)
  <2>1. k > 0
    BY DEF k
  <2>. QED  BY <2>1, <1>1, <1>2, <1>3, <1>4, BalanceKept
\* Only what t does counts: its groups before and after the step.
<1>9. ASSUME NEW t \in Thread, \A u \in Thread \ {t} : pc'[u] = pc[u] /\ op'[u] = op[u]
      PROVE  /\ CountsDiffer(Testing("push"), Testing("push")', t)
             /\ CountsDiffer(Testing("pull"), Testing("pull")', t)
             /\ CountsDiffer(Asleep("push"), Asleep("push")', t)
             /\ CountsDiffer(Asleep("pull"), Asleep("pull")', t)
             /\ CountsDiffer(Signalling, Signalling', t)
  BY <1>1, <1>9, ThreadMoves
<1>10. ASSUME NEW t \in Thread, NEW o \in {"push", "pull"}, NEW v, Call(t, o, v)
       PROVE  QueueBalanced'
  <2>1. /\ pc[t] = "idle" /\ pc'[t] = "lock" /\ op'[t] = o /\ size' = size /\ k' = k
        /\ \A u \in Thread \ {t} : pc'[u] = pc[u] /\ op'[u] = op[u]
    BY <1>1, <1>10 DEF Call, Goto, list, k
  <2>2. /\ o = "push" => tp' = tp + 1 /\ tl' = tl
        /\ o = "pull" => tp' = tp /\ tl' = tl + 1
        /\ wp' = wp /\ wl' = wl /\ si' = si
    BY <1>9, <2>1 DEF CountsDiffer, Testing, Asleep, Signalling, tp, tl, wp, wl, si
  <2>. QED  BY <1>5, <1>8, <2>1, <2>2
<1>11. ASSUME NEW t \in Thread, Lock(t) \/ Unlock(t) PROVE QueueBalanced'
  <2>1. /\ \/ pc[t] = "lock" /\ pc'[t] = "test" /\ op'[t] = op[t]
           \/ pc[t] = "unlock" /\ pc'[t] = "idle"
        /\ size' = size /\ k' = k
        /\ \A u \in Thread \ {t} : pc'[u] = pc[u] /\ op'[u] = op[u]
    BY <1>1, <1>11 DEF Lock, Unlock, Goto, list, k
  <2>2. tp' = tp /\ tl' = tl /\ wp' = wp /\ wl' = wl /\ si' = si
    BY <1>9, <2>1 DEF CountsDiffer, Testing, Asleep, Signalling, tp, tl, wp, wl, si
  <2>. QED  BY <1>4, <1>5, <2>1, <2>2
<1>12. ASSUME NEW t \in Thread, Wait(t) PROVE QueueBalanced'
  <2>1. /\ pc[t] = "test" /\ pc'[t] = "wait" /\ op'[t] = op[t] /\ size' = size /\ k' = k
        /\ \A u \in Thread \ {t} : pc'[u] = pc[u] /\ op'[u] = op[u]
    BY <1>1, <1>12 DEF Wait, Goto, list, k
  <2>2. \/ op[t] = "push" /\ size = k
        \/ op[t] = "pull" /\ size = 0
    BY <1>1, <1>12, <2>1 DEF Wait, MustWait, Full, Empty, k
  <2>3. /\ op[t] = "push" => tp' = tp - 1 /\ wp' = wp + 1 /\ tl' = tl /\ wl' = wl /\ tp' \in Nat
        /\ op[t] = "pull" => tp' = tp /\ wp' = wp /\ tl' = tl - 1 /\ wl' = wl + 1 /\ tl' \in Nat
        /\ si' = si
    BY <1>9, <2>1 DEF CountsDiffer, Testing, Asleep, Signalling, tp, tl, wp, wl, si
  <2>. QED  BY <1>2, <1>5, <1>6, <1>8, <2>1, <2>2, <2>3
<1>13. ASSUME NEW t \in Thread, Link(t) \/ Unlink(t) PROVE QueueBalanced'
  <2>1. /\ pc[t] = "test" /\ pc'[t] = "signal" /\ op'[t] = op[t] /\ k' = k
        /\ \A u \in Thread \ {t} : pc'[u] = pc[u] /\ op'[u] = op[u]
    BY <1>1, <1>13 DEF Link, Unlink, Goto, k
  <2>2. \/ op[t] = "push" /\ size < k /\ size' = size + 1
        \/ op[t] = "pull" /\ size > 0 /\ size' = size - 1
    BY <1>1, <1>13 DEF Link, Unlink, MustWait, Full, Empty, k
  <2>3. /\ op[t] = "push" => tp' = tp - 1 /\ tl' = tl /\ tp' \in Nat
        /\ op[t] = "pull" => tp' = tp /\ tl' = tl - 1 /\ tl' \in Nat
        /\ wp' = wp /\ wl' = wl /\ si' = si + 1
    BY <1>9, <2>1 DEF CountsDiffer, Testing, Asleep, Signalling, tp, tl, wp, wl, si
  <2>. QED  BY <1>2, <1>5, <1>6, <1>8, <2>1, <2>2, <2>3
<1>14. ASSUME NEW t \in Thread, Signal(t) PROVE QueueBalanced'
  <2>1. pc[t] = "signal" /\ op' = op /\ size' = size /\ k' = k /\ si = 1
    BY <1>7, <1>14 DEF Signal, list, k
  <2>2. CASE Waiting = {}
    <3>1. pc'[t] = "unlock" /\ \A u \in Thread \ {t} : pc'[u] = pc[u] /\ op'[u] = op[u]
      BY <1>1, <1>14, <2>1, <2>2 DEF Signal, Goto
    <3>2. wp = 0 /\ wl = 0
      <4>1. Asleep("push") = {} /\ Asleep("pull") = {}
        BY <2>2 DEF Waiting, Asleep
      <4>. QED  BY <4>1, FS_EmptySet DEF wp, wl
    <3>3. tp' = tp /\ tl' = tl /\ wp' = wp /\ wl' = wl /\ si' = si - 1
      BY <1>9, <2>1, <3>1 DEF CountsDiffer, Testing, Asleep, Signalling, tp, tl, wp, wl, si
    <3>. QED  BY <1>5, <1>8, <2>1, <3>2, <3>3
  <2>3. CASE Waiting # {}
    <3>1. PICK w \in Thread : pc[w] = "wait" /\ pc' = [pc EXCEPT ![t] = "unlock", ![w] = "lock"]
      BY <1>14, <2>3 DEF Signal, Waiting
    <3>2. /\ CountsDiffer(Testing("push"), Testing("push")', w)
          /\ CountsDiffer(Testing("pull"), Testing("pull")', w)
          /\ CountsDiffer(Asleep("push"), Asleep("push")', w)
          /\ CountsDiffer(Asleep("pull"), Asleep("pull")', w)
          /\ CountsDiffer(Signalling, Signalling', t)
      BY <1>1, <2>1, <3>1, WakeMoves
    <3>3. pc'[t] = "unlock" /\ pc'[w] = "lock" /\ op[w] \in {"push", "pull"} /\ op'[w] = op[w]
      BY <1>1, <2>1, <3>1
    <3>4. /\ op[w] = "push" => tp' = tp + 1 /\ wp' = wp - 1 /\ tl' = tl /\ wl' = wl /\ wp' \in Nat
          /\ op[w] = "pull" => tp' = tp /\ wp' = wp /\ tl' = tl + 1 /\ wl' = wl - 1 /\ wl' \in Nat
          /\ si' = si - 1
      BY <2>1, <3>1, <3>2, <3>3 DEF CountsDiffer, Testing, Asleep, Signalling, tp, tl, wp, wl, si
    <3>. QED  BY <1>2, <1>5, <1>8, <2>1, <3>3, <3>4
  <2>. QED  BY <2>2, <2>3
<1>15. ASSUME NEW t \in Thread, Spurious(t) PROVE QueueBalanced'
  <2>1. /\ pc[t] = "wait" /\ pc'[t] = "lock" /\ op'[t] = op[t] /\ size' = size /\ k' = k
        /\ op[t] \in {"push", "pull"}
        /\ \A u \in Thread \ {t} : pc'[u] = pc[u] /\ op'[u] = op[u]
    BY <1>1, <1>15 DEF Spurious, Goto, list, k
  <2>2. /\ op[t] = "push" => tp' = tp + 1 /\ wp' = wp - 1 /\ tl' = tl /\ wl' = wl /\ wp' \in Nat
        /\ op[t] = "pull" => tp' = tp /\ wp' = wp /\ tl' = tl + 1 /\ wl' = wl - 1 /\ wl' \in Nat
        /\ si' = si
    BY <1>9, <2>1 DEF CountsDiffer, Testing, Asleep, Signalling, tp, tl, wp, wl, si
  <2>. QED  BY <1>2, <1>5, <1>8, <2>1, <2>2
<1>16. CASE UNCHANGED <<pc, op, size, max_size>>
  <2>1. /\ tp' = tp /\ tl' = tl /\ wp' = wp /\ wl' = wl /\ si' = si /\ size' = size /\ k' = k
    BY <1>16 DEF Testing, Asleep, Signalling, tp, tl, wp, wl, si, k
  <2>. QED  BY <1>4, <1>5, <2>1
<1>17. CASE Destroy
  BY <1>1, <1>17, IdleBalanced DEF Destroy
<1>. QED
  BY <1>10, <1>11, <1>12, <1>13, <1>14, <1>15, <1>16, <1>17
  DEF Next, Step, CallPush, CallPull, Create, vars, list

LEMMA NextBalanceInv == FewThreads /\ BalanceInv /\ [Next]_vars => BalanceInv'
<1>. SUFFICES ASSUME FewThreads, BalanceInv, [Next]_vars PROVE BalanceInv'
  OBVIOUS
<1>1. ControlInv' /\ CapacityRespected'
  BY NextControlInv, NextCapacity DEF BalanceInv
<1>2. ASSUME NEW k \in Limits, Create(k) PROVE BalanceInv'
  <2>1. max_size' = k /\ \A t \in Thread : pc'[t] = "idle"
    BY <1>2 DEF Create, BalanceInv, ControlInv, Unused
  <2>. QED  BY <1>1, <2>1, IdleBalanced DEF BalanceInv
<1>3. CASE ~\E k \in Limits : Create(k)
  <2>1. max_size' = max_size
    BY <1>3 DEF Next, Step, vars, list, Destroy, CallPush, CallPull, Call, Lock, Wait, Link, Unlink,
                Signal, Unlock, Spurious
  <2>2. ASSUME max_size > 0 PROVE QueueBalanced'
    BY <1>3, <2>2, NextBalanced
  <2>. QED  BY <1>1, <2>1, <2>2 DEF BalanceInv
<1>. QED  BY <1>2, <1>3

(* With few threads nobody sleeps who could go on and whom nobody will look   *)
(* after: pushers and pullers may share one condition variable although       *)
(* pthread_cond_signal may wake the wrong kind.                               *)
THEOREM NobodyIsForgotten ==
    ASSUME FewThreads
    PROVE  Spec => []NobodyForgotten
<1>1. Init => BalanceInv
  BY InitControlInv, InitCapacity DEF BalanceInv, Init
<1>2. BalanceInv /\ [Next]_vars => BalanceInv'
  BY NextBalanceInv
<1>3. BalanceInv => NobodyForgotten
  <2>. SUFFICES ASSUME BalanceInv, ~NobodyForgotten PROVE FALSE
    OBVIOUS
  <2>. DEFINE wp == Cardinality(Asleep("push"))
              wl == Cardinality(Asleep("pull"))
  <2>1. /\ size \in Nat /\ max_size \in Int /\ OnlyPullersSleep /\ NoLostWakeup
        /\ op \in [Thread -> {"none", "push", "pull"}] /\ IsFiniteSet(Thread)
    BY DEF BalanceInv, ControlInv, ListInv, TypeOK, ListOK, FewThreads
  <2>2. PICK t \in Thread : pc[t] = "wait" /\ ~MustWait(t)
    BY DEF NobodyForgotten, Waiting
  <2>3. /\ \A u \in Thread : pc[u] \notin {"lock", "test", "signal"}
        /\ \/ op[t] = "push" /\ ~Full
           \/ op[t] = "pull" /\ size > 0
    BY <2>1, <2>2 DEF NobodyForgotten, Awake, MustWait, Empty, OnlyPullersSleep
  <2>4. max_size > 0
    BY <2>1, <2>2, <2>3 DEF NoLostWakeup, OnlyPullersSleep, Waiting
  <2>5. /\ Cardinality(Testing("push")) = 0 /\ Cardinality(Testing("pull")) = 0
        /\ Cardinality(Signalling) = 0
    <3>1. Testing("push") = {} /\ Testing("pull") = {} /\ Signalling = {}
      BY <2>3 DEF Testing, Signalling
    <3>. QED  BY <3>1, FS_EmptySet
  <2>6. /\ wp \in Nat /\ wl \in Nat
        /\ op[t] = "push" => wp > 0
        /\ op[t] = "pull" => wl > 0
    <3>1. /\ IsFiniteSet(Asleep("push")) /\ IsFiniteSet(Asleep("pull"))
          /\ op[t] = "push" => Asleep("push") # {}
          /\ op[t] = "pull" => Asleep("pull") # {}
      BY <2>1, <2>2, FS_Subset DEF Asleep
    <3>. QED  BY <3>1, FS_CardinalityType, FS_EmptySet
  <2>7. Balanced(0, 0, wp, wl, 0, size, max_size)
    BY <2>4, <2>5 DEF BalanceInv, QueueBalanced
  <2>8. op[t] = "push" => size < max_size
    BY <2>1, <2>3, <2>4 DEF Full
  <2>. HIDE DEF wp, wl
  <2>. QED  BY <2>1, <2>3, <2>4, <2>6, <2>7, <2>8 DEF Balanced, OneKind, BothKinds
<1>. QED  BY <1>1, <1>2, <1>3, PTL DEF Spec

-----------------------------------------------------------------------------
(* The linked list implements the FIFO queue.                                *)

Stored == [i \in 1..Len(chain) |-> val[chain[i]]]
Statuses == [t \in Thread |-> Status(t)]

\* A step that leaves the list alone, moves only thread t and shows the caller
\* nothing is a stutter of FifoQueue.
LEMMA HiddenStep ==
    ASSUME UNCHANGED list, data' = data, \A t \in Thread : Status(t)' = Status(t)
    PROVE  UNCHANGED Fifo!vars
<1>1. Stored' = Stored /\ max_size' = max_size
  BY DEF Stored, list
<1>2. Statuses' = Statuses
  BY DEF Statuses
<1>. QED  BY <1>1, <1>2 DEF Fifo!vars, Stored, Statuses

LEMMA LinkIsPush ==
    ASSUME ListInv, NEW t \in Thread, Link(t)
    PROVE  Fifo!Push(t)
<1>. USE QueueAssumption
<1>1. PICK n \in Node \ live :
         /\ val' = [val EXCEPT ![n] = data[t]]
         /\ chain' = Append(chain, n)
  BY DEF Link
<1>2. /\ chain \in Seq(Node) /\ size = Len(chain) /\ Len(chain) \in Nat
      /\ val \in [Node -> Value \union {NoValue}] /\ pc \in [Thread -> Points]
  BY DEF ListInv, TypeOK, ListOK
<1>3. \A i \in 1..Len(chain) : chain[i] \in Node /\ chain[i] # n
  BY <1>2, <1>1 DEF ListInv, ListOK
<1>4. Stored' = Append(Stored, data[t])
  <2>1. Len(chain') = Len(chain) + 1 /\ chain'[Len(chain) + 1] = n
        /\ \A i \in 1..Len(chain) : chain'[i] = chain[i]
    BY <1>1, <1>2
  <2>2. Stored' = [i \in 1..(Len(chain) + 1) |-> IF i = Len(chain) + 1 THEN data[t] ELSE val[chain[i]]]
    BY <1>1, <1>2, <1>3, <2>1 DEF Stored
  <2>3. Stored \in Seq(Value \union {NoValue}) /\ Len(Stored) = Len(chain)
        /\ \A i \in 1..Len(chain) : Stored[i] = val[chain[i]]
    BY <1>2, <1>3 DEF Stored
  <2>4. Append(Stored, data[t]) = [i \in 1..(Len(Stored) + 1) |-> IF i = Len(Stored) + 1 THEN data[t] ELSE Stored[i]]
    BY <2>3
  <2>. QED  BY <1>2, <2>2, <2>3, <2>4
<1>5. /\ pc[t] = "test" /\ pc' = [pc EXCEPT ![t] = "signal"] /\ op' = op /\ op[t] = "push"
      /\ data' = data /\ max_size' = max_size
  BY DEF Link, Goto
<1>6. Statuses' = [Statuses EXCEPT ![t] = "done"] /\ Statuses[t] = "push"
  BY <1>2, <1>5 DEF Statuses, Status
<1>7. ~Fifo!Full
  <2>1. ~(max_size > 0 /\ size >= max_size)
    BY <1>5 DEF Link, MustWait, Full
  <2>2. Len(Stored) = size
    BY <1>2 DEF Stored
  <2>. QED  BY <2>1, <2>2 DEF Fifo!Full, Stored
<1>. QED  BY <1>4, <1>5, <1>6, <1>7 DEF Fifo!Push, Stored, Statuses

LEMMA UnlinkIsPull ==
    ASSUME ListInv, NEW t \in Thread, Unlink(t)
    PROVE  Fifo!Pull(t)
<1>. USE QueueAssumption
<1>1. /\ chain \in Seq(Node) /\ Len(chain) \in Nat /\ Len(chain) # 0
      /\ val \in [Node -> Value \union {NoValue}] /\ pc \in [Thread -> Points]
      /\ data \in [Thread -> Value \union {NoValue}]
  BY DEF ListInv, TypeOK, ListOK, Unlink, MustWait, Empty
<1>2. head = chain[1] /\ val' = [val EXCEPT ![head] = NoValue] /\ chain' = Tail(chain)
  BY <1>1 DEF ListInv, ListOK, Unlink
<1>3. /\ Len(chain') = Len(chain) - 1
      /\ \A i \in 1..Len(chain') : chain'[i] = chain[i + 1] /\ chain'[i] # head /\ chain'[i] \in Node
  BY <1>1, <1>2 DEF ListInv, ListOK
<1>4. /\ Stored \in Seq(Value \union {NoValue}) /\ Len(Stored) = Len(chain)
      /\ \A i \in 1..Len(chain) : Stored[i] = val[chain[i]]
  BY <1>1 DEF Stored
<1>5. Stored' = Tail(Stored)
  <2>1. /\ Stored' \in Seq(Value \union {NoValue}) /\ Len(Stored') = Len(chain) - 1
        /\ \A i \in 1..(Len(chain) - 1) : Stored'[i] = val[chain[i + 1]]
    BY <1>1, <1>2, <1>3 DEF Stored
  <2>2. Stored # <<>>
    BY <1>1, <1>4
  <2>3. /\ Tail(Stored) \in Seq(Value \union {NoValue}) /\ Len(Tail(Stored)) = Len(Stored) - 1
        /\ \A i \in 1..Len(Tail(Stored)) : Tail(Stored)[i] = Stored[i + 1]
    BY <1>4, <2>2, HeadTailProperties
  <2>4. \A i \in 1..(Len(chain) - 1) : Stored'[i] = Tail(Stored)[i]
    BY <1>1, <1>4, <2>1, <2>3
  <2>. QED  BY <1>1, <1>4, <2>1, <2>3, <2>4, SeqEqual
<1>6. Head(Stored) = val[head] /\ Stored # <<>>
  BY <1>1, <1>2, <1>4
<1>7. /\ pc[t] = "test" /\ pc' = [pc EXCEPT ![t] = "signal"] /\ op' = op /\ op[t] = "pull"
      /\ data' = [data EXCEPT ![t] = val[head]] /\ max_size' = max_size
  BY DEF Unlink, Goto
<1>8. Statuses' = [Statuses EXCEPT ![t] = "done"] /\ Statuses[t] = "pull"
  BY <1>1, <1>7 DEF Statuses, Status
<1>. QED  BY <1>5, <1>6, <1>7, <1>8 DEF Fifo!Pull, Stored, Statuses
(* queue_create, queue_push, queue_pull and queue_destroy implement a FIFO    *)
(* queue of capacity max_size in which push and pull are atomic, for every    *)
(* number of threads and every max_size.                                      *)
THEOREM RefinesFifo == Spec => ImplementsFifo
<1>1. Init => Fifo!Init
  <2>. SUFFICES ASSUME Init PROVE Fifo!Init
    OBVIOUS
  <2>1. Stored = <<>>
    BY DEF Init, EmptyList, Stored
  <2>2. Statuses = [t \in Thread |-> "idle"]
    BY DEF Init, Statuses, Status
  <2>. QED  BY <2>1, <2>2 DEF Init, Fifo!Init, Stored, Statuses
<1>2. ControlInv /\ [Next]_vars => [Fifo!Next]_Fifo!vars
  <2>. SUFFICES ASSUME ControlInv, [Next]_vars PROVE [Fifo!Next]_Fifo!vars
    OBVIOUS
  <2>. USE QueueAssumption
  <2>0. /\ ListInv /\ chain \in Seq(Node) /\ pc \in [Thread -> Points]
        /\ op \in [Thread -> {"none", "push", "pull"}]
    BY DEF ControlInv, ListInv, TypeOK
  <2>1. ASSUME NEW k \in Limits, Create(k) PROVE Fifo!Create(k)
    <3>1. chain = <<>> /\ pc' = pc /\ op' = op /\ data' = data /\ chain' = chain /\ val' = val
      BY <2>1 DEF Create, ControlInv, Unused
    <3>2. Stored = <<>> /\ Stored' = Stored
      BY <3>1 DEF Stored
    <3>3. Statuses' = Statuses /\ \A t \in Thread : Statuses[t] = "idle"
      BY <2>1, <3>1 DEF Create, ControlInv, Unused, Statuses, Status
    <3>4. max_size' = k
      BY <2>1 DEF Create
    <3>. QED  BY <3>1, <3>2, <3>3, <3>4 DEF Fifo!Create, Stored, Statuses
  <2>2. CASE Destroy
    <3>1. chain' = <<>> /\ Stored' = <<>>
      BY <2>2 DEF Destroy, Stored
    <3>2. Statuses' = Statuses /\ \A t \in Thread : Statuses[t] = "idle"
      BY <2>2 DEF Destroy, Statuses, Status
    <3>3. data' = data /\ max_size' = max_size
      BY <2>2 DEF Destroy
    <3>. QED  BY <3>1, <3>2, <3>3 DEF Fifo!Next, Fifo!Clear, Stored, Statuses
  <2>3. ASSUME NEW t \in Thread, NEW o \in {"push", "pull"}, NEW v, Call(t, o, v)
        PROVE  Fifo!Call(t, o, v)
    <3>1. /\ pc[t] = "idle" /\ pc' = [pc EXCEPT ![t] = "lock"] /\ op' = [op EXCEPT ![t] = o]
          /\ data' = [data EXCEPT ![t] = v] /\ val' = val /\ chain' = chain /\ max_size' = max_size
      BY <2>3 DEF Call, Goto, list
    <3>2. Stored' = Stored
      BY <3>1 DEF Stored
    <3>3. Statuses[t] = "idle" /\ Statuses' = [Statuses EXCEPT ![t] = o]
      BY <2>0, <3>1 DEF Statuses, Status
    <3>. QED  BY <3>1, <3>2, <3>3 DEF Fifo!Call, Stored, Statuses
  <2>4. ASSUME NEW t \in Thread, Lock(t) \/ Wait(t) \/ Spurious(t)
        PROVE  UNCHANGED Fifo!vars
    <3>1. /\ pc[t] \in {"lock", "test", "wait"} /\ UNCHANGED <<list, op, data>>
          /\ \E p \in {"lock", "test", "wait"} : pc' = [pc EXCEPT ![t] = p]
      BY <2>4 DEF Lock, Wait, Spurious, Goto
    <3>2. \A u \in Thread : Status(u)' = Status(u)
      BY <2>0, <3>1 DEF Status
    <3>. QED  BY <3>1, <3>2, HiddenStep
  <2>5. ASSUME NEW t \in Thread, Signal(t) PROVE UNCHANGED Fifo!vars
    <3>1. pc[t] = "signal" /\ UNCHANGED <<list, op, data>>
      BY <2>5 DEF Signal
    <3>2. \/ pc' = [pc EXCEPT ![t] = "unlock"]
          \/ \E w \in Waiting : pc' = [pc EXCEPT ![t] = "unlock", ![w] = "lock"]
      BY <2>5 DEF Signal, Goto
    <3>3. \A u \in Thread : Status(u)' = Status(u)
      BY <2>0, <3>1, <3>2 DEF Status, Waiting
    <3>. QED  BY <3>1, <3>3, HiddenStep
  <2>6. ASSUME NEW t \in Thread, Unlock(t) PROVE Fifo!Return(t)
    <3>1. /\ pc[t] = "unlock" /\ pc' = [pc EXCEPT ![t] = "idle"] /\ op' = [op EXCEPT ![t] = "none"]
          /\ data' = [data EXCEPT ![t] = NoValue] /\ val' = val /\ chain' = chain /\ max_size' = max_size
      BY <2>6 DEF Unlock, Goto, list
    <3>2. Stored' = Stored
      BY <3>1 DEF Stored
    <3>3. Statuses[t] = "done" /\ Statuses' = [Statuses EXCEPT ![t] = "idle"]
      BY <2>0, <3>1 DEF Statuses, Status
    <3>. QED  BY <3>1, <3>2, <3>3 DEF Fifo!Return, Stored, Statuses
  <2>7. CASE UNCHANGED vars
    BY <2>7, HiddenStep DEF vars, Status
  <2>8. ASSUME NEW t \in Thread, Step(t) PROVE [Fifo!Next]_Fifo!vars
    BY <2>8, <2>0, <2>4, <2>5, <2>6, LinkIsPush, UnlinkIsPull DEF Step, Fifo!Next
  <2>9. ASSUME NEW t \in Thread, NEW v \in Value, CallPush(t, v) PROVE Fifo!Next
    BY <2>9, <2>3 DEF CallPush, Fifo!Next
  <2>10. ASSUME NEW t \in Thread, CallPull(t) PROVE Fifo!Next
    BY <2>10, <2>3 DEF CallPull, Fifo!Next
  <2>. QED  BY <2>1, <2>2, <2>4, <2>7, <2>8, <2>9, <2>10 DEF Next, Fifo!Next
<1>. QED  BY <1>1, <1>2, InitControlInv, NextControlInv, PTL DEF Spec, ImplementsFifo, Fifo!Spec
=============================================================================
