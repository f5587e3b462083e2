------------------------------- MODULE Malloc -------------------------------
(* malloc/alloc.c: blocks with a header in front, doubly linked in address   *)
(* order, coalesced by free.  Addresses and sizes are byte counts scaled      *)
(* down; sizes are size_t, that is numbers modulo W.                          *)
EXTENDS Integers

CONSTANTS META, ALIGN,   \* sizeof(struct metadata), align_to
          INITIAL,       \* INITIAL_HEAP_SIZE
          Limit,         \* the break beyond which sbrk fails
          W,             \* 2^width of size_t
          Requests,      \* the sizes the program asks for
          NULL

ASSUME MallocAssumption == /\ {META, ALIGN, INITIAL, W} \subseteq Nat \ {0} /\ Limit \in Nat
                           /\ META % ALIGN = 0 /\ INITIAL % ALIGN = 0 /\ W % ALIGN = 0
                           /\ INITIAL > META /\ Limit >= INITIAL /\ Limit < W \div 2
                           /\ Requests \subseteq 0..(W - 1)
                           /\ NULL \notin Nat

VARIABLES heap,     \* head, tail, the break, and the headers in memory by address
          given,    \* ghost: the size asked for of each block the program owns
          broken    \* ghost: free has merged a block into one that is not its neighbour

mallocVars == <<heap, given, broken>>

MallocInit == /\ heap = [head |-> NULL, tail |-> NULL, brk |-> 0, mem |-> <<>>]
        /\ given = <<>>
        /\ broken = FALSE

Header(size, next, prev, free) == [size |-> size, next |-> next, prev |-> prev, free |-> free]
With(f, a, b) == [x \in DOMAIN f \union {a} |-> IF x = a THEN b ELSE f[x]]
Without(f, a) == [x \in DOMAIN f \ {a} |-> f[x]]
-----------------------------------------------------------------------------
(* malloc *)

InitHead(h) == [head |-> h.brk, tail |-> h.brk, brk |-> h.brk + INITIAL,
                mem |-> With(<<>>, h.brk, Header(INITIAL - META, NULL, NULL, TRUE))]

RoundUp(n) == (((n + ALIGN - 1) % W) \div ALIGN) * ALIGN

Fits(h, a, n) == h.mem[a].free /\ h.mem[a].size >= n

FirstFit(h, n) ==
    LET from[a \in DOMAIN h.mem \union {NULL}] ==
            IF a = NULL \/ Fits(h, a, n) THEN a ELSE from[h.mem[a].next]
    IN  from[h.head]

\* Fault: tail does not move to the new last block.
UseKeepsTail(h, best, n) ==
    LET old == h.mem[best]
        new == best + META + n
    IN  IF old.size # n /\ old.size >= n + META + ALIGN
        THEN [h EXCEPT !.mem = With(With(@, best, Header(n, new, old.prev, FALSE)),
                                    new, Header(old.size - n - META, old.next, best, TRUE))]
        ELSE [h EXCEPT !.mem[best] = Header(n, old.next, old.prev, FALSE)]

\* A block that is large enough for a second one is split.  The new block gets
\* its links; the block behind it keeps its prev.
Use(h, best, n) ==
    LET old == h.mem[best]
        new == best + META + n
    IN  IF old.size # n /\ old.size >= n + META + ALIGN
        THEN [h EXCEPT !.mem = With(With(@, best, Header(n, new, old.prev, FALSE)),
                                    new, Header(old.size - n - META, old.next, best, TRUE)),
                       !.tail = IF best = h.tail THEN new ELSE @]
        ELSE [h EXCEPT !.mem[best] = Header(n, old.next, old.prev, FALSE)]

Signed(n) == IF n >= W \div 2 THEN n - W ELSE n

\* What malloc(n) makes of heap h, and the block it returns.
Allocate(h0, n0) ==
    LET h == IF h0.head = NULL THEN InitHead(h0) ELSE h0
        n == RoundUp(n0)
        best == IF Fits(h, h.tail, n) THEN h.tail ELSE FirstFit(h, n)
        brk == h.brk + Signed((n + META) % W)
    IN  IF best # NULL THEN [heap |-> Use(h, best, n), block |-> best]
        ELSE IF brk > Limit \/ brk < 0 THEN [heap |-> h, block |-> NULL]
        ELSE [heap |-> [head |-> h.head, tail |-> h.brk, brk |-> brk,
                        mem |-> With([h.mem EXCEPT ![h.tail].next = h.brk],
                                     h.brk, Header(n, NULL, h.tail, FALSE))],
              block |-> h.brk]

Give(a, n, g) == IF a = NULL THEN g ELSE With(g, a, n)

MallocCall(n) == LET r == Allocate(heap, n)
                 IN  /\ heap' = r.heap
                     /\ given' = Give(r.block, n, given)
                     /\ UNCHANGED broken
-----------------------------------------------------------------------------
(* free *)

\* Merging block a into the block p in front of it, then what follows into it.
MergeInto(h, p, a) ==
    LET n == h.mem[a].next
        m == [Without(h.mem, a) EXCEPT ![p].size = @ + h.mem[a].size + META, ![p].next = n]
    IN  [h EXCEPT !.mem = IF n = NULL THEN m ELSE [m EXCEPT ![n].prev = p],
                  !.tail = IF a = h.tail THEN p ELSE @]

MergeNext(h, a) == LET n == h.mem[a].next
                   IN  IF n # NULL /\ h.mem[n].free THEN MergeInto(h, a, n) ELSE h

\* What free makes of heap h.  Where prev leads to a header that was merged
\* away, whatever is stored there decides.
Release(h0, a) ==
    LET h == [h0 EXCEPT !.mem[a].free = TRUE]
        p == h.mem[a].prev
        kept == [heap |-> MergeNext(h, a), broken |-> FALSE]
    IN  IF p = NULL THEN {kept}
        ELSE IF p \notin DOMAIN h.mem THEN {kept, [heap |-> h, broken |-> TRUE]}
        ELSE IF ~h.mem[p].free THEN {kept}
        ELSE {[heap |-> MergeNext(MergeInto(h, p, a), p), broken |-> h.mem[p].next # a]}

FreeCall(a) == /\ \E r \in Release(heap, a) : heap' = r.heap /\ broken' = r.broken
               /\ given' = Without(given, a)
-----------------------------------------------------------------------------
(* realloc of a block the program owns; size 0 and NULL are free and malloc. *)
ReallocCall(a, n) ==
    LET r == Allocate(heap, n)
    IN  IF heap.mem[a].size >= n
        THEN given' = [given EXCEPT ![a] = n] /\ UNCHANGED <<heap, broken>>
        ELSE IF r.block = NULL THEN heap' = r.heap /\ UNCHANGED <<given, broken>>
        ELSE /\ \E f \in Release(r.heap, a) : heap' = f.heap /\ broken' = f.broken
             /\ given' = Give(r.block, n, Without(given, a))

\* Nothing is predicted about a heap that is broken.
MallocNext == /\ ~broken
        /\ \/ \E n \in Requests : MallocCall(n)
           \/ \E a \in DOMAIN given : FreeCall(a)
           \/ \E a \in DOMAIN given, n \in Requests \ {0} : ReallocCall(a, n)

MallocSpec == MallocInit /\ [][MallocNext]_mallocVars
-----------------------------------------------------------------------------
Size(a) == heap.mem[a].size
End(a) == a + META + Size(a)

\* Every header lies in the heap, and next leads in address order from head
\* over all blocks to tail without overlap.  A block that is used without a
\* split shrinks to what was asked for: gaps are left, of any size in the end.
ListInOrder ==
    \A a \in DOMAIN heap.mem :
        LET n == heap.mem[a].next
            later == {b \in DOMAIN heap.mem : b > a}
        IN  /\ heap.head <= a
            /\ IF later = {} THEN n = NULL /\ a = heap.tail /\ End(a) <= heap.brk
               ELSE n \in later /\ (\A b \in later : n <= b) /\ End(a) <= n

\* The program's blocks are exactly the allocated ones, and each is as large
\* as what was asked for last.
BlocksAreGiven ==
    /\ DOMAIN given = {a \in DOMAIN heap.mem : ~heap.mem[a].free}
    /\ \A a \in DOMAIN given : Size(a) >= given[a]

\* A backward link is stale only behind a block that was split in the middle
\* of the heap: it never leads forward, past the block in front.
PrevIsBehind == \A a \in DOMAIN heap.mem : heap.mem[a].prev # NULL => heap.mem[a].prev < a

(* The lists and sizes agree and the program's blocks are its own, over any   *)
(* sequence of splits, merges with both neighbours and moves (alloc.c:115-331) *)
(* up to the first merge over a stale backward link.                          *)
HeapOK == (~broken /\ heap.head # NULL) => ListInOrder /\ BlocksAreGiven /\ PrevIsBehind
=============================================================================
