------------------------------ MODULE MemCheck ------------------------------
(***************************************************************************)
(* mini_memcheck/mini_memcheck.c: malloc and free of a program are         *)
(* replaced by calls that keep a list of what is allocated, with two       *)
(* totals and a count of invalid addresses.  A block is known by its       *)
(* address; the allocator of libc, which is external, gives any address    *)
(* that is not in use and succeeds.                                        *)
(*                                                                         *)
(* When realloc moves a block (line 98), the list goes on to name the old  *)
(* address, which has been freed, and reads it (lines 99-102): unlinked.   *)
(* Nothing is predicted after that.                                        *)
(***************************************************************************)
EXTENDS Integers, Sequences, SequencesExt, Sums

CONSTANTS Addresses, Sizes,
          MaxRequested,  \* bound on total_memory_requested
          MaxInvalid     \* bound on invalid_addresses

ASSUME MemCheckAssumption == Sizes \subseteq Nat \ {0}

VARIABLES blocks,   \* the list from head on: records [at, request_size]
          total_memory_requested, total_memory_freed, invalid_addresses,
          held,     \* what the program holds: address -> size it asked for
          wrong,    \* how often it passed an address it did not hold
          unlinked

totals == <<total_memory_requested, total_memory_freed>>
memVars == <<blocks, totals, invalid_addresses, held, wrong, unlinked>>

MemInit == /\ blocks = <<>>
           /\ total_memory_requested = 0 /\ total_memory_freed = 0
           /\ invalid_addresses = 0
           /\ held = [a \in {} |-> 0]
           /\ wrong = 0
           /\ unlinked = FALSE
-----------------------------------------------------------------------------
Holding(a, n) == [b \in DOMAIN held \cup {a} |-> IF b = a THEN n ELSE held[b]]
Dropping(a) == [b \in DOMAIN held \ {a} |-> held[b]]

\* mini_malloc and mini_calloc: the new block goes to the end of the list.
MiniMalloc(n) ==
  \E a \in Addresses \ DOMAIN held :
    /\ blocks' = Append(blocks, [at |-> a, request_size |-> n])
    /\ total_memory_requested' = total_memory_requested + n
    /\ held' = Holding(a, n)
    /\ UNCHANGED <<total_memory_freed, invalid_addresses, wrong, unlinked>>

\* The position of payload p in the list: 0 when it is not there.
Find(p) == IF \E i \in DOMAIN blocks : blocks[i].at = p
           THEN CHOOSE i \in DOMAIN blocks : blocks[i].at = p ELSE 0

Invalid(p) == /\ Find(p) = 0
              /\ invalid_addresses' = invalid_addresses + 1
              /\ wrong' = IF p \in DOMAIN held THEN wrong ELSE wrong + 1
              /\ UNCHANGED <<blocks, totals, held, unlinked>>

\* mini_free, and mini_realloc to size zero.
MiniFree(p) ==
  \/ Invalid(p)
  \/ LET i == Find(p)
     IN /\ i # 0
        /\ blocks' = RemoveAt(blocks, i)
        /\ total_memory_freed' = total_memory_freed + blocks[i].request_size
        /\ held' = Dropping(p)
        /\ UNCHANGED <<total_memory_requested, invalid_addresses, wrong, unlinked>>

\* Fault: the whole old block counts as freed.
ResizedFreesAll(old, n) ==
  /\ total_memory_freed' = total_memory_freed + old
  /\ total_memory_requested' = IF old > n THEN total_memory_requested
                               ELSE total_memory_requested + n

\* The totals after a block of size old was given the size n.
Resized(old, n) ==
  IF old > n THEN /\ total_memory_freed' = total_memory_freed + (old - n)
                  /\ UNCHANGED total_memory_requested
  ELSE /\ total_memory_requested' = total_memory_requested + (n - old)
       /\ UNCHANGED total_memory_freed

\* mini_realloc of a payload that is not NULL.  A block of the same size is
\* left alone; any other stays in place or moves.
MiniRealloc(p, n) ==
  \/ Invalid(p)
  \/ LET i == Find(p)
     IN /\ i # 0
        /\ blocks[i].request_size = n
        /\ held' = Holding(p, n)
        /\ UNCHANGED <<blocks, totals, invalid_addresses, wrong, unlinked>>
  \/ LET i == Find(p)
     IN /\ i # 0
        /\ blocks[i].request_size # n
        /\ Resized(blocks[i].request_size, n)
        /\ \/ /\ blocks' = [blocks EXCEPT ![i].request_size = n]
              /\ held' = Holding(p, n)
              /\ UNCHANGED unlinked
           \/ \E a \in Addresses \ DOMAIN held :
                /\ held' = [b \in (DOMAIN held \ {p}) \cup {a} |-> IF b = a THEN n ELSE held[b]]
                /\ unlinked' = TRUE
                /\ UNCHANGED blocks
        /\ UNCHANGED <<invalid_addresses, wrong>>

MemNext ==
  /\ ~unlinked
  /\ \/ \E n \in Sizes : /\ total_memory_requested + n <= MaxRequested
                         /\ \/ MiniMalloc(n)
                            \/ \E p \in Addresses :
                                 /\ Find(p) = 0 => invalid_addresses < MaxInvalid
                                 /\ MiniRealloc(p, n)
     \/ \E p \in Addresses : /\ Find(p) = 0 => invalid_addresses < MaxInvalid
                             /\ MiniFree(p)

MemSpec == MemInit /\ [][MemNext]_memVars
-----------------------------------------------------------------------------
\* The report at the end of the program is right: the bytes it leaks (the
\* difference of the totals) are those of the blocks it still holds, block
\* by block, and the invalid addresses are those it passed wrongly, over
\* calls that grow, shrink, repeat a free or pass what was never allocated
\* (mini_memcheck.c:92-139).
LeakedBytes == SumTo([k \in DOMAIN blocks |-> blocks[k].request_size], Len(blocks))

ReportIsRight ==
  ~unlinked =>
    /\ ToSet(blocks) = {[at |-> a, request_size |-> held[a]] : a \in DOMAIN held}
    /\ IsInjective(blocks)
    /\ total_memory_requested - total_memory_freed = LeakedBytes
    /\ invalid_addresses = wrong
=============================================================================
