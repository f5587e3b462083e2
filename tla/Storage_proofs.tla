---------------------------- MODULE Storage_proofs ----------------------------
(* Proofs about the libraries that hand out storage: the file system          *)
(* (MinixFs), the vector (Vector), the allocator (Malloc), and the virtual    *)
(* memory (Mmu).                                                              *)
(*                                                                            *)
(* Their code searches and loops.  What a loop keeps is a set of numbers that *)
(* has 0 and, with k - 1, k (UpTo); what a search finds is the least number   *)
(* with a property (LeastNumber).  Both rest on < being well-founded on Nat.  *)
EXTENDS MinixFs, Vector, Malloc, Mmu, TLAPS, FiniteSetTheorems, FunctionTheorems, SequenceTheorems,
        WellFoundedInduction
-----------------------------------------------------------------------------
(* Loops that count.                                                          *)

LEMMA LeastNumber == \A S \in SUBSET Nat : S # {} => \E n \in S : \A k \in S : n <= k
<1>. SUFFICES ASSUME NEW S \in SUBSET Nat, S # {} PROVE \E n \in S : \A k \in S : n <= k
  OBVIOUS
<1>1. PICK n \in S : \A k \in S : ~(<<k, n>> \in OpToRel(<, Nat))
  BY WFMin, NatLessThanWellFounded
<1>2. \A k \in S : ~(k < n)
  BY <1>1 DEF OpToRel
<1>. QED
  BY <1>2

LEMMA UpTo ==
  \A n \in Nat : \A T : 0 \in T /\ (\A k \in 1..n : k - 1 \in T => k \in T) => n \in T
<1>. SUFFICES ASSUME NEW n \in Nat, NEW T, 0 \in T, \A k \in 1..n : k - 1 \in T => k \in T, n \notin T
              PROVE  FALSE
  OBVIOUS
<1>. DEFINE S == {k \in 0..n : k \notin T}
<1>1. PICK u \in S : \A k \in S : u <= k
  <2>1. S \in SUBSET Nat /\ S # {}
    OBVIOUS
  <2>. HIDE DEF S
  <2>. QED
    BY <2>1, LeastNumber
<1>2. u \in 1..n /\ u - 1 \in 0..n /\ u - 1 \notin S
  BY <1>1
<1>. QED
  BY <1>1, <1>2

-----------------------------------------------------------------------------
(* minixfs: every block in use has one place that names it.                   *)

Inode == 0..FileInodes
Block == DataBlock \cup {NoBlock}
Node == [at : [Slots -> Block], indirect : Block, size : Nat]

DiskOK(d) ==
  /\ d \in [inode : [Inode -> Node], data_used : SUBSET DataBlock]
  /\ \A i, j \in Inode, k, l \in Slots :
        d.inode[i].at[k] = d.inode[j].at[l] /\ d.inode[i].at[k] # NoBlock => i = j /\ k = l
  /\ \A i, j \in Inode : d.inode[i].indirect = d.inode[j].indirect /\ d.inode[i].indirect # NoBlock => i = j
  /\ \A i, j \in Inode, k \in Slots : d.inode[i].at[k] = d.inode[j].indirect => d.inode[i].at[k] = NoBlock
  /\ \A b \in DataBlock : b \in d.data_used <=>
        \E i \in Inode : d.inode[i].indirect = b \/ \E k \in Slots : d.inode[i].at[k] = b

\* e is d with some more blocks in places that had none.
Keeps(d, e) ==
  \A i \in Inode : /\ e.inode[i].size = d.inode[i].size
                  /\ \A k \in Slots : d.inode[i].at[k] # NoBlock => e.inode[i].at[k] = d.inode[i].at[k]

LEMMA KeepsOn == ASSUME NEW d, NEW e, NEW g, Keeps(d, e), Keeps(e, g) PROVE Keeps(d, g)
BY Zenon DEF Keeps

LEMMA FirstUnusedIsFree ==
  ASSUME NEW d, Free(d) # {}
  PROVE  FirstUnused(d) \in DataBlock /\ FirstUnused(d) \notin d.data_used /\ FirstUnused(d) # NoBlock
<1>1. Free(d) \in SUBSET Nat
  BY MinixFsAssumption DEF Free, DataBlock
<1>2. FirstUnused(d) \in Free(d)
  BY <1>1, LeastNumber DEF FirstUnused
<1>. QED
  BY <1>2, MinixFsAssumption DEF Free, DataBlock

LEMMA AddIndirectOK ==
  ASSUME NEW d, DiskOK(d), NEW i \in Inode, NEW k \in Slots
  PROVE  DiskOK(AddIndirect(d, i, k)) /\ Keeps(d, AddIndirect(d, i, k))
<1>. DEFINE b == FirstUnused(d)
            e == [d EXCEPT !.inode[i].indirect = b, !.data_used = @ \cup {b}]
<1>1. CASE k < Direct \/ d.inode[i].indirect # NoBlock \/ Free(d) = {}
  BY <1>1 DEF AddIndirect, Keeps
<1>2. CASE ~(k < Direct) /\ d.inode[i].indirect = NoBlock /\ Free(d) # {}
  <2>1. AddIndirect(d, i, k) = e
    BY <1>2 DEF AddIndirect
  <2>2. b \in DataBlock /\ b \notin d.data_used /\ b # NoBlock
    BY <1>2, FirstUnusedIsFree
  <2>. HIDE DEF b
  <2>3. d.inode[i] \in Node
    BY DEF DiskOK
  <2>. DEFINE node == [at |-> d.inode[i].at, indirect |-> b, size |-> d.inode[i].size]
  <2>31. [d.inode[i] EXCEPT !.indirect = b] = node
    BY <2>3 DEF Node
  <2>32. d \in [inode : [Inode -> Node], data_used : SUBSET DataBlock]
    BY DEF DiskOK
  <2>33. e = [d EXCEPT !.inode = [d.inode EXCEPT ![i] = [d.inode[i] EXCEPT !.indirect = b]],
                       !.data_used = d.data_used \cup {b}]
    OBVIOUS
  <2>4. e = [inode |-> [d.inode EXCEPT ![i] = node], data_used |-> d.data_used \cup {b}]
    <3>. HIDE DEF node, e
    <3>. QED
      BY <2>31, <2>32, <2>33
  <2>. HIDE DEF e
  <2>5. /\ e.data_used = d.data_used \cup {b} /\ e.inode[i].indirect = b
        /\ \A j \in Inode : e.inode[j].at = d.inode[j].at /\ e.inode[j].size = d.inode[j].size
        /\ \A j \in Inode : j # i => e.inode[j].indirect = d.inode[j].indirect
    BY <2>4, <2>32
  <2>6. e \in [inode : [Inode -> Node], data_used : SUBSET DataBlock]
    <3>1. node \in Node
      BY <2>2, <2>3 DEF Node, Block
    <3>. QED
      BY <2>2, <2>4, <2>32, <3>1
  <2>7. \A j \in Inode : d.inode[j].indirect # b /\ \A l \in Slots : d.inode[j].at[l] # b
    BY <2>2 DEF DiskOK
  <2>8. /\ \A x, y \in Inode, k1, l \in Slots :
              e.inode[x].at[k1] = e.inode[y].at[l] /\ e.inode[x].at[k1] # NoBlock => x = y /\ k1 = l
        /\ \A x, y \in Inode : e.inode[x].indirect = e.inode[y].indirect /\ e.inode[x].indirect # NoBlock => x = y
        /\ \A x, y \in Inode, l \in Slots : e.inode[x].at[l] = e.inode[y].indirect => e.inode[x].at[l] = NoBlock
    BY <2>5, <2>7 DEF DiskOK
  <2>9. \A c \in DataBlock : c \in e.data_used <=>
          \E j \in Inode : e.inode[j].indirect = c \/ \E l \in Slots : e.inode[j].at[l] = c
    <3>. TAKE c \in DataBlock
    <3>1. CASE c = b
      BY <2>5, <3>1
    <3>2. CASE c # b
      <4>1. c # NoBlock
        BY MinixFsAssumption DEF DataBlock
      <4>. QED
        BY <1>2, <2>5, <3>2, <4>1 DEF DiskOK
    <3>. QED
      BY <3>1, <3>2
  <2>. QED
    BY <2>1, <2>5, <2>6, <2>8, <2>9 DEF DiskOK, Keeps
<1>. QED
  BY <1>1, <1>2

LEMMA AddBlockOK ==
  ASSUME NEW d, DiskOK(d), NEW i \in Inode, NEW k \in Slots
  PROVE  DiskOK(AddBlock(d, i, k)) /\ Keeps(d, AddBlock(d, i, k))
<1>. DEFINE a == AddIndirect(d, i, k)
            b == FirstUnused(a)
            e == [a EXCEPT !.inode[i].at[k] = b, !.data_used = @ \cup {b}]
            Full == a.inode[i].at[k] # NoBlock \/ Free(a) = {} \/ (k >= Direct /\ a.inode[i].indirect = NoBlock)
<1>0. DiskOK(a) /\ Keeps(d, a)
  BY AddIndirectOK
<1>01. AddBlock(d, i, k) = IF Full THEN a ELSE e
  BY Zenon DEF AddBlock
<1>. HIDE DEF a
<1>1. CASE Full
  <2>1. AddBlock(d, i, k) = a
    BY <1>01, <1>1
  <2>. QED
    BY <1>0, <2>1
<1>2. CASE ~Full
  <2>1. AddBlock(d, i, k) = e
    BY <1>01, <1>2
  <2>2. b \in DataBlock /\ b \notin a.data_used /\ b # NoBlock
    BY <1>2, FirstUnusedIsFree
  <2>20. a.inode[i].at[k] = NoBlock
    BY <1>2
  <2>. HIDE DEF b
  <2>3. a.inode[i] \in Node
    BY <1>0 DEF DiskOK
  <2>. DEFINE node == [at |-> [a.inode[i].at EXCEPT ![k] = b], indirect |-> a.inode[i].indirect,
                       size |-> a.inode[i].size]
  <2>31. [a.inode[i] EXCEPT !.at = [a.inode[i].at EXCEPT ![k] = b]] = node
    BY <2>3 DEF Node
  <2>32. a \in [inode : [Inode -> Node], data_used : SUBSET DataBlock]
    BY <1>0 DEF DiskOK
  <2>33. e = [a EXCEPT !.inode = [a.inode EXCEPT ![i] = [a.inode[i] EXCEPT !.at = [a.inode[i].at EXCEPT ![k] = b]]],
                       !.data_used = a.data_used \cup {b}]
    OBVIOUS
  <2>4. e = [inode |-> [a.inode EXCEPT ![i] = node], data_used |-> a.data_used \cup {b}]
    <3>. HIDE DEF node, e
    <3>. QED
      BY <2>31, <2>32, <2>33
  <2>. HIDE DEF e
  <2>5. /\ e.data_used = a.data_used \cup {b} /\ e.inode[i].at[k] = b
        /\ \A j \in Inode : e.inode[j].indirect = a.inode[j].indirect /\ e.inode[j].size = a.inode[j].size
        /\ \A j \in Inode, l \in Slots : j # i \/ l # k => e.inode[j].at[l] = a.inode[j].at[l]
    BY <2>3, <2>4, <2>32 DEF Node
  <2>6. e \in [inode : [Inode -> Node], data_used : SUBSET DataBlock]
    <3>1. node \in Node
      BY <2>2, <2>3 DEF Node, Block
    <3>. QED
      BY <2>2, <2>4, <2>32, <3>1
  <2>7. \A j \in Inode : a.inode[j].indirect # b /\ \A l \in Slots : a.inode[j].at[l] # b
    BY <1>0, <2>2 DEF DiskOK
  <2>8. /\ \A x, y \in Inode, u, l \in Slots :
              e.inode[x].at[u] = e.inode[y].at[l] /\ e.inode[x].at[u] # NoBlock => x = y /\ u = l
        /\ \A x, y \in Inode : e.inode[x].indirect = e.inode[y].indirect /\ e.inode[x].indirect # NoBlock => x = y
        /\ \A x, y \in Inode, l \in Slots : e.inode[x].at[l] = e.inode[y].indirect => e.inode[x].at[l] = NoBlock
    <3>1. \A x, y \in Inode : e.inode[x].indirect = e.inode[y].indirect /\ e.inode[x].indirect # NoBlock => x = y
      BY <1>0, <2>5 DEF DiskOK
    <3>2. \A x, y \in Inode, l \in Slots : e.inode[x].at[l] = e.inode[y].indirect => e.inode[x].at[l] = NoBlock
      BY <1>0, <2>5, <2>7 DEF DiskOK
    <3>3. ASSUME NEW x \in Inode, NEW y \in Inode, NEW u \in Slots, NEW l \in Slots,
                 e.inode[x].at[u] = e.inode[y].at[l], e.inode[x].at[u] # NoBlock
          PROVE  x = y /\ u = l
      <4>1. CASE e.inode[x].at[u] = b
        <5>1. \A z \in Inode, w \in Slots : e.inode[z].at[w] = b => z = i /\ w = k
          BY <2>5, <2>7
        <5>2. e.inode[y].at[l] = b
          BY <3>3, <4>1
        <5>. QED
          BY <4>1, <5>1, <5>2
      <4>2. CASE e.inode[x].at[u] # b
        <5>1. e.inode[x].at[u] = a.inode[x].at[u] /\ e.inode[y].at[l] = a.inode[y].at[l]
          BY <2>5, <3>3, <4>2
        <5>2. a.inode[x].at[u] = a.inode[y].at[l] /\ a.inode[x].at[u] # NoBlock
          BY <3>3, <5>1
        <5>. QED
          BY <1>0, <5>2 DEF DiskOK
      <4>. QED
        BY <4>1, <4>2
    <3>. QED
      BY <3>1, <3>2, <3>3
  <2>9. \A c \in DataBlock : c \in e.data_used <=>
          \E j \in Inode : e.inode[j].indirect = c \/ \E l \in Slots : e.inode[j].at[l] = c
    <3>. TAKE c \in DataBlock
    <3>1. CASE c = b
      BY <2>5, <3>1
    <3>2. CASE c # b
      <4>1. c # NoBlock
        BY MinixFsAssumption DEF DataBlock
      <4>2. c \in e.data_used <=> c \in a.data_used
        BY <2>5, <3>2
      <4>3. c \in a.data_used <=>
              \E j \in Inode : a.inode[j].indirect = c \/ \E l \in Slots : a.inode[j].at[l] = c
        BY <1>0 DEF DiskOK
      <4>4. \A j \in Inode, l \in Slots : e.inode[j].at[l] = c <=> a.inode[j].at[l] = c
        BY <2>5, <2>20, <3>2, <4>1
      <4>. QED
        BY <2>5, <4>2, <4>3, <4>4
    <3>. QED
      BY <3>1, <3>2
  <2>10. Keeps(d, e)
    BY <1>0, <2>5, <2>20 DEF Keeps
  <2>. QED
    BY <2>1, <2>6, <2>8, <2>9, <2>10 DEF DiskOK
<1>. QED
  BY <1>1, <1>2

LEMMA MinBlockCountOK ==
  ASSUME NEW d, DiskOK(d), NEW i \in Inode, NEW n \in Nat
  PROVE  DiskOK(MinBlockCount(d, i, n)) /\ Keeps(d, MinBlockCount(d, i, n))
<1>. DEFINE Solves(f, u) == f = [k \in 0..u |-> IF k = 0 THEN d ELSE AddBlock(f[k - 1], i, k - 1)]
            filled == CHOOSE f : Solves(f, n)
<1>1. CASE n > Direct + Indirect
  BY <1>1 DEF MinBlockCount, Keeps
<1>2. CASE ~(n > Direct + Indirect)
  <2>1. MinBlockCount(d, i, n) = filled[n]
    BY <1>2, Zenon DEF MinBlockCount
  <2>2. \A k \in 1..n : k - 1 \in Slots
    BY <1>2, MinixFsAssumption DEF Slots
  <2>. HIDE DEF filled
  <2>5. ASSUME NEW u \in 1..n, NEW f, Solves(f, u - 1)
        PROVE  \E g : Solves(g, u)
    <3>. DEFINE g == [k \in 0..u |-> IF k = u THEN AddBlock(f[u - 1], i, u - 1) ELSE f[k]]
    <3>1. \A k \in 0..(u - 1) : f[k] = IF k = 0 THEN d ELSE AddBlock(f[k - 1], i, k - 1)
      BY <2>5
    <3>2. \A k \in 0..u : g[k] = IF k = 0 THEN d ELSE AddBlock(g[k - 1], i, k - 1)
      BY <2>5, <3>1
    <3>3. g = [k \in 0..u |-> g[k]]
      OBVIOUS
    <3>. HIDE DEF g
    <3>4. Solves(g, u)
      BY <3>2, <3>3
    <3>. QED
      BY <3>4
  <2>6. \E f : Solves(f, n)
    <3>. DEFINE P(u) == \E f : Solves(f, u)
                T == {u \in 0..n : P(u)}
    <3>1. Solves([k \in 0..0 |-> d], 0)
      OBVIOUS
    <3>2. P(0) /\ \A u \in 1..n : P(u - 1) => P(u)
      <4>. HIDE DEF Solves
      <4>. QED
        BY <2>5, <3>1
    <3>. HIDE DEF P
    <3>3. 0 \in T /\ \A u \in 1..n : u - 1 \in T => u \in T
      BY <3>2
    <3>4. n \in T
      <4>. HIDE DEF T
      <4>. QED
        BY <3>3, UpTo
    <3>. QED
      BY <3>4 DEF P
  <2>7. Solves(filled, n)
    <3>. HIDE DEF Solves
    <3>. QED
      BY <2>6 DEF filled
  <2>8. filled[0] = d /\ \A k \in 1..n : filled[k] = AddBlock(filled[k - 1], i, k - 1)
    BY <2>7
  <2>. DEFINE T == {k \in 0..n : DiskOK(filled[k]) /\ Keeps(d, filled[k])}
  <2>9. 0 \in T
    BY <2>8 DEF Keeps
  <2>10. \A k \in 1..n : k - 1 \in T => k \in T
    <3>. SUFFICES ASSUME NEW k \in 1..n, k - 1 \in T PROVE k \in T
      OBVIOUS
    <3>1. /\ k - 1 \in Slots /\ filled[k] = AddBlock(filled[k - 1], i, k - 1)
          /\ DiskOK(filled[k - 1]) /\ Keeps(d, filled[k - 1])
      BY <2>2, <2>8
    <3>2. DiskOK(filled[k]) /\ Keeps(filled[k - 1], filled[k])
      BY <3>1, AddBlockOK
    <3>. QED
      BY <3>1, <3>2, KeepsOn
  <2>11. n \in T
    <3>. HIDE DEF T
    <3>. QED
      BY <2>9, <2>10, UpTo
  <2>. QED
    BY <2>1, <2>11
<1>. QED
  BY <1>1, <1>2

LEMMA ResizedOK ==
  ASSUME NEW d, DiskOK(d), NEW i \in Inode, NEW s \in Nat
  PROVE  /\ DiskOK([inode |-> [d.inode EXCEPT ![i].size = s], data_used |-> d.data_used])
         /\ [d EXCEPT !.inode[i].size = s] = [inode |-> [d.inode EXCEPT ![i].size = s], data_used |-> d.data_used]
<1>. DEFINE node == [at |-> d.inode[i].at, indirect |-> d.inode[i].indirect, size |-> s]
            nodes == [d.inode EXCEPT ![i].size = s]
            e == [inode |-> nodes, data_used |-> d.data_used]
<1>1. d.inode[i] \in Node /\ d \in [inode : [Inode -> Node], data_used : SUBSET DataBlock]
  BY DEF DiskOK
<1>2. [d.inode[i] EXCEPT !.size = s] = node /\ node \in Node
  BY <1>1 DEF Node
<1>3. nodes = [d.inode EXCEPT ![i] = node]
  BY <1>2
<1>4. [d EXCEPT !.inode[i].size = s] = e
  <2>1. [d EXCEPT !.inode[i].size = s] = [d EXCEPT !.inode = nodes]
    OBVIOUS
  <2>. HIDE DEF nodes
  <2>. QED
    BY <1>1, <2>1
<1>. HIDE DEF nodes
<1>5. e \in [inode : [Inode -> Node], data_used : SUBSET DataBlock]
  BY <1>1, <1>2, <1>3
<1>6. /\ e.data_used = d.data_used
      /\ \A j \in Inode : e.inode[j].at = d.inode[j].at /\ e.inode[j].indirect = d.inode[j].indirect
  BY <1>1, <1>3
<1>. HIDE DEF e
<1>7. DiskOK(e)
  BY <1>5, <1>6 DEF DiskOK
<1>. QED
  BY <1>4, <1>7 DEF e, nodes

MinixInv ==
  /\ DiskOK(disk)
  /\ entries \in Seq(Names \X (1..FileInodes))
  /\ inodes \in 0..FileInodes
  /\ Len(entries) <= inodes

\* While there are inodes left the directory's own has a slot for the next entry.
LEMMA DirSlotIs == ASSUME MinixInv, CanInit PROVE DirSlot \in Slots
<1>. DEFINE n == Len(entries)
            slots == Direct + Indirect
            d == n \div EntriesPerBlock
            e == n % EntriesPerBlock
<1>1. EntriesPerBlock \in Nat \ {0} /\ slots \in Nat /\ FileInodes \in Nat /\ n \in Nat
  BY MinixFsAssumption DEF MinixInv
<1>2. n < slots * EntriesPerBlock
  <2>1. n < FileInodes
    BY <1>1 DEF MinixInv, CanInit
  <2>2. slots * EntriesPerBlock \in Int /\ FileInodes <= slots * EntriesPerBlock
    BY <1>1, DirectoryAssumption
  <2>. HIDE DEF n, slots
  <2>. QED
    BY <1>1, <2>1, <2>2
<1>. HIDE DEF n, slots
<1>3. d \in Int /\ e \in 0 .. EntriesPerBlock - 1 /\ n = EntriesPerBlock * d + e
  BY <1>1
<1>. HIDE DEF d, e
<1>4. d >= 0
  <2>1. CASE d <= -1
    <3>1. EntriesPerBlock * d <= -EntriesPerBlock
      BY <1>1, <1>3, <2>1
    <3>. QED
      BY <1>1, <1>3, <3>1
  <2>. QED
    BY <1>3, <2>1
<1>5. d < slots
  <2>1. CASE d >= slots
    <3>1. EntriesPerBlock * (d - slots) >= 0
      BY <1>1, <1>3, <2>1
    <3>2. EntriesPerBlock * (d - slots) = EntriesPerBlock * d - slots * EntriesPerBlock
      BY <1>1, <1>3
    <3>3. EntriesPerBlock * d \in Int /\ slots * EntriesPerBlock \in Int
      BY <1>1, <1>3
    <3>. QED
      BY <1>1, <1>2, <1>3, <3>1, <3>2, <3>3
  <2>. QED
    BY <1>1, <1>3, <2>1
<1>6. DirSlot = d
  BY Zenon DEF DirSlot, d, n
<1>7. slots = Direct + Indirect
  BY DEF slots
<1>. QED
  BY <1>1, <1>3, <1>4, <1>5, <1>6, <1>7, MinixFsAssumption DEF Slots

LEMMA MinixInitOK == MinixInit => MinixInv
<1>. SUFFICES ASSUME MinixInit PROVE MinixInv
  OBVIOUS
<1>1. [at |-> [k \in Slots |-> NoBlock], indirect |-> NoBlock, size |-> 0] \in Node
  BY DEF Node, Block
<1>2. /\ disk \in [inode : [Inode -> Node], data_used : SUBSET DataBlock]
      /\ disk.data_used = {}
      /\ \A i \in Inode : disk.inode[i].indirect = NoBlock /\ \A k \in Slots : disk.inode[i].at[k] = NoBlock
  BY <1>1 DEF MinixInit, Inode, disk
<1>3. \A b \in DataBlock : b # NoBlock
  BY MinixFsAssumption DEF DataBlock
<1>4. DiskOK(disk)
  BY <1>2, <1>3 DEF DiskOK
<1>. QED
  BY <1>4, MinixFsAssumption DEF MinixInv, MinixInit

LEMMA EntryIsInode ==
  ASSUME MinixInv, NEW f, Exists(f)
  PROVE  InodeOf(f) \in 1..FileInodes
<1>. DEFINE S == {entries[n] : n \in DOMAIN entries}
<1>1. S \subseteq Names \X (1..FileInodes)
  BY DEF MinixInv
<1>2. \E e \in S : e[1] = f
  BY DEF Exists
<1>. QED
  BY <1>1, <1>2 DEF InodeOf

\* Whether or not the directory has room, its disk and its entries stay sound.
LEMMA EnterOK ==
  ASSUME MinixInv, NEW f \in Names, Enter(f)
  PROVE  /\ CanInit => DiskOK(DirDisk)
         /\ entries' \in Seq(Names \X (1..FileInodes))
         /\ inodes' \in 0..FileInodes /\ Len(entries') <= inodes'
         /\ CanInit => NewInode \in 1..FileInodes
<1>1. CanInit => NewInode \in 1..FileInodes
  BY MinixFsAssumption DEF MinixInv, CanInit, NewInode
<1>2. CanInit => DiskOK(DirDisk)
  BY AddBlockOK, DirSlotIs, MinixFsAssumption DEF MinixInv, DirDisk, Root, Inode
<1>3. CanEnter => /\ Append(entries, <<f, NewInode>>) \in Seq(Names \X (1..FileInodes))
                  /\ Len(Append(entries, <<f, NewInode>>)) = Len(entries) + 1
  <2>1. CanEnter => <<f, NewInode>> \in Names \X (1..FileInodes)
    BY <1>1 DEF CanEnter
  <2>. QED
    BY <2>1 DEF MinixInv
<1>4. CanEnter => CanInit
  BY DEF CanEnter
<1>5. /\ entries \in Seq(Names \X (1..FileInodes)) /\ Len(entries) \in Nat
      /\ inodes \in 0..FileInodes /\ Len(entries) <= inodes /\ NewInode = inodes + 1
  BY DEF MinixInv, NewInode
<1>6. inodes' \in 0..FileInodes /\ Len(entries') <= inodes'
  <2>1. CASE CanEnter
    BY <1>1, <1>3, <1>4, <1>5, <2>1 DEF Enter
  <2>2. CASE ~CanEnter
    BY <1>1, <1>5, <2>2 DEF Enter
  <2>. QED
    BY <2>1, <2>2
<1>. QED
  BY <1>1, <1>2, <1>3, <1>5, <1>6 DEF Enter

\* A disk taken apart and put together.
LEMMA DiskIs ==
  ASSUME NEW d, DiskOK(d)
  PROVE  d = [inode |-> d.inode, data_used |-> d.data_used]
BY DEF DiskOK

LEMMA WriteToOK ==
  ASSUME NEW d, DiskOK(d), NEW i \in Inode, NEW off \in Nat, NEW count \in Nat, NEW v, WriteTo(d, i, off, count, v)
  PROVE  DiskOK(disk')
<1>. DEFINE n == BlocksNeeded(off + count)
            e == MinBlockCount(d, i, n)
            s == NewSize(e.inode[i].size, off + count)
<1>1. n \in Nat
  <2>1. BlockUnits \in Nat \ {0} /\ off + count + BlockUnits - 1 \in Nat
    BY MinixFsAssumption
  <2>. QED
    BY <2>1 DEF BlocksNeeded
<1>2. DiskOK(e)
  BY <1>1, MinBlockCountOK
<1>. HIDE DEF n
<1>3. data_used' = e.data_used /\ (inode' = [e.inode EXCEPT ![i].size = s] \/ inode' = e.inode)
  BY DEF WriteTo, n
<1>. HIDE DEF e
<1>4. s \in Nat
  BY <1>2 DEF NewSize, DiskOK, Node
<1>. HIDE DEF s
<1>5. CASE inode' = [e.inode EXCEPT ![i].size = s]
  BY <1>2, <1>3, <1>4, <1>5, ResizedOK DEF disk
<1>6. CASE inode' = e.inode
  BY <1>2, <1>3, <1>6, DiskIs DEF disk
<1>. QED
  BY <1>3, <1>5, <1>6

LEMMA DirResizedOK ==
  ASSUME DiskOK(DirDisk)
  PROVE  /\ DiskOK([inode |-> [DirDisk.inode EXCEPT ![Root].size = @ + 1], data_used |-> DirDisk.data_used])
         /\ DiskOK([DirDisk EXCEPT !.inode[Root].size = @ + 1])
<1>1. Root \in Inode
  BY MinixFsAssumption DEF Root, Inode
<1>. DEFINE d == DirDisk
            s == d.inode[Root].size + 1
<1>2. s \in Nat
  BY <1>1 DEF DiskOK, Node
<1>3. [d.inode EXCEPT ![Root].size = @ + 1] = [d.inode EXCEPT ![Root].size = s]
  OBVIOUS
<1>4. [d EXCEPT !.inode[Root].size = @ + 1] = [d EXCEPT !.inode[Root].size = s]
  OBVIOUS
<1>5. DiskOK(d)
  OBVIOUS
<1>. HIDE DEF d, s
<1>6. /\ DiskOK([inode |-> [d.inode EXCEPT ![Root].size = s], data_used |-> d.data_used])
      /\ DiskOK([d EXCEPT !.inode[Root].size = s])
  <2>1. /\ DiskOK([inode |-> [d.inode EXCEPT ![Root].size = s], data_used |-> d.data_used])
        /\ [d EXCEPT !.inode[Root].size = s] = [inode |-> [d.inode EXCEPT ![Root].size = s], data_used |-> d.data_used]
    BY <1>1, <1>2, <1>5, ResizedOK
  <2>. QED
    BY <2>1
<1>7. /\ DiskOK([inode |-> [d.inode EXCEPT ![Root].size = @ + 1], data_used |-> d.data_used])
      /\ DiskOK([d EXCEPT !.inode[Root].size = @ + 1])
  BY <1>3, <1>4, <1>6
<1>. QED
  BY <1>7, Zenon DEF d

LEMMA CreateFileOK ==
  ASSUME MinixInv, NEW f \in Names, CreateFile(f)
  PROVE  MinixInv'
<1>1. /\ CanInit => DiskOK(DirDisk)
      /\ entries' \in Seq(Names \X (1..FileInodes)) /\ inodes' \in 0..FileInodes /\ Len(entries') <= inodes'
  BY EnterOK DEF CreateFile
<1>2. CanInit => DiskOK([inode |-> [DirDisk.inode EXCEPT ![Root].size = @ + 1], data_used |-> DirDisk.data_used])
  BY <1>1, DirResizedOK
<1>3. CanInit => DiskOK([inode |-> DirDisk.inode, data_used |-> DirDisk.data_used])
  BY <1>1, DiskIs
<1>4. CASE CanEnter
  BY <1>1, <1>2, <1>4 DEF CreateFile, CanEnter, MinixInv, disk
<1>5. CASE ~CanEnter /\ CanInit
  BY <1>1, <1>3, <1>5 DEF CreateFile, MinixInv, disk
<1>6. CASE ~CanEnter /\ ~CanInit
  BY <1>1, <1>6 DEF CreateFile, MinixInv, disk
<1>. QED
  BY <1>4, <1>5, <1>6

LEMMA MinixWriteOK ==
  ASSUME MinixInv, NEW f \in Names, NEW off \in WriteStarts, NEW count \in WriteSizes, NEW v, MinixWrite(f, off, count, v)
  PROVE  MinixInv'
<1>0. off \in Nat /\ count \in Nat
  BY MinixFsAssumption
<1>1. CASE off + count > MaxFileSize
  BY <1>1 DEF MinixWrite, MinixRefuse, MinixInv, disk
<1>2. CASE ~(off + count > MaxFileSize) /\ Exists(f)
  <2>1. WriteTo(disk, InodeOf(f), off, count, v) /\ UNCHANGED <<entries, inodes>>
    BY <1>2 DEF MinixWrite
  <2>2. InodeOf(f) \in Inode /\ DiskOK(disk)
    BY <1>2, EntryIsInode DEF Inode, MinixInv
  <2>3. DiskOK(disk')
    BY <1>0, <2>1, <2>2, WriteToOK
  <2>. QED
    BY <2>1, <2>3 DEF MinixInv
<1>3. CASE ~(off + count > MaxFileSize) /\ ~Exists(f)
  <2>1. Enter(f)
    BY <1>3 DEF MinixWrite
  <2>2. /\ CanInit => DiskOK(DirDisk)
        /\ entries' \in Seq(Names \X (1..FileInodes)) /\ inodes' \in 0..FileInodes /\ Len(entries') <= inodes'
        /\ CanInit => NewInode \in 1..FileInodes
    BY <2>1, EnterOK
  <2>3. CanInit => DiskOK([inode |-> DirDisk.inode, data_used |-> DirDisk.data_used])
    BY <2>2, DiskIs
  <2>4. CASE CanEnter
    <3>1. WriteTo([DirDisk EXCEPT !.inode[Root].size = @ + 1], NewInode, off, count, v)
      BY <1>3, <2>4 DEF MinixWrite
    <3>2. NewInode \in Inode /\ DiskOK([DirDisk EXCEPT !.inode[Root].size = @ + 1])
      BY <2>2, <2>4, DirResizedOK DEF CanEnter, Inode
    <3>3. DiskOK(disk')
      BY <1>0, <3>1, <3>2, WriteToOK
    <3>. QED
      BY <2>2, <3>3 DEF MinixInv
  <2>5. CASE ~CanEnter
    <3>1. /\ inode' = (IF CanInit THEN DirDisk.inode ELSE inode)
          /\ data_used' = (IF CanInit THEN DirDisk.data_used ELSE data_used)
      BY <1>3, <2>5 DEF MinixWrite
    <3>2. CASE CanInit
      BY <2>2, <2>3, <3>1, <3>2 DEF MinixInv, disk
    <3>3. CASE ~CanInit
      BY <2>2, <3>1, <3>3 DEF MinixInv, disk
    <3>. QED
      BY <3>2, <3>3
  <2>. QED
    BY <2>4, <2>5
<1>. QED
  BY <1>1, <1>2, <1>3

LEMMA MinixNextOK == MinixInv /\ [MinixNext]_minixVars => MinixInv'
<1>. SUFFICES ASSUME MinixInv, [MinixNext]_minixVars PROVE MinixInv'
  OBVIOUS
<1>1. ASSUME NEW f \in Names, CreateFile(f) PROVE MinixInv'
  BY <1>1, CreateFileOK
<1>2. ASSUME NEW f \in Names, NEW off \in WriteStarts, NEW count \in WriteSizes, NEW v \in Values,
             MinixWrite(f, off, count, v)
      PROVE  MinixInv'
  BY <1>2, MinixWriteOK
<1>3. ASSUME NEW f \in Names, NEW off \in ReadStarts, MinixRead(f, off, MaxLength) PROVE MinixInv'
  BY <1>3 DEF MinixRead, MinixRefuse, MinixInv, disk
<1>4. CASE VirtualRead
  BY <1>4 DEF VirtualRead, MinixInv, disk
<1>5. CASE UNCHANGED minixVars
  BY <1>5 DEF minixVars, MinixInv, disk
<1>. QED
  BY <1>1, <1>2, <1>3, <1>4, <1>5 DEF MinixNext

LEMMA MinixInvOwn == MinixInv => BlocksAreOwn
<1>. SUFFICES ASSUME MinixInv PROVE BlocksAreOwn
  OBVIOUS
<1>. DEFINE IB == {inode[i].indirect : i \in Indirects}
            FB == {BlockOf(p) : p \in Places}
<1>1. /\ DiskOK(disk) /\ disk.inode = inode /\ disk.data_used = data_used
  BY DEF MinixInv, disk
<1>2. \A p \in Places : /\ p[1] \in Inode /\ p[2] \in Slots /\ p = <<p[1], p[2]>>
                        /\ BlockOf(p) = inode[p[1]].at[p[2]] /\ BlockOf(p) # NoBlock
  BY DEF Places, BlockOf, Inode
<1>3. \A p, q \in Places : BlockOf(p) = BlockOf(q) => p = q
  <2>. SUFFICES ASSUME NEW p \in Places, NEW q \in Places, BlockOf(p) = BlockOf(q) PROVE p = q
    OBVIOUS
  <2>1. p[1] = q[1] /\ p[2] = q[2]
    BY <1>1, <1>2 DEF DiskOK
  <2>. QED
    BY <1>2, <2>1
<1>4. \A i, j \in Indirects : inode[i].indirect = inode[j].indirect => i = j
  BY <1>1 DEF Indirects, DiskOK, Inode
<1>5. \A i \in Inode, k \in Slots : inode[i].at[k] \in Block /\ inode[i].indirect \in Block
  BY <1>1 DEF DiskOK, Node
<1>6. data_used = FB \cup IB
  <2>1. ASSUME NEW b \in data_used PROVE b \in FB \cup IB
    <3>1. b \in DataBlock /\ b # NoBlock
      BY <1>1, MinixFsAssumption DEF DiskOK, DataBlock
    <3>2. PICK i \in Inode : inode[i].indirect = b \/ \E k \in Slots : inode[i].at[k] = b
      BY <1>1, <3>1 DEF DiskOK
    <3>3. CASE inode[i].indirect = b
      BY <3>1, <3>3 DEF Indirects, Inode
    <3>4. ASSUME NEW k \in Slots, inode[i].at[k] = b PROVE b \in FB
      <4>1. <<i, k>> \in Places /\ BlockOf(<<i, k>>) = b
        BY <3>1, <3>4 DEF Places, BlockOf, Inode
      <4>. QED
        BY <4>1
    <3>. QED
      BY <3>2, <3>3, <3>4
  <2>2. ASSUME NEW p \in Places PROVE BlockOf(p) \in data_used
    BY <1>1, <1>2, <1>5 DEF DiskOK, Block
  <2>3. ASSUME NEW i \in Indirects PROVE inode[i].indirect \in data_used
    <3>1. i \in Inode /\ inode[i].indirect # NoBlock
      BY DEF Indirects, Inode
    <3>2. inode[i].indirect \in DataBlock
      BY <1>1, <3>1 DEF DiskOK, Node, Block
    <3>. QED
      BY <1>1, <3>1, <3>2 DEF DiskOK
  <2>. QED
    BY <2>1, <2>2, <2>3
<1>7. FB \cap IB = {}
  <2>. SUFFICES ASSUME NEW p \in Places, NEW i \in Indirects, BlockOf(p) = inode[i].indirect PROVE FALSE
    OBVIOUS
  <2>1. i \in Inode
    BY DEF Indirects, Inode
  <2>. QED
    BY <1>1, <1>2, <2>1 DEF DiskOK
<1>8. IsFiniteSet(Places) /\ IsFiniteSet(Indirects)
  <2>1. IsFiniteSet(0..FileInodes) /\ IsFiniteSet(Slots)
    <3>1. 0 \in Int /\ FileInodes \in Int /\ Direct + Indirect - 1 \in Int
      BY MinixFsAssumption
    <3>. QED
      BY <3>1, FS_Interval, Zenon DEF Slots
  <2>2. IsFiniteSet((0..FileInodes) \X Slots)
    BY <2>1, FS_Product
  <2>. QED
    BY <2>1, <2>2, FS_Subset DEF Places, Indirects
<1>9. IsFiniteSet(FB) /\ Cardinality(FB) = Cardinality(Places)
  <2>. DEFINE g == [p \in Places |-> BlockOf(p)]
  <2>1. g \in Bijection(Places, FB)
    <3>1. g \in [Places -> FB]
      OBVIOUS
    <3>2. \A b \in FB : \E p \in Places : g[p] = b
      OBVIOUS
    <3>3. \A p, q \in Places : g[p] = g[q] => p = q
      BY <1>3
    <3>. QED
      BY <3>1, <3>2, <3>3 DEF Bijection, Injection, Surjection, IsInjective
  <2>2. ExistsBijection(Places, FB)
    BY <2>1 DEF ExistsBijection
  <2>. QED
    BY <1>8, <2>2, FS_Bijection
<1>10. IsFiniteSet(IB) /\ Cardinality(IB) = Cardinality(Indirects)
  <2>. DEFINE g == [i \in Indirects |-> inode[i].indirect]
  <2>1. g \in Bijection(Indirects, IB)
    <3>1. g \in [Indirects -> IB]
      OBVIOUS
    <3>2. \A b \in IB : \E i \in Indirects : g[i] = b
      OBVIOUS
    <3>3. \A i, j \in Indirects : g[i] = g[j] => i = j
      BY <1>4
    <3>. QED
      BY <3>1, <3>2, <3>3 DEF Bijection, Injection, Surjection, IsInjective
  <2>2. ExistsBijection(Indirects, IB)
    BY <2>1 DEF ExistsBijection
  <2>. QED
    BY <1>8, <2>2, FS_Bijection
<1>11. Cardinality(data_used) = Cardinality(Places) + Cardinality(Indirects)
  <2>. HIDE DEF FB, IB
  <2>1. Cardinality(FB \cup IB) = Cardinality(FB) + Cardinality(IB) - Cardinality(FB \cap IB)
    BY <1>9, <1>10, FS_Union
  <2>2. Cardinality({}) = 0
    BY FS_EmptySet
  <2>3. Cardinality(FB) \in Nat /\ Cardinality(IB) \in Nat
    BY <1>9, <1>10, FS_CardinalityType
  <2>4. Cardinality(data_used) = Cardinality(FB \cup IB) /\ Cardinality(FB \cap IB) = 0
    BY <1>6, <1>7, <2>2, Zenon
  <2>. QED
    BY <1>9, <1>10, <2>1, <2>3, <2>4
<1>. QED
  BY <1>3, <1>4, <1>6, <1>11 DEF BlocksAreOwn

\* Every block in use has exactly one place that names it, and the map of used
\* blocks names those (minixfs.c:99-122, 182), for every size of disk and of
\* inode and every sequence of creations and writes, also those that run out of
\* blocks half-way.
THEOREM BlocksCorrect == MinixSpec => []BlocksAreOwn
<1>. QED
  BY MinixInitOK, MinixNextOK, MinixInvOwn, PTL DEF MinixSpec


(* minixfs implements named files, until a write has started inside a block,  *)
(* which line 235 sends elsewhere.                                            *)

FileInode == 1..FileInodes
Position == 0 .. MaxLength - 1
Unit == Values \cup {0}

\* Every position of a file has a block, ...
FilledOK(nodes) ==
  \A i \in FileInode : /\ nodes[i].size \in 0..MaxLength
                       /\ \A p \in Position : p < nodes[i].size => nodes[i].at[p \div BlockUnits] # NoBlock

\* ... and where there is no file the disk is zero.
ZeroOK(nodes, units) ==
  \A b \in DataBlock, u \in 0 .. BlockUnits - 1 : units[b][u] # 0 =>
    \E i \in FileInode, p \in Position :
       p < nodes[i].size /\ nodes[i].at[p \div BlockUnits] = b /\ p % BlockUnits = u

\* No name has two entries, no inode two names; what was not handed out is empty.
EntriesOK ==
  /\ \A k, n \in DOMAIN entries : k # n => entries[k][1] # entries[n][1] /\ entries[k][2] # entries[n][2]
  /\ \A n \in DOMAIN entries : entries[n][2] <= inodes
UnusedOK == \A i \in FileInode : i > inodes => inode[i].size = 0

UnitsOK(units) == units \in [DataBlock -> [0 .. BlockUnits - 1 -> Unit]]

FilesInv == /\ MinixInv /\ EntriesOK /\ UnusedOK /\ torn = FALSE /\ misplaced = FALSE
            /\ FilledOK(inode) /\ ZeroOK(inode, data) /\ UnitsOK(data)

\* The units of a file, as minixfs_read finds them.
UnitOf(nodes, units, i, p) == units[nodes[i].at[p \div BlockUnits]][p % BlockUnits]
FileOf(nodes, units, i) == [n \in 1..nodes[i].size |-> UnitOf(nodes, units, i, n - 1)]

LEMMA Quotient ==
  ASSUME NEW p \in Nat
  PROVE  /\ p \div BlockUnits \in Nat /\ p % BlockUnits \in 0 .. BlockUnits - 1
         /\ p = BlockUnits * (p \div BlockUnits) + (p % BlockUnits)
<1>1. BlockUnits \in Nat \ {0}
  BY MinixFsAssumption
<1>. DEFINE d == p \div BlockUnits
            e == p % BlockUnits
<1>2. d \in Int /\ e \in 0 .. BlockUnits - 1 /\ p = BlockUnits * d + e
  BY <1>1
<1>3. d >= 0
  <2>1. CASE d <= -1
    <3>1. BlockUnits * d <= -BlockUnits
      BY <1>1, <1>2, <2>1
    <3>. QED
      BY <1>1, <1>2, <3>1
  <2>. QED
    BY <1>2, <2>1
<1>. QED
  BY <1>2, <1>3

LEMMA Monotone ==
  ASSUME NEW a \in Nat, NEW x \in Nat, NEW y \in Nat, x <= y
  PROVE  a * x <= a * y
<1>1. a * (y - x) >= 0
  OBVIOUS
<1>2. a * (y - x) = a * y - a * x
  OBVIOUS
<1>3. a * y \in Int /\ a * x \in Int
  OBVIOUS
<1>. QED
  BY <1>1, <1>2, <1>3

\* A position below n blocks is in one of them.
LEMMA BelowBlocks ==
  ASSUME NEW p \in Nat, NEW n \in Nat
  PROVE  p < BlockUnits * n <=> p \div BlockUnits < n
<1>1. BlockUnits \in Nat \ {0}
  BY MinixFsAssumption
<1>. DEFINE d == p \div BlockUnits
            e == p % BlockUnits
<1>2. d \in Nat /\ e \in 0 .. BlockUnits - 1 /\ p = BlockUnits * d + e
  BY Quotient
<1>. HIDE DEF d, e
<1>3. CASE d < n
  <2>1. BlockUnits * (n - d) >= BlockUnits
    BY <1>1, <1>2, <1>3
  <2>2. BlockUnits * (n - d) = BlockUnits * n - BlockUnits * d
    BY <1>1, <1>2
  <2>3. BlockUnits * n \in Int /\ BlockUnits * d \in Int
    BY <1>1, <1>2
  <2>. QED
    BY <1>1, <1>2, <1>3, <2>1, <2>2, <2>3 DEF d
<1>4. CASE d >= n
  <2>1. BlockUnits * (d - n) >= 0
    BY <1>1, <1>2, <1>4
  <2>2. BlockUnits * (d - n) = BlockUnits * d - BlockUnits * n
    BY <1>1, <1>2
  <2>3. BlockUnits * n \in Int /\ BlockUnits * d \in Int
    BY <1>1, <1>2
  <2>. QED
    BY <1>1, <1>2, <1>4, <2>1, <2>2, <2>3 DEF d
<1>. QED
  BY <1>2, <1>3, <1>4

LEMMA LengthIs ==
  /\ MaxLength \in Nat /\ MaxLength = BlockUnits * (Direct + Indirect)
  /\ \A p \in Position : p \in Nat /\ p \div BlockUnits \in Slots /\ p % BlockUnits \in 0 .. BlockUnits - 1
<1>1. {Direct, Indirect, BlockUnits} \subseteq Nat \ {0}
  BY MinixFsAssumption
<1>2. MaxLength \in Nat /\ MaxLength = BlockUnits * (Direct + Indirect)
  BY <1>1 DEF MaxLength
<1>3. ASSUME NEW p \in Position
      PROVE  p \in Nat /\ p \div BlockUnits \in Slots /\ p % BlockUnits \in 0 .. BlockUnits - 1
  <2>1. p \in Nat /\ p < BlockUnits * (Direct + Indirect)
    BY <1>2 DEF Position
  <2>2. p \div BlockUnits < Direct + Indirect
    BY <1>1, <2>1, BelowBlocks
  <2>. QED
    BY <1>1, <2>1, <2>2, Quotient DEF Slots
<1>. QED
  BY <1>2, <1>3

LEMMA SamePosition ==
  ASSUME NEW p \in Nat, NEW q \in Nat, p \div BlockUnits = q \div BlockUnits, p % BlockUnits = q % BlockUnits
  PROVE  p = q
BY Quotient

\* BlocksNeeded(count) blocks hold count units.
LEMMA EnoughBlocks ==
  ASSUME NEW count \in Nat
  PROVE  BlocksNeeded(count) \in Nat /\ count <= BlockUnits * BlocksNeeded(count)
<1>1. BlockUnits \in Nat \ {0} /\ count + BlockUnits - 1 \in Nat
  BY MinixFsAssumption
<1>. DEFINE d == (count + BlockUnits - 1) \div BlockUnits
            e == (count + BlockUnits - 1) % BlockUnits
<1>2. d \in Nat /\ e \in 0 .. BlockUnits - 1 /\ count + BlockUnits - 1 = BlockUnits * d + e
  BY <1>1, Quotient
<1>. HIDE DEF e
<1>3. BlockUnits * d \in Int
  BY <1>1, <1>2
<1>. QED
  BY <1>1, <1>2, <1>3 DEF BlocksNeeded

\* A write that starts at a block goes where its position is.
LEMMA MaxFileSizeIs == MaxFileSize \in Nat /\ MaxLength <= MaxFileSize
<1>1. {Direct, Indirect, BlockUnits} \subseteq Nat \ {0}
  BY MinixFsAssumption
<1>2. Direct * Direct \in Nat /\ Direct * 1 <= Direct * Direct
  BY <1>1, Monotone
<1>. DEFINE slots == Direct + Indirect
            more == Indirect + Direct * Direct
<1>3. slots \in Nat /\ more \in Nat /\ slots <= more
  BY <1>1, <1>2
<1>. HIDE DEF slots, more
<1>4. BlockUnits * slots <= BlockUnits * more
  BY <1>1, <1>3, Monotone
<1>5. MaxFileSize = BlockUnits * more /\ MaxLength = BlockUnits * slots
  <2>1. MaxFileSize = more * BlockUnits /\ MaxLength = slots * BlockUnits
    BY DEF MaxFileSize, MaxLength, more, slots
  <2>. QED
    BY <1>1, <1>3, <2>1
<1>6. BlockUnits * more \in Nat
  BY <1>1, <1>3
<1>. QED
  BY <1>4, <1>5, <1>6

\* Inside of a file there are the blocks for a write.
LEMMA InsideHasBlocks ==
  ASSUME NEW d, NEW e, DiskOK(d), DiskOK(e), Keeps(d, e), FilledOK(d.inode), NEW i \in FileInode,
         NEW end \in Nat, end <= d.inode[i].size
  PROVE  HasBlocks(e, i, BlocksNeeded(end))
<1>1. BlockUnits \in Nat \ {0} /\ end + BlockUnits - 1 \in Nat /\ i \in Inode
  BY MinixFsAssumption DEF FileInode, Inode
<1>. DEFINE n == (end + BlockUnits - 1) \div BlockUnits
            u == (end + BlockUnits - 1) % BlockUnits
<1>2. n \in Nat /\ u \in 0 .. BlockUnits - 1 /\ end + BlockUnits - 1 = BlockUnits * n + u
  BY <1>1, Quotient
<1>3. BlocksNeeded(end) = n
  BY DEF BlocksNeeded
<1>. HIDE DEF n, u
<1>4. ASSUME NEW k \in 0 .. n - 1 PROVE k \in Slots /\ e.inode[i].at[k] # NoBlock
  <2>1. BlockUnits * k \in Nat /\ BlockUnits * (k + 1) = BlockUnits * k + BlockUnits
    BY <1>1
  <2>2. BlockUnits * (k + 1) <= BlockUnits * n
    BY <1>1, <1>2, Monotone
  <2>3. BlockUnits * n \in Int /\ BlockUnits * (k + 1) \in Int
    BY <1>1, <1>2
  <2>4. BlockUnits * k < end
    BY <1>1, <1>2, <2>1, <2>2, <2>3
  <2>. DEFINE p == BlockUnits * k
  <2>5. p \div BlockUnits = k
    <3>1. ~(p < BlockUnits * k) /\ p < BlockUnits * (k + 1)
      BY <1>1, <2>1
    <3>2. ~(p \div BlockUnits < k) /\ p \div BlockUnits < k + 1 /\ p \div BlockUnits \in Nat
      BY <2>1, <3>1, BelowBlocks, Quotient
    <3>. QED
      BY <3>2
  <2>6. p \in Position /\ p < d.inode[i].size
    BY <2>1, <2>4, LengthIs DEF FilledOK, Position
  <2>. HIDE DEF p
  <2>7. k \in Slots
    BY <2>5, <2>6, LengthIs
  <2>8. d.inode[i].at[k] # NoBlock
    BY <2>5, <2>6 DEF FilledOK
  <2>. QED
    BY <1>1, <2>7, <2>8 DEF Keeps
<1>5. n <= Direct + Indirect
  <2>1. CASE n = 0
    BY <2>1, MinixFsAssumption
  <2>2. CASE n > 0
    <3>1. n - 1 \in Slots
      BY <1>2, <1>4, <2>2
    <3>. QED
      BY <1>2, <3>1, MinixFsAssumption DEF Slots
  <2>. QED
    BY <1>2, <2>1, <2>2
<1>. QED
  BY <1>3, <1>4, <1>5 DEF HasBlocks

LEMMA TargetIs ==
  ASSUME NEW node, NEW off \in Nat, off % BlockUnits = 0, NEW p \in Nat, off <= p,
         node.at[p \div BlockUnits] \in Int
  PROVE  Target(node, off, p) = <<node.at[p \div BlockUnits], p % BlockUnits>>
<1>1. BlockUnits \in Nat \ {0}
  BY MinixFsAssumption
<1>. DEFINE k == p \div BlockUnits
            unit == p % BlockUnits
            o == off \div BlockUnits
            start == IF off > k * BlockUnits THEN off ELSE k * BlockUnits
<1>2. k \in Nat /\ unit \in 0 .. BlockUnits - 1 /\ p = BlockUnits * k + unit
  BY Quotient
<1>3. o \in Nat /\ off = BlockUnits * o
  BY Quotient, <1>1
<1>4. o <= k
  <2>1. off < BlockUnits * (k + 1)
    <3>1. p < BlockUnits * (k + 1)
      BY <1>2, BelowBlocks
    <3>2. BlockUnits * (k + 1) \in Int
      BY <1>1, <1>2
    <3>. QED
      BY <3>1, <3>2
  <2>2. o < k + 1
    <3>1. off \div BlockUnits < k + 1
      BY <1>2, <2>1, BelowBlocks
    <3>. QED
      BY <3>1
  <2>. QED
    BY <1>2, <1>3, <2>2
<1>5. start = BlockUnits * k
  <2>. HIDE DEF k, o
  <2>1. BlockUnits * (k - o) >= 0
    BY <1>1, <1>2, <1>3, <1>4
  <2>2. BlockUnits * (k - o) = BlockUnits * k - BlockUnits * o
    BY <1>1, <1>2, <1>3
  <2>3. BlockUnits * k \in Int /\ BlockUnits * k = k * BlockUnits
    BY <1>1, <1>2
  <2>. QED
    BY <1>3, <2>1, <2>2, <2>3
<1>6. start % BlockUnits = 0
  <2>. DEFINE s == BlockUnits * k
              d == s \div BlockUnits
              e == s % BlockUnits
  <2>1. s \in Nat
    BY <1>1, <1>2
  <2>2. d \in Nat /\ e \in 0 .. BlockUnits - 1 /\ s = BlockUnits * d + e
    BY <2>1, Quotient
  <2>3. ~(s < BlockUnits * k)
    BY <2>1
  <2>4. s < BlockUnits * (k + 1)
    BY <1>1, <1>2
  <2>5. ~(d < k) /\ d < k + 1
    BY <1>2, <2>1, <2>3, <2>4, BelowBlocks
  <2>6. d = k
    BY <1>2, <2>2, <2>5
  <2>7. e = 0
    <3>. HIDE DEF d, e
    <3>1. s = BlockUnits * d
      BY <2>6
    <3>. HIDE DEF s
    <3>. QED
      BY <2>1, <2>2, <3>1
  <2>. QED
    BY <1>5, <2>7
<1>7. Target(node, off, p) = <<node.at[k] + (start % BlockUnits), p - start>>
  BY DEF Target
<1>8. p - start = unit
  <2>. HIDE DEF k, unit
  <2>1. BlockUnits * k \in Int
    BY <1>1, <1>2
  <2>. HIDE DEF start
  <2>. QED
    BY <1>2, <1>5, <2>1
<1>. HIDE DEF start
<1>. QED
  BY <1>6, <1>7, <1>8

\* More blocks change no file.
LEMMA KeepsFiles ==
  ASSUME NEW d, NEW e, DiskOK(d), DiskOK(e), Keeps(d, e), NEW units, FilledOK(d.inode), ZeroOK(d.inode, units)
  PROVE  /\ FilledOK(e.inode) /\ ZeroOK(e.inode, units)
         /\ \A i \in FileInode : /\ e.inode[i].size = d.inode[i].size
                                 /\ FileOf(e.inode, units, i) = FileOf(d.inode, units, i)
<1>1. FileInode \subseteq Inode
  BY MinixFsAssumption DEF FileInode, Inode
<1>2. \A i \in FileInode : e.inode[i].size = d.inode[i].size /\ d.inode[i].size \in 0..MaxLength
  BY <1>1 DEF Keeps, FilledOK
<1>3. \A i \in FileInode, p \in Position : p < d.inode[i].size =>
         /\ d.inode[i].at[p \div BlockUnits] # NoBlock
         /\ e.inode[i].at[p \div BlockUnits] = d.inode[i].at[p \div BlockUnits]
  BY <1>1, LengthIs DEF Keeps, FilledOK
<1>4. FilledOK(e.inode)
  BY <1>2, <1>3 DEF FilledOK
<1>5. ZeroOK(e.inode, units)
  <2>. SUFFICES ASSUME NEW b \in DataBlock, NEW u \in 0 .. BlockUnits - 1, units[b][u] # 0
                PROVE  \E i \in FileInode, p \in Position :
                          p < e.inode[i].size /\ e.inode[i].at[p \div BlockUnits] = b /\ p % BlockUnits = u
    BY DEF ZeroOK
  <2>1. PICK i \in FileInode, p \in Position :
          p < d.inode[i].size /\ d.inode[i].at[p \div BlockUnits] = b /\ p % BlockUnits = u
    BY DEF ZeroOK
  <2>. QED
    BY <1>2, <1>3, <2>1
<1>6. ASSUME NEW i \in FileInode PROVE FileOf(e.inode, units, i) = FileOf(d.inode, units, i)
  <2>1. \A n \in 1..d.inode[i].size : UnitOf(e.inode, units, i, n - 1) = UnitOf(d.inode, units, i, n - 1)
    <3>1. \A n \in 1..d.inode[i].size : n - 1 \in Position /\ n - 1 < d.inode[i].size
      BY <1>2, LengthIs DEF Position
    <3>. QED
      BY <1>3, <3>1 DEF UnitOf
  <2>. QED
    BY <1>2, <2>1 DEF FileOf
<1>. QED
  BY <1>2, <1>4, <1>5, <1>6

\* What a write that has its blocks leaves behind.
AimOf(e, i, off, count) == {Target(e.inode[i], off, p) : p \in off .. off + count - 1}
SizedTo(e, i, end) == [e.inode EXCEPT ![i].size = NewSize(@, end)]
PutAt(units, aim, v) ==
  [b \in DataBlock |-> [u \in 0 .. BlockUnits - 1 |-> IF <<b, u>> \in aim THEN v ELSE units[b][u]]]

LEMMA WriteDone ==
  ASSUME NEW e, DiskOK(e), FilledOK(e.inode), NEW units, ZeroOK(e.inode, units),
         UnitsOK(units),
         NEW i \in FileInode, NEW off \in Nat, NEW count \in Nat, off % BlockUnits = 0, NEW v \in Values,
         HasBlocks(e, i, BlocksNeeded(off + count)),
         NEW aim, aim = AimOf(e, i, off, count),
         NEW nodes, nodes = SizedTo(e, i, off + count),
         NEW after, after = PutAt(units, aim, v)
  PROVE  /\ off + count \in 0..MaxLength
         /\ \A a \in aim : a[1] \in FileBlocks(e)
         /\ FilledOK(nodes) /\ ZeroOK(nodes, after)
         /\ UnitsOK(after)
         /\ \A j \in FileInode : j # i => /\ nodes[j].size = e.inode[j].size
                                          /\ FileOf(nodes, after, j) = FileOf(e.inode, units, j)
         /\ FileOf(nodes, after, i) = F!Overlay(FileOf(e.inode, units, i), off, count, v)
<1>. DEFINE end == off + count
            old == e.inode[i].size
            s == NewSize(old, end)
<1>0. \A b \in DataBlock : b # NoBlock
  BY MinixFsAssumption DEF DataBlock
<1>1. /\ FileInode \subseteq Inode /\ i \in Inode
      /\ e.inode \in [Inode -> Node]
      /\ \A j \in FileInode, k \in Slots : e.inode[j].at[k] \in Block
  <2>1. FileInode \subseteq Inode
    BY MinixFsAssumption DEF FileInode, Inode
  <2>. QED
    BY <2>1 DEF DiskOK, Node
<1>2. end \in 0..MaxLength /\ \A p \in 0 .. end - 1 : p \in Position /\ e.inode[i].at[p \div BlockUnits] # NoBlock
  <2>1. end \in Nat /\ BlocksNeeded(end) \in Nat /\ end <= BlockUnits * BlocksNeeded(end)
    BY EnoughBlocks
  <2>2. BlocksNeeded(end) <= Direct + Indirect /\ \A k \in 0 .. BlocksNeeded(end) - 1 : e.inode[i].at[k] # NoBlock
    BY DEF HasBlocks
  <2>3. end <= MaxLength
    <3>. DEFINE n == BlocksNeeded(end)
    <3>. HIDE DEF n, end
    <3>1. BlockUnits \in Nat /\ Direct + Indirect \in Nat /\ n \in Nat
      BY <2>1, MinixFsAssumption DEF n
    <3>2. BlockUnits * n <= BlockUnits * (Direct + Indirect)
      BY <2>2, <3>1, Monotone DEF n
    <3>3. BlockUnits * n \in Int
      BY <3>1
    <3>. QED
      BY <2>1, <3>2, <3>3, LengthIs DEF n
  <2>4. ASSUME NEW p \in 0 .. end - 1 PROVE p \in Position /\ e.inode[i].at[p \div BlockUnits] # NoBlock
    <3>1. p \in Nat /\ p < BlockUnits * BlocksNeeded(end)
      <4>1. BlockUnits * BlocksNeeded(end) \in Int
        BY <2>1, MinixFsAssumption
      <4>. QED
        BY <2>1, <4>1
    <3>2. p \div BlockUnits < BlocksNeeded(end) /\ p \div BlockUnits \in Nat
      BY <2>1, <3>1, BelowBlocks, Quotient
    <3>. QED
      BY <2>1, <2>2, <2>3, <3>2, LengthIs DEF Position
  <2>. QED
    BY <2>1, <2>3, <2>4
<1>3. /\ old \in 0..MaxLength
      /\ \A p \in Position : p < old => e.inode[i].at[p \div BlockUnits] # NoBlock
  BY DEF FilledOK
<1>4. s \in 0..MaxLength /\ s >= old /\ s >= end /\ (s = old \/ s = end)
  BY <1>2, <1>3, LengthIs DEF NewSize
<1>. HIDE DEF s
<1>5. /\ nodes[i].size = s /\ nodes[i].at = e.inode[i].at
      /\ \A j \in FileInode : j # i => nodes[j] = e.inode[j]
  <2>1. e.inode[i] \in Node
    BY <1>1
  <2>2. nodes = [e.inode EXCEPT ![i] = [e.inode[i] EXCEPT !.size = s]]
    BY DEF s, SizedTo
  <2>3. nodes[i] = [e.inode[i] EXCEPT !.size = s]
    BY <1>1, <2>2
  <2>4. \A j \in FileInode : j # i => nodes[j] = e.inode[j]
    BY <1>1, <2>2
  <2>. QED
    BY <2>1, <2>3, <2>4 DEF Node
\* A unit is aimed at when it is at one of the positions of the write.
<1>6. \A p \in Position : p < s => e.inode[i].at[p \div BlockUnits] \in DataBlock
  <2>. SUFFICES ASSUME NEW p \in Position, p < s PROVE e.inode[i].at[p \div BlockUnits] \in DataBlock
    OBVIOUS
  <2>1. p \div BlockUnits \in Slots /\ p \in Nat
    BY LengthIs
  <2>2. e.inode[i].at[p \div BlockUnits] # NoBlock
    BY <1>2, <1>3, <1>4, <2>1
  <2>. QED
    BY <1>1, <2>1, <2>2 DEF Block
<1>7. \A p \in off .. end - 1 : p \in Position /\ p < s
                              /\ Target(e.inode[i], off, p) = <<e.inode[i].at[p \div BlockUnits], p % BlockUnits>>
  <2>. SUFFICES ASSUME NEW p \in off .. end - 1
                PROVE  p \in Position /\ p < s
                       /\ Target(e.inode[i], off, p) = <<e.inode[i].at[p \div BlockUnits], p % BlockUnits>>
    OBVIOUS
  <2>1. p \in Nat /\ p \in Position /\ off <= p /\ p < s
    BY <1>2, <1>4
  <2>2. e.inode[i].at[p \div BlockUnits] \in Int
    BY <1>6, <2>1 DEF DataBlock
  <2>. QED
    BY <2>1, <2>2, TargetIs
<1>8. \A b, u : <<b, u>> \in aim <=>
        \E p \in off .. end - 1 : b = e.inode[i].at[p \div BlockUnits] /\ u = p % BlockUnits
  <2>. TAKE b, u
  <2>. DEFINE place(p) == <<e.inode[i].at[p \div BlockUnits], p % BlockUnits>>
  <2>1. <<b, u>> \in aim <=> \E p \in off .. end - 1 : <<b, u>> = Target(e.inode[i], off, p)
    BY DEF AimOf
  <2>2. \A p \in off .. end - 1 : Target(e.inode[i], off, p) = place(p)
    BY <1>7
  <2>3. \A p : <<b, u>> = place(p) <=> b = e.inode[i].at[p \div BlockUnits] /\ u = p % BlockUnits
    OBVIOUS
  <2>. HIDE DEF place
  <2>. QED
    BY <2>1, <2>2, <2>3
<1>9. \A a \in aim : a[1] \in FileBlocks(e)
  <2>. SUFFICES ASSUME NEW p \in off .. end - 1 PROVE e.inode[i].at[p \div BlockUnits] \in FileBlocks(e)
    BY <1>7 DEF AimOf
  <2>1. p \in Position /\ p < s
    BY <1>7
  <2>2. p \div BlockUnits \in Slots /\ e.inode[i].at[p \div BlockUnits] # NoBlock
    BY <1>0, <1>6, <2>1, LengthIs
  <2>. QED
    BY <2>2 DEF FileBlocks, FileInode
<1>10. FilledOK(nodes)
  <2>1. ASSUME NEW j \in FileInode, j # i
        PROVE /\ nodes[j].size \in 0..MaxLength
              /\ \A p \in Position : p < nodes[j].size => nodes[j].at[p \div BlockUnits] # NoBlock
    BY <1>5, <2>1 DEF FilledOK
  <2>. QED
    BY <1>0, <1>4, <1>5, <1>6, <2>1 DEF FilledOK
<1>11. \A b \in DataBlock, u \in 0 .. BlockUnits - 1 : after[b][u] = IF <<b, u>> \in aim THEN v ELSE units[b][u]
  BY DEF PutAt
<1>12. UnitsOK(after)
  BY DEF Unit, UnitsOK, PutAt
<1>13. ZeroOK(nodes, after)
  <2>. SUFFICES ASSUME NEW b \in DataBlock, NEW u \in 0 .. BlockUnits - 1, after[b][u] # 0
                PROVE  \E j \in FileInode, p \in Position :
                          p < nodes[j].size /\ nodes[j].at[p \div BlockUnits] = b /\ p % BlockUnits = u
    BY DEF ZeroOK
  <2>1. CASE <<b, u>> \in aim
    BY <1>5, <1>7, <1>8, <2>1
  <2>2. CASE <<b, u>> \notin aim
    <3>1. units[b][u] # 0
      BY <1>11, <2>2
    <3>2. PICK j \in FileInode, p \in Position :
            p < e.inode[j].size /\ e.inode[j].at[p \div BlockUnits] = b /\ p % BlockUnits = u
      BY <3>1 DEF ZeroOK
    <3>3. p < nodes[j].size /\ nodes[j].at = e.inode[j].at
      <4>1. CASE j = i
        BY <1>3, <1>4, <1>5, <3>2, <4>1, LengthIs
      <4>2. CASE j # i
        BY <1>5, <3>2, <4>2
      <4>. QED
        BY <4>1, <4>2
    <3>. QED
      BY <3>2, <3>3
  <2>. QED
    BY <2>1, <2>2
<1>14. ASSUME NEW j \in FileInode, j # i
       PROVE  nodes[j].size = e.inode[j].size /\ FileOf(nodes, after, j) = FileOf(e.inode, units, j)
  <2>1. nodes[j] = e.inode[j] /\ e.inode[j].size \in 0..MaxLength
    BY <1>5, <1>14 DEF FilledOK
  <2>2. ASSUME NEW n \in 1..e.inode[j].size
        PROVE  UnitOf(nodes, after, j, n - 1) = UnitOf(e.inode, units, j, n - 1)
    <3>. DEFINE p == n - 1
                b == e.inode[j].at[p \div BlockUnits]
                u == p % BlockUnits
    <3>1. p \in Position /\ p < e.inode[j].size
      BY <2>1, LengthIs DEF Position
    <3>. HIDE DEF p
    <3>2. p \div BlockUnits \in Slots /\ u \in 0 .. BlockUnits - 1 /\ b # NoBlock /\ b \in DataBlock
      <4>1. p \div BlockUnits \in Slots /\ u \in 0 .. BlockUnits - 1
        BY <3>1, LengthIs
      <4>2. b # NoBlock
        BY <3>1 DEF FilledOK
      <4>. QED
        BY <1>1, <4>1, <4>2 DEF Block
    <3>3. <<b, u>> \notin aim
      <4>. SUFFICES ASSUME NEW q \in off .. end - 1, b = e.inode[i].at[q \div BlockUnits] PROVE FALSE
        BY <1>8
      <4>1. q \div BlockUnits \in Slots
        BY <1>7, LengthIs
      <4>2. i \in Inode /\ j \in Inode
        BY <1>1
      <4>. QED
        BY <1>14, <3>2, <4>1, <4>2 DEF DiskOK
    <3>. QED
      BY <1>11, <2>1, <3>2, <3>3 DEF UnitOf, p
  <2>. QED
    BY <2>1, <2>2 DEF FileOf
<1>15. FileOf(nodes, after, i) = F!Overlay(FileOf(e.inode, units, i), off, count, v)
  <2>. DEFINE file == FileOf(e.inode, units, i)
  <2>1. Len(file) = old /\ \A n \in 1..old : file[n] = UnitOf(e.inode, units, i, n - 1)
    <3>1. old \in Nat
      BY <1>3, LengthIs
    <3>2. file = [n \in 1..old |-> UnitOf(e.inode, units, i, n - 1)]
      BY DEF FileOf
    <3>. QED
      BY <3>1, <3>2
  <2>. HIDE DEF file
  <2>2. (IF off + count > Len(file) THEN off + count ELSE Len(file)) = s
    BY <1>3, <2>1, LengthIs DEF s, NewSize
  <2>3. ASSUME NEW n \in 1..s
        PROVE  UnitOf(nodes, after, i, n - 1) = IF n > off /\ n <= off + count THEN v
                                               ELSE IF n <= Len(file) THEN file[n] ELSE 0
    <3>. DEFINE p == n - 1
                b == e.inode[i].at[p \div BlockUnits]
                u == p % BlockUnits
    <3>1. p \in Position /\ p < s /\ p \in Nat
      BY <1>4, LengthIs DEF Position
    <3>. HIDE DEF p
    <3>2. p \div BlockUnits \in Slots /\ u \in 0 .. BlockUnits - 1 /\ b \in DataBlock /\ b # NoBlock
      BY <1>0, <1>6, <3>1, LengthIs
    <3>3. UnitOf(nodes, after, i, p) = after[b][u]
      BY <1>5 DEF UnitOf
    <3>4. ASSUME NEW j \in FileInode, NEW q \in Position, e.inode[j].at[q \div BlockUnits] = b, q % BlockUnits = u
          PROVE  j = i /\ q = p
      <4>1. q \in Nat /\ q \div BlockUnits \in Slots /\ i \in Inode /\ j \in Inode
        BY <1>1, LengthIs
      <4>2. j = i /\ q \div BlockUnits = p \div BlockUnits
        BY <3>2, <3>4, <4>1 DEF DiskOK
      <4>. QED
        BY <3>1, <3>4, <4>1, <4>2, SamePosition
    <3>5. CASE n > off /\ n <= off + count
      <4>1. p \in off .. end - 1
        BY <3>1, <3>5 DEF p
      <4>2. <<b, u>> \in aim
        BY <1>8, <4>1
      <4>. QED
        BY <1>11, <3>2, <3>3, <3>5, <4>2 DEF p
    <3>6. CASE ~(n > off /\ n <= off + count)
      <4>1. p \notin off .. end - 1
        BY <3>1, <3>6 DEF p
      <4>2. <<b, u>> \notin aim
        BY <1>7, <1>8, <3>4, <4>1
      <4>3. UnitOf(nodes, after, i, p) = units[b][u]
        BY <1>11, <3>2, <3>3, <4>2
      <4>4. CASE n <= old
        <5>1. n \in 1..old
          BY <1>4, <4>4, LengthIs
        <5>2. n <= Len(file) /\ file[n] = units[b][u]
          BY <2>1, <4>4, <5>1 DEF p, UnitOf
        <5>. QED
          BY <3>6, <4>3, <5>2 DEF p
      <4>5. CASE n > old
        <5>1. ~(p < old)
          BY <1>3, <3>1, <4>5, LengthIs DEF p
        <5>2. units[b][u] = 0
          <6>1. ASSUME NEW j \in FileInode, NEW q \in Position, q < e.inode[j].size,
                       e.inode[j].at[q \div BlockUnits] = b, q % BlockUnits = u
                PROVE  FALSE
            <7>1. j = i /\ q = p
              BY <3>4, <6>1
            <7>. QED
              BY <5>1, <6>1, <7>1
          <6>2. b \in DataBlock /\ u \in 0 .. BlockUnits - 1
            BY <3>2
          <6>. HIDE DEF b, u
          <6>. QED
            BY <6>1, <6>2 DEF ZeroOK
        <5>. QED
          BY <1>3, <2>1, <3>6, <4>3, <4>5, <5>2, LengthIs DEF p
      <4>. QED
        BY <1>3, <4>4, <4>5, LengthIs
    <3>. QED
      BY <3>5, <3>6
  <2>4. FileOf(nodes, after, i) = [n \in 1..s |-> UnitOf(nodes, after, i, n - 1)]
    BY <1>5 DEF FileOf
  <2>5. F!Overlay(file, off, count, v) = [n \in 1..s |-> IF n > off /\ n <= off + count THEN v
                                                        ELSE IF n <= Len(file) THEN file[n] ELSE 0]
    BY <2>2 DEF F!Overlay
  <2>. QED
    BY <2>3, <2>4, <2>5 DEF file
<1>. QED
  BY <1>2, <1>9, <1>10, <1>12, <1>13, <1>14, <1>15

LEMMA WriteToFiles ==
  ASSUME NEW d, DiskOK(d), FilledOK(d.inode), ZeroOK(d.inode, data), UnitsOK(data), torn = FALSE, misplaced = FALSE,
         NEW i \in FileInode, NEW off \in Nat, NEW count \in Nat, NEW v \in Values,
         WriteTo(d, i, off, count, v), ~misplaced'
  PROVE  /\ FilledOK(inode') /\ ZeroOK(inode', data') /\ UnitsOK(data') /\ torn' = FALSE /\ misplaced' = FALSE
         /\ \A j \in FileInode : j # i => /\ inode'[j].size = d.inode[j].size
                                          /\ FileOf(inode', data', j) = FileOf(d.inode, data, j)
         /\ \/ /\ answer' = Returns(count) /\ off + count \in 0..MaxLength
               /\ FileOf(inode', data', i) = F!Overlay(FileOf(d.inode, data, i), off, count, v)
            \/ /\ answer' = Returns(-1) /\ off + count > d.inode[i].size
               /\ FileOf(inode', data', i) = FileOf(d.inode, data, i)
<1>. DEFINE n == BlocksNeeded(off + count)
            e == MinBlockCount(d, i, n)
            aim == AimOf(e, i, off, count)
<1>1. n \in Nat /\ i \in Inode
  <2>1. off + count \in Nat /\ i \in Inode
    BY MinixFsAssumption DEF FileInode, Inode
  <2>. QED
    BY <2>1, EnoughBlocks
<1>2. DiskOK(e) /\ Keeps(d, e)
  BY <1>1, MinBlockCountOK
<1>. HIDE DEF n
<1>3. CASE HasBlocks(e, i, n)
  <2>1. /\ inode' = SizedTo(e, i, off + count) /\ data' = PutAt(data, aim, v)
        /\ torn' = (\E a \in aim : a[1] \notin FileBlocks(e))
        /\ misplaced' = (misplaced \/ off % BlockUnits # 0)
        /\ answer' = Returns(count)
    BY <1>3, Zenon DEF WriteTo, n, SizedTo, PutAt, AimOf
  <2>0. off % BlockUnits = 0 /\ misplaced' = FALSE
    BY <2>1
  <2>. HIDE DEF e
  <2>2. /\ FilledOK(e.inode) /\ ZeroOK(e.inode, data)
        /\ \A j \in FileInode : /\ e.inode[j].size = d.inode[j].size
                                /\ FileOf(e.inode, data, j) = FileOf(d.inode, data, j)
    BY <1>2, KeepsFiles
  <2>3. HasBlocks(e, i, BlocksNeeded(off + count))
    BY <1>3 DEF n
  <2>. HIDE DEF aim
  <2>4. aim = AimOf(e, i, off, count)
    BY DEF aim
  <2>5. /\ off + count \in 0..MaxLength
        /\ \A a \in aim : a[1] \in FileBlocks(e)
        /\ FilledOK(inode') /\ ZeroOK(inode', data') /\ UnitsOK(data')
        /\ \A j \in FileInode : j # i => /\ inode'[j].size = e.inode[j].size
                                         /\ FileOf(inode', data', j) = FileOf(e.inode, data, j)
        /\ FileOf(inode', data', i) = F!Overlay(FileOf(e.inode, data, i), off, count, v)
    <3>. DEFINE nodes == SizedTo(e, i, off + count)
                after == PutAt(data, aim, v)
    <3>1. inode' = nodes /\ data' = after
      BY <2>1, Zenon
    <3>2. nodes = SizedTo(e, i, off + count)
      OBVIOUS
    <3>3. after = PutAt(data, aim, v)
      OBVIOUS
    <3>. HIDE DEF nodes, after
    <3>4. /\ off + count \in 0..MaxLength
          /\ \A a \in aim : a[1] \in FileBlocks(e)
          /\ FilledOK(nodes) /\ ZeroOK(nodes, after) /\ UnitsOK(after)
          /\ \A j \in FileInode : j # i => /\ nodes[j].size = e.inode[j].size
                                           /\ FileOf(nodes, after, j) = FileOf(e.inode, data, j)
          /\ FileOf(nodes, after, i) = F!Overlay(FileOf(e.inode, data, i), off, count, v)
      BY <1>2, <2>0, <2>2, <2>3, <2>4, <3>2, <3>3, WriteDone
    <3>. QED
      BY <3>1, <3>4, Zenon
  <2>6. torn' = FALSE
    BY <2>1, <2>5
  <2>. QED
    BY <2>0, <2>1, <2>2, <2>5, <2>6
<1>4. CASE ~HasBlocks(e, i, n)
  <2>1. inode' = e.inode /\ answer' = Returns(-1) /\ data' = data /\ torn' = torn /\ misplaced' = misplaced
    BY <1>4, Zenon DEF WriteTo, n
  <2>3. off + count > d.inode[i].size
    <3>1. off + count \in Nat /\ d.inode[i].size \in Nat
      BY LengthIs DEF FilledOK
    <3>2. ~(off + count <= d.inode[i].size)
      <4>. HIDE DEF e
      <4>. QED
        BY <1>2, <1>4, <3>1, InsideHasBlocks DEF n
    <3>. QED
      BY <3>1, <3>2
  <2>. HIDE DEF e
  <2>2. /\ FilledOK(e.inode) /\ ZeroOK(e.inode, data)
        /\ \A j \in FileInode : /\ e.inode[j].size = d.inode[j].size
                                /\ FileOf(e.inode, data, j) = FileOf(d.inode, data, j)
    BY <1>2, KeepsFiles
  <2>. QED
    BY <2>1, <2>2, <2>3
<1>. QED
  BY <1>3, <1>4

\* A block for the directory changes no file.
LEMMA DirFiles ==
  ASSUME FilesInv, CanInit, NEW d, d \in {DirDisk, [DirDisk EXCEPT !.inode[Root].size = @ + 1]}
  PROVE  /\ DiskOK(d) /\ FilledOK(d.inode) /\ ZeroOK(d.inode, data)
         /\ \A i \in FileInode : /\ d.inode[i].size = inode[i].size
                                 /\ FileOf(d.inode, data, i) = FileOf(inode, data, i)
<1>1. Root \in Inode /\ \A i \in FileInode : i # Root /\ i \in Inode
  BY MinixFsAssumption DEF Root, Inode, FileInode
<1>2. /\ DiskOK(disk) /\ disk.inode = inode /\ FilledOK(disk.inode) /\ ZeroOK(disk.inode, data)
  BY DEF FilesInv, MinixInv, disk
<1>3. DiskOK(DirDisk) /\ Keeps(disk, DirDisk)
  BY <1>1, <1>2, AddBlockOK, DirSlotIs DEF FilesInv, DirDisk
<1>4. /\ FilledOK(DirDisk.inode) /\ ZeroOK(DirDisk.inode, data)
      /\ \A i \in FileInode : /\ DirDisk.inode[i].size = inode[i].size
                              /\ FileOf(DirDisk.inode, data, i) = FileOf(inode, data, i)
  BY <1>2, <1>3, KeepsFiles
<1>5. CASE d = DirDisk
  BY <1>3, <1>4, <1>5
<1>6. CASE d = [DirDisk EXCEPT !.inode[Root].size = @ + 1]
  <2>1. DiskOK(d)
    BY <1>3, <1>6, DirResizedOK
  <2>2. \A i \in FileInode : d.inode[i] = DirDisk.inode[i]
    <3>. DEFINE dd == DirDisk
    <3>1. d = [dd EXCEPT !.inode[Root].size = @ + 1] /\ DiskOK(dd)
      BY <1>3, <1>6
    <3>. HIDE DEF dd
    <3>2. \A i \in FileInode : d.inode[i] = dd.inode[i]
      BY <1>1, <3>1 DEF DiskOK
    <3>. QED
      BY <3>2 DEF dd
  <2>3. FilledOK(d.inode) /\ ZeroOK(d.inode, data)
    BY <1>4, <2>2 DEF FilledOK, ZeroOK
  <2>4. \A i \in FileInode : FileOf(d.inode, data, i) = FileOf(DirDisk.inode, data, i)
    BY <2>2 DEF FileOf, UnitOf
  <2>. QED
    BY <1>4, <2>1, <2>2, <2>3, <2>4
<1>. QED
  BY <1>5, <1>6
-----------------------------------------------------------------------------
(* Names and their inodes.                                                    *)

LEMMA InodeIs ==
  ASSUME MinixInv, EntriesOK
  PROVE  /\ \A n \in DOMAIN entries : InodeOf(entries[n][1]) = entries[n][2]
         /\ \A f : Exists(f) => InodeOf(f) \in FileInode /\ InodeOf(f) <= inodes
         /\ \A f, g : Exists(f) /\ Exists(g) /\ f # g => InodeOf(f) # InodeOf(g)
<1>. DEFINE S == {entries[n] : n \in DOMAIN entries}
<1>1. ASSUME NEW n \in DOMAIN entries PROVE InodeOf(entries[n][1]) = entries[n][2]
  <2>1. entries[n] \in S /\ \A e \in S : e[1] = entries[n][1] => e = entries[n]
    BY DEF EntriesOK
  <2>2. (CHOOSE e \in S : e[1] = entries[n][1]) = entries[n]
    <3>. HIDE DEF S
    <3>. QED
      BY <2>1
  <2>. QED
    BY <2>2 DEF InodeOf
<1>2. \A f : Exists(f) => \E n \in DOMAIN entries : entries[n][1] = f /\ InodeOf(f) = entries[n][2]
  BY <1>1 DEF Exists
<1>3. \A n \in DOMAIN entries : entries[n] \in Names \X (1..FileInodes)
  BY DEF MinixInv
<1>. QED
  BY <1>1, <1>2, <1>3 DEF EntriesOK, FileInode

\* A name that is entered gets the new inode; others keep theirs.
LEMMA EntersOne ==
  ASSUME MinixInv, EntriesOK, NEW f \in Names, ~Exists(f), Enter(f), CanEnter
  PROVE  /\ EntriesOK' /\ Exists(f)' /\ InodeOf(f)' = NewInode
         /\ \A g : g # f => (Exists(g)' <=> Exists(g))
         /\ \A g : g # f /\ Exists(g) => InodeOf(g)' = InodeOf(g)
<1>. DEFINE len == Len(entries)
<1>0. /\ entries \in Seq(Names \X (1..FileInodes)) /\ inodes \in Nat /\ len \in Nat /\ DOMAIN entries = 1..len
      /\ NewInode \in 1..FileInodes /\ NewInode = inodes + 1
  BY EnterOK, MinixFsAssumption DEF MinixInv, CanEnter, NewInode
<1>1. entries' = Append(entries, <<f, NewInode>>) /\ inodes' = NewInode
  BY DEF Enter, CanEnter
<1>2. /\ DOMAIN entries' = 1..(len + 1) /\ entries'[len + 1] = <<f, NewInode>>
      /\ \A n \in 1..len : entries'[n] = entries[n]
      /\ entries' \in Seq(Names \X (1..FileInodes))
  BY <1>0, <1>1
<1>3. EntriesOK'
  <2>1. \A n \in 1..len : entries[n][1] # f /\ entries[n][2] # NewInode /\ entries[n][2] <= inodes'
    <3>1. \A n \in 1..len : entries[n][2] \in Int /\ entries[n][2] <= inodes
      BY <1>0 DEF EntriesOK
    <3>. QED
      BY <1>0, <1>1, <3>1 DEF Exists
  <2>2. ASSUME NEW x \in 1..(len + 1), NEW y \in 1..(len + 1), x # y
        PROVE  entries'[x][1] # entries'[y][1] /\ entries'[x][2] # entries'[y][2]
    <3>1. CASE x \in 1..len /\ y \in 1..len
      BY <1>0, <1>2, <2>2, <3>1 DEF EntriesOK
    <3>2. CASE x = len + 1 /\ y \in 1..len
      BY <1>2, <2>1, <3>2
    <3>3. CASE y = len + 1 /\ x \in 1..len
      BY <1>2, <2>1, <3>3
    <3>. QED
      BY <1>0, <2>2, <3>1, <3>2, <3>3
  <2>3. ASSUME NEW x \in 1..(len + 1) PROVE entries'[x][2] <= inodes'
    BY <1>0, <1>1, <1>2, <2>1
  <2>. QED
    BY <1>2, <2>2, <2>3 DEF EntriesOK
\* What InodeIs says of entries holds of the new ones.
<1>4. \A n \in DOMAIN entries' : \A g : entries'[n][1] = g => InodeOf(g)' = entries'[n][2]
  <2>. DEFINE S == {entries'[n] : n \in DOMAIN entries'}
  <2>. SUFFICES ASSUME NEW n \in DOMAIN entries', NEW g, entries'[n][1] = g
                PROVE  (CHOOSE e \in S : e[1] = g)[2] = entries'[n][2]
    BY Zenon DEF InodeOf
  <2>1. entries'[n] \in S /\ entries'[n][1] = g /\ \A e \in S : e[1] = g => e = entries'[n]
    BY <1>3 DEF EntriesOK
  <2>2. (CHOOSE e \in S : e[1] = g) = entries'[n]
    <3>. HIDE DEF S
    <3>. QED
      BY <2>1
  <2>. QED
    BY <2>2
<1>5. Exists(f)' /\ InodeOf(f)' = NewInode
  <2>1. len + 1 \in DOMAIN entries' /\ entries'[len + 1][1] = f /\ entries'[len + 1][2] = NewInode
    BY <1>0, <1>2
  <2>2. InodeOf(f)' = entries'[len + 1][2]
    BY <1>4, <2>1
  <2>. QED
    BY <2>1, <2>2 DEF Exists
<1>6. \A g : g # f => (Exists(g)' <=> Exists(g))
  <2>. SUFFICES ASSUME NEW g, g # f PROVE (\E n \in DOMAIN entries' : entries'[n][1] = g) <=> (\E n \in DOMAIN entries : entries[n][1] = g)
    BY DEF Exists
  <2>1. \A n \in 1..(len + 1) : n \in 1..len \/ n = len + 1
    BY <1>0
  <2>2. \A n \in 1..len : n \in 1..(len + 1)
    BY <1>0
  <2>. HIDE DEF len
  <2>3. ASSUME NEW n \in DOMAIN entries', entries'[n][1] = g PROVE n \in DOMAIN entries /\ entries[n][1] = g
    <3>1. n \in 1..len \/ n = len + 1
      BY <1>2, <2>1
    <3>. QED
      BY <1>0, <1>2, <2>3, <3>1
  <2>4. ASSUME NEW n \in DOMAIN entries, entries[n][1] = g PROVE n \in DOMAIN entries' /\ entries'[n][1] = g
    BY <1>0, <1>2, <2>2, <2>4
  <2>. QED
    BY <2>3, <2>4
<1>7. ASSUME NEW g, g # f, Exists(g) PROVE InodeOf(g)' = InodeOf(g)
  <2>1. PICK n \in DOMAIN entries : entries[n][1] = g
    BY <1>7 DEF Exists
  <2>2. InodeOf(g) = entries[n][2]
    BY <2>1, InodeIs
  <2>3. n \in DOMAIN entries' /\ entries'[n] = entries[n]
    BY <1>0, <1>2
  <2>4. InodeOf(g)' = entries'[n][2]
    BY <1>4, <2>1, <2>3
  <2>. QED
    BY <2>1, <2>2, <2>3, <2>4
<1>. QED
  BY <1>3, <1>5, <1>6, <1>7
-----------------------------------------------------------------------------
(* What the calls do to the contents.                                         *)

LEMMA ContentsIs ==
  /\ Contents = [g \in Names |-> IF Exists(g) THEN FileOf(inode, data, InodeOf(g)) ELSE NoFile]
  /\ Contents' = [g \in Names |-> IF Exists(g)' THEN FileOf(inode', data', InodeOf(g)') ELSE NoFile]
<1>1. \A i : [n \in 1..inode[i].size |-> UnitAt(inode[i], n - 1)] = FileOf(inode, data, i)
  BY Zenon DEF FileOf, UnitOf, UnitAt
<1>2. \A i : [n \in 1..inode'[i].size |-> data'[inode'[i].at[(n - 1) \div BlockUnits]][(n - 1) % BlockUnits]]
               = FileOf(inode', data', i)
  BY Zenon DEF FileOf, UnitOf
<1>3. Contents = [g \in Names |-> IF Exists(g) THEN FileOf(inode, data, InodeOf(g)) ELSE NoFile]
  <2>1. \A g \in Names : Contents[g] = IF Exists(g) THEN FileOf(inode, data, InodeOf(g)) ELSE NoFile
    BY <1>1 DEF Contents
  <2>. QED
    BY <2>1 DEF Contents
<1>4. Contents' = [g \in Names |-> IF Exists(g)' THEN FileOf(inode', data', InodeOf(g)') ELSE NoFile]
  <2>1. \A g \in Names : Contents'[g] = IF Exists(g)' THEN FileOf(inode', data', InodeOf(g)') ELSE NoFile
    BY <1>2 DEF Contents, UnitAt
  <2>. QED
    BY <2>1 DEF Contents
<1>. QED
  BY <1>3, <1>4

LEMMA FileIs ==
  ASSUME FilesInv, NEW i \in FileInode
  PROVE  /\ FileOf(inode, data, i) \in Seq(Unit) /\ FileOf(inode, data, i) # NoFile
         /\ inode[i].size \in 0..MaxLength /\ Len(FileOf(inode, data, i)) = inode[i].size
         /\ \A n \in 1..inode[i].size : FileOf(inode, data, i)[n] = UnitOf(inode, data, i, n - 1)
<1>. DEFINE s == inode[i].size
            file == [n \in 1..s |-> UnitOf(inode, data, i, n - 1)]
<1>1. s \in Nat /\ s \in 0..MaxLength
  BY LengthIs DEF FilesInv, FilledOK
<1>2. ASSUME NEW n \in 1..s PROVE UnitOf(inode, data, i, n - 1) \in Unit
  <2>. DEFINE p == n - 1
  <2>1. p \in Position /\ p < s
    BY <1>1, LengthIs DEF Position
  <2>. HIDE DEF p
  <2>2. p \div BlockUnits \in Slots /\ p % BlockUnits \in 0 .. BlockUnits - 1 /\ inode[i].at[p \div BlockUnits] # NoBlock
    BY <2>1, LengthIs DEF FilesInv, FilledOK
  <2>3. inode[i].at[p \div BlockUnits] \in DataBlock
    <3>1. i \in Inode
      BY MinixFsAssumption DEF FileInode, Inode
    <3>2. inode \in [Inode -> Node]
      BY DEF FilesInv, MinixInv, DiskOK, disk
    <3>3. inode[i].at[p \div BlockUnits] \in Block
      BY <2>2, <3>1, <3>2 DEF Node
    <3>. QED
      BY <2>2, <3>3 DEF Block
  <2>. QED
    BY <2>2, <2>3 DEF FilesInv, UnitsOK, UnitOf, p
<1>. HIDE DEF s
<1>3. file \in Seq(Unit) /\ Len(file) = s /\ \A n \in 1..s : file[n] = UnitOf(inode, data, i, n - 1)
  BY <1>1, <1>2
<1>4. file = FileOf(inode, data, i)
  BY DEF FileOf, s
<1>5. NoFile \notin Seq(Unit)
  BY MinixFsAssumption DEF Unit
<1>. HIDE DEF file
<1>. QED
  BY <1>1, <1>3, <1>4, <1>5 DEF s

LEMMA ContentsStay ==
  ASSUME FilesInv, entries' = entries,
         \A i \in FileInode : FileOf(inode', data', i) = FileOf(inode, data, i)
  PROVE  Contents' = Contents
<1>1. \A g : (Exists(g)' <=> Exists(g)) /\ InodeOf(g)' = InodeOf(g)
  BY Zenon DEF Exists, InodeOf
<1>2. \A g : Exists(g) => InodeOf(g) \in FileInode
  BY InodeIs DEF FilesInv
<1>3. \A g \in Names : Contents'[g] = Contents[g]
  BY <1>1, <1>2, ContentsIs
<1>. QED
  BY <1>3, ContentsIs

LEMMA OneFileChanges ==
  ASSUME FilesInv, entries' = entries, NEW f \in Names, Exists(f),
         \A i \in FileInode : i # InodeOf(f) => FileOf(inode', data', i) = FileOf(inode, data, i)
  PROVE  Contents' = [Contents EXCEPT ![f] = FileOf(inode', data', InodeOf(f))]
<1>1. \A g : (Exists(g)' <=> Exists(g)) /\ InodeOf(g)' = InodeOf(g)
  BY Zenon DEF Exists, InodeOf
<1>2. \A g : Exists(g) => InodeOf(g) \in FileInode /\ (g # f => InodeOf(g) # InodeOf(f))
  BY InodeIs DEF FilesInv
<1>3. \A g \in Names : Contents'[g] = IF g = f THEN FileOf(inode', data', InodeOf(f)) ELSE Contents[g]
  BY <1>1, <1>2, ContentsIs
<1>. QED
  BY <1>3, ContentsIs

LEMMA OneFileAppears ==
  ASSUME FilesInv, NEW f \in Names, ~Exists(f), Enter(f), CanEnter,
         \A i \in FileInode : i # NewInode => FileOf(inode', data', i) = FileOf(inode, data, i)
  PROVE  Contents' = [Contents EXCEPT ![f] = FileOf(inode', data', NewInode)]
<1>1. /\ Exists(f)' /\ InodeOf(f)' = NewInode
      /\ \A g : g # f => (Exists(g)' <=> Exists(g))
      /\ \A g : g # f /\ Exists(g) => InodeOf(g)' = InodeOf(g)
  BY EntersOne DEF FilesInv
<1>2. \A g : Exists(g) => InodeOf(g) \in FileInode /\ InodeOf(g) # NewInode
  BY InodeIs, MinixFsAssumption DEF FilesInv, MinixInv, NewInode, FileInode
<1>3. \A g \in Names : Contents'[g] = IF g = f THEN FileOf(inode', data', NewInode) ELSE Contents[g]
  BY <1>1, <1>2, ContentsIs
<1>. QED
  BY <1>3, ContentsIs

\* The inode a new file gets is empty.
LEMMA NewIsEmpty ==
  ASSUME FilesInv, CanInit
  PROVE  NewInode \in FileInode /\ inode[NewInode].size = 0 /\ FileOf(inode, data, NewInode) = <<>>
<1>1. NewInode \in FileInode /\ NewInode > inodes
  BY MinixFsAssumption DEF FilesInv, MinixInv, CanInit, NewInode, FileInode
<1>2. inode[NewInode].size = 0
  BY <1>1 DEF FilesInv, UnusedOK
<1>. QED
  BY <1>1, <1>2 DEF FileOf

\* No entry is made: the disk may have more blocks in use, and a file that is
\* not named an inode.
LEMMA NotEntered ==
  ASSUME FilesInv, MinixInv', NEW f \in Names, ~Exists(f), Enter(f), ~CanEnter,
         inode' = (IF CanInit THEN DirDisk.inode ELSE inode), answer' = Returns(-1), UNCHANGED <<data, torn, misplaced>>
  PROVE  FilesInv' /\ Contents' = Contents
<1>1. entries' = entries /\ inodes' = (IF CanInit THEN inodes + 1 ELSE inodes) /\ inodes \in Nat
  BY MinixFsAssumption DEF Enter, NewInode, FilesInv, MinixInv
<1>2. /\ FilledOK(inode') /\ ZeroOK(inode', data)
      /\ \A i \in FileInode : inode'[i].size = inode[i].size /\ FileOf(inode', data', i) = FileOf(inode, data, i)
  <2>1. CASE CanInit
    <3>1. /\ FilledOK(DirDisk.inode) /\ ZeroOK(DirDisk.inode, data)
          /\ \A i \in FileInode : /\ DirDisk.inode[i].size = inode[i].size
                                  /\ FileOf(DirDisk.inode, data, i) = FileOf(inode, data, i)
      BY <2>1, DirFiles
    <3>. QED
      BY <2>1, <3>1
  <2>2. CASE ~CanInit
    BY <2>2 DEF FilesInv
  <2>. QED
    BY <2>1, <2>2
<1>3. FilesInv'
  <2>1. EntriesOK'
    <3>1. \A n \in DOMAIN entries : entries[n][2] \in Int
      BY DEF FilesInv, MinixInv
    <3>. QED
      BY <1>1, <3>1 DEF FilesInv, EntriesOK
  <2>2. UnusedOK'
    BY <1>1, <1>2 DEF FilesInv, UnusedOK, FileInode
  <2>. QED
    BY <1>2, <2>1, <2>2 DEF FilesInv
<1>4. Contents' = Contents
  BY <1>1, <1>2, ContentsStay
<1>. QED
  BY <1>3, <1>4

LEMMA CreateStep == ASSUME FilesInv, NEW f \in Names, CreateFile(f) PROVE FilesInv' /\ F!Create(f)
<1>1. MinixInv' /\ ~Exists(f) /\ Enter(f)
  BY CreateFileOK DEF FilesInv, CreateFile
<1>2. CASE CanEnter
  <2>. DEFINE d == [DirDisk EXCEPT !.inode[Root].size = @ + 1]
  <2>1. inode' = d.inode /\ answer' = Returns(0) /\ data' = data /\ torn' = torn /\ misplaced' = misplaced
    <3>1. inode' = [DirDisk.inode EXCEPT ![Root].size = @ + 1] /\ answer' = Returns(0) /\ data' = data /\ torn' = torn /\ misplaced' = misplaced
      BY <1>2 DEF CreateFile
    <3>2. DiskOK(DirDisk)
      BY <1>1, <1>2, EnterOK DEF FilesInv, CanEnter
    <3>3. d.inode = [DirDisk.inode EXCEPT ![Root].size = @ + 1]
      <4>. DEFINE dd == DirDisk
      <4>1. DiskOK(dd)
        BY <3>2
      <4>. HIDE DEF dd
      <4>2. [dd EXCEPT !.inode[Root].size = @ + 1].inode = [dd.inode EXCEPT ![Root].size = @ + 1]
        BY <4>1 DEF DiskOK
      <4>. QED
        BY <4>2 DEF dd
    <3>. QED
      BY <3>1, <3>3
  <2>2. /\ FilledOK(d.inode) /\ ZeroOK(d.inode, data)
        /\ \A i \in FileInode : /\ d.inode[i].size = inode[i].size
                                /\ FileOf(d.inode, data, i) = FileOf(inode, data, i)
    BY <1>2, DirFiles DEF CanEnter
  <2>. HIDE DEF d
  <2>3. CanInit /\ inodes' = NewInode /\ inodes \in Nat /\ NewInode = inodes + 1
    BY <1>1, <1>2 DEF CanEnter, Enter, NewInode, FilesInv, MinixInv
  <2>4. FilesInv'
    <3>1. EntriesOK'
      BY <1>1, <1>2, EntersOne DEF FilesInv
    <3>2. UnusedOK'
      BY <2>1, <2>2, <2>3 DEF FilesInv, UnusedOK, FileInode
    <3>. QED
      BY <1>1, <2>1, <2>2, <3>1, <3>2 DEF FilesInv
  <2>5. Contents' = [Contents EXCEPT ![f] = <<>>]
    <3>1. FileOf(inode', data', NewInode) = <<>>
      BY <2>1, <2>2, <2>3, NewIsEmpty
    <3>2. \A i \in FileInode : FileOf(inode', data', i) = FileOf(inode, data, i)
      BY <2>1, <2>2
    <3>. QED
      BY <1>1, <1>2, <3>1, <3>2, OneFileAppears
  <2>6. Contents[f] = NoFile
    BY <1>1, ContentsIs
  <2>7. F!Create(f)
    BY <2>1, <2>5, <2>6 DEF F!Create, F!Returns, Returns
  <2>. QED
    BY <2>4, <2>7
<1>3. CASE ~CanEnter
  <2>1. FilesInv' /\ Contents' = Contents /\ answer' = Returns(-1)
    BY <1>1, <1>3, NotEntered DEF CreateFile
  <2>2. Contents[f] = NoFile
    BY <1>1, ContentsIs
  <2>. QED
    BY <2>1, <2>2 DEF F!Create, F!Refused, F!Returns, Returns
<1>. QED
  BY <1>2, <1>3

\* A write is one of the sequence of units the file had, which is empty for
\* a file that the write has created.
LEMMA WriteStep ==
  ASSUME FilesInv, NEW f \in Names, NEW off \in WriteStarts, NEW count \in WriteSizes,
         NEW v \in Values, MinixWrite(f, off, count, v), ~misplaced'
  PROVE  FilesInv' /\ F!Write(f, off, count, v)
<1>1. off \in Nat /\ count \in Nat /\ MinixInv'
  BY MinixFsAssumption, MinixWriteOK DEF FilesInv
<1>2. CASE off + count > MaxFileSize
  <2>1. answer' = Returns(-1) /\ UNCHANGED <<inode, data_used, data, entries, inodes, torn, misplaced>>
    BY <1>2 DEF MinixWrite, MinixRefuse
  <2>2. Contents' = Contents
    BY <2>1, ContentsStay
  <2>3. off + count > Len(F!Old(f)) \/ Contents[f] = NoFile
    <3>1. CASE Exists(f)
      <4>1. InodeOf(f) \in FileInode /\ Contents[f] = FileOf(inode, data, InodeOf(f))
        BY <3>1, InodeIs, ContentsIs DEF FilesInv
      <4>2. Contents[f] # NoFile /\ Len(Contents[f]) \in 0..MaxLength
        BY <4>1, FileIs
      <4>. QED
        BY <1>1, <1>2, <4>2, MaxFileSizeIs, LengthIs DEF F!Old
    <3>2. CASE ~Exists(f)
      BY <3>2, ContentsIs
    <3>. QED
      BY <3>1, <3>2
  <2>4. F!Write(f, off, count, v)
    BY <2>1, <2>2, <2>3 DEF F!Write, F!Returns, Returns
  <2>. QED
    BY <1>1, <2>1, <2>4 DEF FilesInv, EntriesOK, UnusedOK
<1>3. CASE ~(off + count > MaxFileSize) /\ Exists(f)
  <2>. DEFINE i == InodeOf(f)
  <2>1. WriteTo(disk, i, off, count, v) /\ UNCHANGED <<entries, inodes>>
    BY <1>3 DEF MinixWrite
  <2>2. i \in FileInode
    BY <1>3, InodeIs DEF FilesInv
  <2>3. DiskOK(disk) /\ disk.inode = inode
    BY DEF FilesInv, MinixInv, disk
  <2>. HIDE DEF i
  <2>4. /\ FilledOK(inode') /\ ZeroOK(inode', data') /\ UnitsOK(data') /\ torn' = FALSE /\ misplaced' = FALSE
        /\ \A j \in FileInode : j # i => /\ inode'[j].size = inode[j].size
                                         /\ FileOf(inode', data', j) = FileOf(inode, data, j)
        /\ \/ /\ answer' = Returns(count) /\ off + count \in 0..MaxLength
              /\ FileOf(inode', data', i) = F!Overlay(FileOf(inode, data, i), off, count, v)
           \/ /\ answer' = Returns(-1) /\ off + count > inode[i].size
              /\ FileOf(inode', data', i) = FileOf(inode, data, i)
    BY <1>1, <2>1, <2>2, <2>3, WriteToFiles DEF FilesInv
  <2>5. FilesInv'
    <3>1. EntriesOK'
      BY <2>1 DEF FilesInv, EntriesOK
    <3>2. i <= inodes /\ inodes \in Nat
      BY <1>3, InodeIs DEF FilesInv, MinixInv, i
    <3>3. UnusedOK'
      BY <2>1, <2>4, <3>2 DEF FilesInv, UnusedOK, FileInode
    <3>. QED
      BY <1>1, <2>4, <3>1, <3>3 DEF FilesInv
  <2>6. Contents' = [Contents EXCEPT ![f] = FileOf(inode', data', i)]
    BY <1>3, <2>1, <2>4, OneFileChanges DEF i
  <2>7. F!Old(f) = FileOf(inode, data, i) /\ Contents[f] = FileOf(inode, data, i)
    BY <1>3, <2>2, FileIs, ContentsIs DEF F!Old, i
  <2>8. CASE answer' = Returns(count) /\ off + count \in 0..MaxLength
             /\ FileOf(inode', data', i) = F!Overlay(FileOf(inode, data, i), off, count, v)
    <3>1. Contents' = [Contents EXCEPT ![f] = F!Overlay(F!Old(f), off, count, v)]
      BY <2>6, <2>7, <2>8
    <3>2. F!Write(f, off, count, v)
      BY <2>8, <3>1 DEF F!Write, F!Returns, Returns
    <3>. QED
      BY <2>5, <3>2
  <2>9. CASE answer' = Returns(-1) /\ off + count > inode[i].size /\ FileOf(inode', data', i) = FileOf(inode, data, i)
    <3>1. Len(F!Old(f)) = inode[i].size
      BY <2>2, <2>7, FileIs
    <3>2. F!Write(f, off, count, v)
      BY <2>6, <2>7, <2>9, <3>1 DEF F!Write, F!Returns, Returns
    <3>. QED
      BY <2>5, <3>2
  <2>. QED
    BY <2>4, <2>8, <2>9
<1>4. CASE ~(off + count > MaxFileSize) /\ ~Exists(f) /\ CanEnter
  <2>. DEFINE i == NewInode
              d == [DirDisk EXCEPT !.inode[Root].size = @ + 1]
  <2>1. Enter(f) /\ WriteTo(d, i, off, count, v)
    BY <1>4 DEF MinixWrite
  <2>2. CanInit /\ inodes' = i /\ inodes \in Nat /\ i = inodes + 1
    BY <1>4, <2>1 DEF CanEnter, Enter, NewInode, FilesInv, MinixInv
  <2>3. i \in FileInode /\ FileOf(inode, data, i) = <<>>
    BY <2>2, NewIsEmpty
  <2>4. /\ DiskOK(d) /\ FilledOK(d.inode) /\ ZeroOK(d.inode, data)
        /\ \A j \in FileInode : /\ d.inode[j].size = inode[j].size
                                /\ FileOf(d.inode, data, j) = FileOf(inode, data, j)
    BY <2>2, DirFiles
  <2>. HIDE DEF i, d
  <2>5. /\ FilledOK(inode') /\ ZeroOK(inode', data') /\ UnitsOK(data') /\ torn' = FALSE /\ misplaced' = FALSE
        /\ \A j \in FileInode : j # i => /\ inode'[j].size = d.inode[j].size
                                         /\ FileOf(inode', data', j) = FileOf(d.inode, data, j)
        /\ \/ /\ answer' = Returns(count) /\ off + count \in 0..MaxLength
              /\ FileOf(inode', data', i) = F!Overlay(FileOf(d.inode, data, i), off, count, v)
           \/ /\ answer' = Returns(-1)
              /\ FileOf(inode', data', i) = FileOf(d.inode, data, i)
    BY <1>1, <2>1, <2>3, <2>4, WriteToFiles DEF FilesInv
  <2>6. FilesInv'
    <3>1. EntriesOK'
      BY <1>4, <2>1, EntersOne DEF FilesInv
    <3>2. UnusedOK'
      BY <2>2, <2>4, <2>5 DEF FilesInv, UnusedOK, FileInode
    <3>. QED
      BY <1>1, <2>5, <3>1, <3>2 DEF FilesInv
  <2>7. Contents' = [Contents EXCEPT ![f] = FileOf(inode', data', i)]
    BY <1>4, <2>1, <2>4, <2>5, OneFileAppears DEF i
  <2>8. F!Old(f) = <<>>
    BY <1>4, ContentsIs DEF F!Old
  <2>9. CASE answer' = Returns(count) /\ off + count \in 0..MaxLength
             /\ FileOf(inode', data', i) = F!Overlay(FileOf(d.inode, data, i), off, count, v)
    <3>1. Contents' = [Contents EXCEPT ![f] = F!Overlay(F!Old(f), off, count, v)]
      BY <2>3, <2>4, <2>7, <2>8, <2>9
    <3>2. F!Write(f, off, count, v)
      BY <2>9, <3>1 DEF F!Write, F!Returns, Returns
    <3>. QED
      BY <2>6, <3>2
  <2>10. CASE answer' = Returns(-1) /\ FileOf(inode', data', i) = FileOf(d.inode, data, i)
    <3>1. Contents[f] = NoFile
      BY <1>4, ContentsIs
    <3>2. F!Write(f, off, count, v)
      BY <2>3, <2>4, <2>7, <2>8, <2>10, <3>1 DEF F!Write, F!Returns, Returns
    <3>. QED
      BY <2>6, <3>2
  <2>. QED
    BY <2>5, <2>9, <2>10
<1>5. CASE ~(off + count > MaxFileSize) /\ ~Exists(f) /\ ~CanEnter
  <2>1. FilesInv' /\ Contents' = Contents /\ answer' = Returns(-1)
    BY <1>1, <1>5, NotEntered DEF MinixWrite
  <2>2. Contents[f] = NoFile
    BY <1>5, ContentsIs
  <2>. QED
    BY <2>1, <2>2 DEF F!Write, F!Returns, Returns
<1>. QED
  BY <1>2, <1>3, <1>4, <1>5

LEMMA ReadStep ==
  ASSUME FilesInv, NEW f \in Names, NEW off \in ReadStarts, MinixRead(f, off, MaxLength)
  PROVE  FilesInv' /\ F!Read(f, off, MaxLength)
<1>1. UNCHANGED <<inode, data_used, data, entries, inodes, torn, misplaced>>
  BY DEF MinixRead, MinixRefuse
<1>2. Contents' = Contents
  BY <1>1, ContentsStay
<1>3. FilesInv'
  BY <1>1 DEF FilesInv, MinixInv, EntriesOK, UnusedOK, disk
<1>4. CASE ~Exists(f)
  <2>1. Contents[f] = NoFile
    BY <1>4, ContentsIs
  <2>. QED
    BY <1>2, <1>3, <1>4, <2>1 DEF MinixRead, MinixRefuse, F!Read, F!Refused, F!Returns, Returns
<1>5. CASE Exists(f)
  <2>. DEFINE i == InodeOf(f)
              s == inode[i].size
              file == FileOf(inode, data, i)
              units == IF off >= s THEN <<>> ELSE [n \in 1 .. s - off |-> UnitAt(inode[i], off + n - 1)]
  <2>1. off \in Nat /\ MaxLength \in Nat /\ i \in FileInode
    BY <1>5, InodeIs, LengthIs, MinixFsAssumption DEF FilesInv
  <2>2. /\ file \in Seq(Unit) /\ file # NoFile /\ Len(file) = s /\ s \in 0..MaxLength
        /\ \A n \in 1..s : file[n] = UnitOf(inode, data, i, n - 1)
    BY <2>1, FileIs
  <2>3. Contents[f] = file
    BY <1>5, ContentsIs
  <2>4. (IF off + MaxLength < s THEN off + MaxLength ELSE s) = s
    BY <2>1, <2>2
  <2>5. answer' = [ret |-> Len(units), read |-> units]
    BY <1>5, <2>4 DEF MinixRead
  <2>. HIDE DEF file, i
  <2>6. units = SubSeq(file, off + 1, s)
    <3>1. CASE off >= s
      BY <2>1, <2>2, <3>1
    <3>2. CASE off < s
      <4>1. s \in Nat /\ s - off \in Nat /\ Len(file) = s
        BY <2>1, <2>2, <3>2, LengthIs
      <4>. HIDE DEF s
      <4>2. \A n \in 1 .. s - off : UnitAt(inode[i], off + n - 1) = file[off + n]
        <5>1. \A n \in 1 .. s - off : off + n \in 1..s /\ (off + n) - 1 = off + n - 1
          BY <2>1, <4>1
        <5>. QED
          BY <2>2, <5>1 DEF UnitAt, UnitOf, s
      <4>3. units = [n \in 1 .. s - off |-> file[off + n]]
        <5>1. ~(off >= s)
          BY <2>1, <3>2, <4>1
        <5>2. units = [n \in 1 .. s - off |-> UnitAt(inode[i], off + n - 1)]
          BY <5>1, Zenon
        <5>. HIDE DEF units
        <5>. QED
          BY <4>2, <5>2
      <4>4. SubSeq(file, off + 1, s) = [n \in 1 .. s - off |-> file[off + n]]
        <5>. DEFINE part == SubSeq(file, off + 1, s)
        <5>1. off + 1 \in Int /\ s \in Int /\ off + 1 <= s /\ \A n \in off + 1 .. s : file[n] \in Unit
          BY <2>1, <2>2, <3>2, <4>1
        <5>2. /\ part \in Seq(Unit) /\ Len(part) = s - (off + 1) + 1
              /\ \A n \in 1 .. s - (off + 1) + 1 : part[n] = file[(off + 1) + n - 1]
          BY <5>1, SubSeqProperties
        <5>. HIDE DEF part
        <5>3. s - (off + 1) + 1 = s - off /\ \A n \in 1 .. s - off : (off + 1) + n - 1 = off + n
          BY <2>1, <4>1
        <5>4. part = [n \in 1 .. s - off |-> part[n]]
          BY <5>2, <5>3
        <5>5. part = [n \in 1 .. s - off |-> file[off + n]]
          BY <5>2, <5>3, <5>4
        <5>. QED
          BY <5>5 DEF part
      <4>. QED
        BY <4>3, <4>4
    <3>3. off >= s \/ off < s
      <4>1. s \in Int
        BY <2>2, LengthIs
      <4>. QED
        BY <2>1, <4>1
    <3>. HIDE DEF units, s
    <3>. QED
      BY <3>1, <3>2, <3>3
  <2>. HIDE DEF units
  <2>7. F!Part(file, off, MaxLength) = units
    <3>1. off + MaxLength >= s /\ Len(file) = s
      BY <2>1, <2>2, LengthIs
    <3>2. F!Part(file, off, MaxLength) = SubSeq(file, off + 1, s)
      BY <2>4, <3>1 DEF F!Part
    <3>. QED
      BY <2>6, <3>2
  <2>8. F!Read(f, off, MaxLength)
    <3>. HIDE DEF s
    <3>. QED
      BY <1>2, <2>2, <2>3, <2>5, <2>7 DEF F!Read
  <2>. QED
    BY <1>3, <2>8
<1>. QED
  BY <1>4, <1>5

LEMMA FilesInitStep == MinixInit => FilesInv /\ F!FilesInit
<1>. SUFFICES ASSUME MinixInit PROVE FilesInv /\ F!FilesInit
  OBVIOUS
<1>1. /\ \A i \in FileInode : inode[i].size = 0
      /\ \A b \in DataBlock, u \in 0 .. BlockUnits - 1 : data[b][u] = 0
      /\ UnitsOK(data) /\ torn = FALSE /\ entries = <<>>
  BY MinixFsAssumption DEF MinixInit, FileInode, UnitsOK, Unit
<1>2. FilledOK(inode) /\ ZeroOK(inode, data) /\ UnusedOK
  BY <1>1, LengthIs DEF FilledOK, ZeroOK, UnusedOK, Position
<1>3. EntriesOK /\ \A g : ~Exists(g)
  BY <1>1 DEF EntriesOK, Exists
<1>4. Contents = [g \in Names |-> NoFile]
  BY <1>3, ContentsIs
<1>. QED
  BY <1>1, <1>2, <1>3, <1>4, MinixInitOK DEF FilesInv, F!FilesInit, F!Returns, Returns, MinixInit

LEMMA InfoStep == ASSUME FilesInv, VirtualRead PROVE FilesInv' /\ F!Info
<1>1. /\ UNCHANGED <<inode, data_used, data, entries, inodes, torn, misplaced>>
      /\ answer' = Returns(Cardinality(data_used))
  BY DEF VirtualRead
<1>2. Cardinality(data_used) \in Nat
  <2>1. data_used \subseteq DataBlock
    BY DEF FilesInv, MinixInv, DiskOK, disk
  <2>2. IsFiniteSet(DataBlock)
    <3>1. 0 \in Int /\ DataBlocks - 1 \in Int
      BY MinixFsAssumption
    <3>. QED
      BY <3>1, FS_Interval, Zenon DEF DataBlock
  <2>. QED
    BY <2>1, <2>2, FS_Subset, FS_CardinalityType
<1>3. Contents' = Contents
  BY <1>1, ContentsStay
<1>4. FilesInv'
  BY <1>1 DEF FilesInv, MinixInv, EntriesOK, UnusedOK, disk
<1>5. answer'.ret >= 0 /\ answer' = F!Returns(answer'.ret)
  BY <1>1, <1>2 DEF Returns, F!Returns
<1>. QED
  BY <1>3, <1>4, <1>5 DEF F!Info

\* Every call keeps what Files promises of it, until a write has started inside
\* a block.
LEMMA FilesStep ==
  ASSUME FilesInv, MinixNext, ~misplaced'
  PROVE  FilesInv' /\ F!FilesNext /\ FilesPromised
<1>1. MaxLength \in WriteSizes \cup {MaxLength}
  OBVIOUS
<1>2. FilesPromised
  BY CreateStep, WriteStep, ReadStep, InfoStep DEF FilesPromised
<1>3. ASSUME NEW f \in Names, CreateFile(f) PROVE FilesInv' /\ F!FilesNext
  BY <1>3, CreateStep DEF F!FilesNext
<1>4. ASSUME NEW f \in Names, NEW off \in WriteStarts, NEW count \in WriteSizes, NEW v \in Values,
             MinixWrite(f, off, count, v)
      PROVE  FilesInv' /\ F!FilesNext
  <2>1. FilesInv' /\ F!Write(f, off, count, v)
    BY <1>4, WriteStep
  <2>. QED
    BY <2>1 DEF F!FilesNext
<1>5. ASSUME NEW f \in Names, NEW off \in ReadStarts, MinixRead(f, off, MaxLength)
      PROVE  FilesInv' /\ F!FilesNext
  <2>1. FilesInv' /\ F!Read(f, off, MaxLength)
    BY <1>5, ReadStep
  <2>. QED
    BY <1>1, <2>1 DEF F!FilesNext
<1>6. ASSUME VirtualRead PROVE FilesInv' /\ F!FilesNext
  BY <1>6, InfoStep DEF F!FilesNext
<1>7. FilesInv' /\ F!FilesNext
  BY <1>3, <1>4, <1>5, <1>6 DEF MinixNext
<1>. QED
  BY <1>2, <1>7

\* A misplaced write is never forgotten.
LEMMA MisplacedStays == ASSUME MinixNext, misplaced PROVE misplaced'
<1>1. ASSUME NEW d, NEW i, NEW off, NEW count, NEW v, WriteTo(d, i, off, count, v) PROVE misplaced'
  <2>1. misplaced' = (misplaced \/ off % BlockUnits # 0) \/ misplaced' = misplaced
    BY <1>1, Zenon DEF WriteTo
  <2>. QED
    BY <2>1, Zenon
<1>2. ASSUME NEW f \in Names, CreateFile(f) PROVE misplaced'
  BY <1>2, Zenon DEF CreateFile
<1>3. ASSUME NEW f \in Names, NEW off, NEW count, NEW v, MinixWrite(f, off, count, v) PROVE misplaced'
  <2>1. \/ MinixRefuse
        \/ \E d, i : WriteTo(d, i, off, count, v)
        \/ misplaced' = misplaced
    BY <1>3, Zenon DEF MinixWrite
  <2>2. MinixRefuse => misplaced'
    BY Zenon DEF MinixRefuse
  <2>. QED
    BY <1>1, <2>1, <2>2, Zenon
<1>4. ASSUME NEW f \in Names, NEW off, NEW count, MinixRead(f, off, count) PROVE misplaced'
  BY <1>4, Zenon DEF MinixRead, MinixRefuse
<1>5. ASSUME VirtualRead PROVE misplaced'
  BY <1>5, Zenon DEF VirtualRead
<1>. QED
  BY <1>2, <1>3, <1>4, <1>5, Zenon DEF MinixNext

\* Until the first write that starts inside a block (line 235), every call does
\* what named files do: a read returns what was written last at the positions it
\* asks for, a write puts its units where it says, nothing else changes, a call
\* that fails changes no contents, and none that stays inside of a file fails
\* (minixfs.c:65-306) - for any size of disk, directory and inode, and when the
\* room runs out half-way.
THEOREM FilesRefined == MinixSpec => ImplementsFiles
<1>. DEFINE Good == misplaced \/ FilesInv
            Step == UNCHANGED minixVars \/ misplaced' \/ (F!FilesNext /\ FilesPromised)
<1>1. MinixInit => Good /\ F!FilesInit
  BY FilesInitStep
<1>2. Good /\ [MinixNext]_minixVars => Good' /\ [Step]_minixVars
  <2>. SUFFICES ASSUME Good, [MinixNext]_minixVars, ~misplaced' PROVE Good' /\ [Step]_minixVars
    OBVIOUS
  <2>1. CASE UNCHANGED minixVars
    <3>1. UNCHANGED <<inode, data_used, data, entries, inodes, torn, misplaced, answer>>
      BY <2>1 DEF minixVars
    <3>2. FilesInv'
      BY <3>1 DEF FilesInv, MinixInv, EntriesOK, UnusedOK, disk
    <3>. QED
      BY <2>1, <3>2
  <2>2. CASE MinixNext
    <3>1. ~misplaced
      BY <2>2, MisplacedStays
    <3>. QED
      BY <2>2, <3>1, FilesStep
  <2>. QED
    BY <2>1, <2>2
<1>. QED
  BY <1>1, <1>2, PTL DEF MinixSpec, ImplementsFiles

-----------------------------------------------------------------------------
(* The vector: it grows enough, and implements a list.                        *)

\* The numbers that doubling n again and again arrives at, from t on.
Closed(S) == \A x \in S : x \in Nat => 2 * x \in S
Doublings(n, t) == {c \in Nat : c >= t /\ \A S \in SUBSET Nat : n \in S /\ Closed(S) => c \in S}
LeastDoubling(n, t) == CHOOSE c \in Doublings(n, t) : \A d \in Doublings(n, t) : c <= d

LEMMA NewCapacityFits ==
  ASSUME NEW t \in Nat
  PROVE  GetNewCapacity(t) \in Nat /\ GetNewCapacity(t) >= t
<1>. DEFINE Solves(f) == f = [n \in Nat |-> IF n < t THEN f[2 * n] ELSE n]
            power == CHOOSE f : Solves(f)
            least == [n \in Nat |-> LeastDoubling(n, t)]
<1>1. GetNewCapacity(t) = power[1]
  BY Zenon DEF GetNewCapacity
<1>2. ASSUME NEW n \in Nat, n < t PROVE LeastDoubling(n, t) = LeastDoubling(2 * n, t)
  <2>1. ASSUME NEW c \in Doublings(n, t) PROVE c \in Doublings(2 * n, t)
    <3>. SUFFICES ASSUME NEW S \in SUBSET Nat, 2 * n \in S, Closed(S) PROVE c \in S
      BY <2>1 DEF Doublings
    <3>1. S \cup {n} \in SUBSET Nat /\ n \in S \cup {n} /\ Closed(S \cup {n})
      BY DEF Closed
    <3>2. c \in S \cup {n} /\ c >= t /\ c \in Nat
      BY <2>1, <3>1 DEF Doublings
    <3>. QED
      BY <1>2, <3>2
  <2>2. ASSUME NEW c \in Doublings(2 * n, t) PROVE c \in Doublings(n, t)
    <3>. SUFFICES ASSUME NEW S \in SUBSET Nat, n \in S, Closed(S) PROVE c \in S
      BY <2>2 DEF Doublings
    <3>1. 2 * n \in S
      BY DEF Closed
    <3>. QED
      BY <2>2, <3>1 DEF Doublings
  <2>3. Doublings(n, t) = Doublings(2 * n, t)
    BY <2>1, <2>2
  <2>. QED
    BY <2>3, Zenon DEF LeastDoubling
<1>3. ASSUME NEW n \in Nat, ~(n < t) PROVE LeastDoubling(n, t) = n
  <2>1. n \in Doublings(n, t)
    BY <1>3 DEF Doublings
  <2>2. ASSUME NEW c \in Doublings(n, t) PROVE c \in Nat /\ n <= c
    <3>. DEFINE S == {x \in Nat : n <= x}
    <3>1. S \in SUBSET Nat /\ n \in S /\ Closed(S)
      BY DEF Closed
    <3>. QED
      BY <2>2, <3>1 DEF Doublings
  <2>3. \A c \in Doublings(n, t) : (\A d \in Doublings(n, t) : c <= d) => c = n
    BY <2>1, <2>2
  <2>. QED
    BY <2>1, <2>2, <2>3 DEF LeastDoubling
<1>4. Solves(least)
  <2>1. \A n \in Nat : least[n] = IF n < t THEN least[2 * n] ELSE n
    BY <1>2, <1>3
  <2>. QED
    BY <2>1
<1>5. Solves(power)
  <2>. HIDE DEF Solves, least
  <2>. QED
    BY <1>4 DEF power
<1>. HIDE DEF power, least
<1>6. \A n \in Nat : power[n] = IF n < t THEN power[2 * n] ELSE n
  BY <1>5
<1>. DEFINE Good(n) == power[n] \in Nat /\ power[n] >= t
            S == {k \in 0..t : \E n \in Nat \ {0} : k = (IF n < t THEN t - n ELSE 0) /\ ~Good(n)}
<1>7. S = {}
  <2>. SUFFICES ASSUME S # {} PROVE FALSE
    OBVIOUS
  <2>1. S \in SUBSET Nat
    OBVIOUS
  <2>2. PICK k \in S : \A j \in S : k <= j
    <3>. HIDE DEF S
    <3>. QED
      BY <2>1, LeastNumber
  <2>3. PICK n \in Nat \ {0} : k = (IF n < t THEN t - n ELSE 0) /\ ~Good(n)
    OBVIOUS
  <2>4. n < t /\ ~Good(2 * n)
    BY <1>6, <2>3
  <2>. DEFINE j == IF 2 * n < t THEN t - 2 * n ELSE 0
  <2>5. j \in 0..t /\ 2 * n \in Nat \ {0} /\ j < k
    BY <2>3, <2>4
  <2>6. j \in S
    <3>. HIDE DEF Good
    <3>. QED
      BY <2>4, <2>5
  <2>7. k \in 0..t
    BY <2>2
  <2>. HIDE DEF S, j
  <2>. QED
    BY <2>2, <2>5, <2>6, <2>7
<1>8. Good(1)
  <2>. DEFINE k == IF 1 < t THEN t - 1 ELSE 0
  <2>1. k \in 0..t
    OBVIOUS
  <2>. HIDE DEF Good
  <2>. QED
    BY <1>7, <2>1
<1>. QED
  BY <1>1, <1>8

-----------------------------------------------------------------------------
VectorInv ==
  /\ size \in Nat /\ capacity \in Nat \ {0} /\ size <= capacity
  /\ DOMAIN array = 0 .. capacity - 1

LEMMA ReservedOK ==
  ASSUME VectorInv, NEW n \in Nat
  PROVE  /\ Reserved(n).capacity \in Nat \ {0} /\ Reserved(n).capacity >= n
         /\ Reserved(n).capacity >= capacity
         /\ DOMAIN Reserved(n).array = 0 .. Reserved(n).capacity - 1
         /\ \A i \in 0 .. size - 1 : Reserved(n).array[i] = array[i]
<1>1. CASE n <= capacity
  <2>1. Reserved(n) = [array |-> array, capacity |-> capacity]
    BY <1>1 DEF Reserved
  <2>. QED
    BY <1>1, <2>1 DEF VectorInv
<1>2. CASE ~(n <= capacity)
  <2>. DEFINE c == GetNewCapacity(n)
              a == [i \in 0 .. c - 1 |-> IF i < size THEN array[i] ELSE Default]
  <2>1. Reserved(n) = [array |-> a, capacity |-> c]
    BY <1>2 DEF Reserved
  <2>2. c \in Nat /\ c >= n
    BY NewCapacityFits
  <2>. HIDE DEF c
  <2>. QED
    BY <1>2, <2>1, <2>2 DEF VectorInv
<1>. QED
  BY <1>1, <1>2

LEMMA GrownOK ==
  ASSUME VectorInv
  PROVE  /\ Grown.capacity \in Nat \ {0} /\ Grown.capacity >= size + 1
         /\ DOMAIN Grown.array = 0 .. Grown.capacity - 1
         /\ \A i \in 0 .. size - 1 : Grown.array[i] = array[i]
<1>1. CASE size = capacity
  <2>1. Grown = Reserved(size + 1)
    BY <1>1 DEF Grown
  <2>2. size + 1 \in Nat
    BY DEF VectorInv
  <2>. QED
    BY <2>1, <2>2, ReservedOK
<1>2. CASE size # capacity
  <2>1. Grown = [array |-> array, capacity |-> capacity]
    BY <1>2 DEF Grown
  <2>. QED
    BY <1>2, <2>1 DEF VectorInv
<1>. QED
  BY <1>1, <1>2
-----------------------------------------------------------------------------
Spliced(s, v, n) == SubSeq(s, 1, n) \o <<v>> \o SubSeq(s, n + 1, Len(s))
Inserted(s, v, n) == [k \in 1..Len(s) + 1 |-> IF k <= n THEN s[k] ELSE IF k = n + 1 THEN v ELSE s[k - 1]]

LEMMA InsertIs ==
  ASSUME NEW S, NEW s \in Seq(S), NEW v \in S, NEW n \in 0..Len(s)
  PROVE  Spliced(s, v, n) = Inserted(s, v, n)
<1>. DEFINE a == SubSeq(s, 1, n)
            b == SubSeq(s, n + 1, Len(s))
            c == a \o <<v>>
<1>1. a \in Seq(S) /\ Len(a) = n /\ \A k \in 1..n : a[k] = s[k]
  OBVIOUS
<1>2. b \in Seq(S) /\ Len(b) = Len(s) - n /\ \A k \in 1..(Len(s) - n) : b[k] = s[n + k]
  OBVIOUS
<1>. HIDE DEF a, b
<1>3. c \in Seq(S) /\ Len(c) = n + 1 /\ (\A k \in 1..n : c[k] = s[k]) /\ c[n + 1] = v
  BY <1>1
<1>. HIDE DEF c
<1>. DEFINE r == c \o b
            t == [k \in 1..Len(s) + 1 |-> IF k <= n THEN s[k] ELSE IF k = n + 1 THEN v ELSE s[k - 1]]
<1>4. /\ r \in Seq(S) /\ Len(r) = Len(s) + 1
      /\ \A k \in 1..(Len(s) + 1) : r[k] = IF k <= n + 1 THEN c[k] ELSE b[k - (n + 1)]
  BY <1>2, <1>3, ConcatProperties
<1>5. t \in Seq(S) /\ Len(t) = Len(s) + 1
  OBVIOUS
<1>. HIDE DEF r
<1>6. ASSUME NEW k \in 1..(Len(s) + 1) PROVE r[k] = t[k]
  <2>1. CASE k <= n
    BY <1>3, <1>4, <2>1
  <2>2. CASE k = n + 1
    BY <1>3, <1>4, <2>2
  <2>3. CASE k > n + 1
    <3>1. k - (n + 1) \in 1..(Len(s) - n) /\ n + (k - (n + 1)) = k - 1
      BY <2>3
    <3>2. r[k] = b[k - (n + 1)]
      BY <1>4, <2>3
    <3>. QED
      BY <1>2, <2>3, <3>1, <3>2
  <2>. QED
    BY <2>1, <2>2, <2>3
<1>. HIDE DEF t
<1>7. r = t
  BY <1>4, <1>5, <1>6, SeqEqual
<1>. QED
  BY <1>7 DEF a, b, c, r, t, Spliced, Inserted

LEMMA DropIs ==
  ASSUME NEW S, NEW s \in Seq(S), NEW n \in 1..Len(s)
  PROVE  SubSeq(s, 1, n - 1) \o SubSeq(s, n + 1, Len(s))
           = [k \in 1..Len(s) - 1 |-> IF k < n THEN s[k] ELSE s[k + 1]]
<1>. DEFINE a == SubSeq(s, 1, n - 1)
            b == SubSeq(s, n + 1, Len(s))
<1>1. a \in Seq(S) /\ Len(a) = n - 1 /\ \A k \in 1..(n - 1) : a[k] = s[k]
  OBVIOUS
<1>2. b \in Seq(S) /\ Len(b) = Len(s) - n /\ \A k \in 1..(Len(s) - n) : b[k] = s[n + k]
  OBVIOUS
<1>. HIDE DEF a, b
<1>. DEFINE r == a \o b
            t == [k \in 1..Len(s) - 1 |-> IF k < n THEN s[k] ELSE s[k + 1]]
<1>3. /\ r \in Seq(S) /\ Len(r) = Len(s) - 1
      /\ \A k \in 1..(Len(s) - 1) : r[k] = IF k <= n - 1 THEN a[k] ELSE b[k - (n - 1)]
  BY <1>1, <1>2, ConcatProperties
<1>4. t \in Seq(S) /\ Len(t) = Len(s) - 1
  OBVIOUS
<1>. HIDE DEF r
<1>5. ASSUME NEW k \in 1..(Len(s) - 1) PROVE r[k] = t[k]
  <2>1. CASE k < n
    BY <1>1, <1>3, <2>1
  <2>2. CASE k >= n
    <3>1. k - (n - 1) \in 1..(Len(s) - n) /\ n + (k - (n - 1)) = k + 1
      BY <2>2
    <3>2. r[k] = b[k - (n - 1)]
      BY <1>3, <2>2
    <3>. QED
      BY <1>2, <2>2, <3>1, <3>2
  <2>. QED
    BY <2>1, <2>2
<1>. HIDE DEF t
<1>6. r = t
  BY <1>3, <1>4, <1>5, SeqEqual
<1>. QED
  BY <1>6 DEF a, b, r, t

LEMMA ShortenIs ==
  ASSUME NEW S, NEW s \in Seq(S), NEW n \in 0..Len(s)
  PROVE  SubSeq(s, 1, n) = [k \in 1..n |-> s[k]]
OBVIOUS

Padded(s, v, u) == s \o [k \in 1..u |-> v]
Extended(s, v, u) == [k \in 1..Len(s) + u |-> IF k <= Len(s) THEN s[k] ELSE v]

LEMMA LengthenIs ==
  ASSUME NEW S, NEW s \in Seq(S), NEW v \in S, NEW u \in Nat
  PROVE  Padded(s, v, u) = Extended(s, v, u)
<1>. DEFINE b == [k \in 1..u |-> v]
<1>1. b \in Seq(S) /\ Len(b) = u /\ \A k \in 1..u : b[k] = v
  OBVIOUS
<1>. HIDE DEF b
<1>2. s \o b \in Seq(S) /\ Len(s \o b) = Len(s) + u
      /\ (\A k \in 1..Len(s) : (s \o b)[k] = s[k])
      /\ (\A k \in (Len(s) + 1)..(Len(s) + u) : (s \o b)[k] = v)
  BY <1>1
<1>. QED
  BY <1>2 DEF b, Padded, Extended

-----------------------------------------------------------------------------
\* The list that is refined, and the values in it together with two more.
HeldOf(v) == {array[i] : i \in 0 .. size - 1} \cup {v, Default}

LEMMA HeldIs ==
  ASSUME VectorInv, NEW v
  PROVE  Held \in Seq(HeldOf(v)) /\ Len(Held) = size /\ \A k \in 1..size : Held[k] = array[k - 1]
<1>1. size \in Nat
  BY DEF VectorInv
<1>2. \A k \in 1..size : array[k - 1] \in HeldOf(v)
  BY <1>1 DEF HeldOf
<1>. QED
  BY <1>1, <1>2 DEF Held

\* How the list changes, as each operation changes the slots.
LEMMA PutStep ==
  ASSUME VectorInv, NEW v \in Elements, NEW p \in 0..size, size' = size + 1,
         \A i \in 0..size : array'[i] = IF i < p THEN array[i] ELSE IF i = p THEN v ELSE array[i - 1]
  PROVE  L!Put(p, v)
<1>1. size \in Nat /\ Held \in Seq(HeldOf(v)) /\ Len(Held) = size /\ \A k \in 1..size : Held[k] = array[k - 1]
  BY HeldIs DEF VectorInv
<1>2. v \in HeldOf(v)
  BY DEF HeldOf
<1>3. Spliced(Held, v, p) = [k \in 1..size + 1 |-> IF k <= p THEN Held[k] ELSE IF k = p + 1 THEN v ELSE Held[k - 1]]
  <2>1. p \in 0..Len(Held)
    BY <1>1
  <2>2. Spliced(Held, v, p) = Inserted(Held, v, p)
    BY <1>1, <1>2, <2>1, InsertIs, Zenon
  <2>. QED
    BY <1>1, <2>2, Zenon DEF Inserted
<1>4. ASSUME NEW k \in 1..(size + 1)
      PROVE  array'[k - 1] = IF k <= p THEN Held[k] ELSE IF k = p + 1 THEN v ELSE Held[k - 1]
  <2>1. k - 1 \in 0..size
    BY <1>1
  <2>2. CASE k <= p
    <3>1. k - 1 < p /\ k \in 1..size
      BY <1>1, <2>2
    <3>2. array'[k - 1] = array[k - 1]
      BY <2>1, <3>1
    <3>3. Held[k] = array[k - 1]
      BY <1>1, <3>1
    <3>. QED
      BY <2>2, <3>2, <3>3, Zenon
  <2>3. CASE k = p + 1
    <3>1. k - 1 = p /\ ~(k <= p)
      BY <1>1, <2>3
    <3>. QED
      BY <2>1, <2>3, <3>1
  <2>4. CASE k > p + 1
    <3>1. k - 1 \in 1..size /\ (k - 1) - 1 = k - 2 /\ ~(k - 1 < p) /\ k - 1 # p
      BY <1>1, <2>4
    <3>2. array'[k - 1] = array[(k - 1) - 1]
      BY <2>1, <3>1
    <3>3. Held[k - 1] = array[(k - 1) - 1]
      BY <1>1, <3>1
    <3>4. ~(k <= p) /\ k # p + 1
      BY <1>1, <2>4
    <3>. QED
      BY <3>2, <3>3, <3>4, Zenon
  <2>5. k <= p \/ k = p + 1 \/ k > p + 1
    BY <1>1
  <2>. QED
    BY <2>2, <2>3, <2>4, <2>5, Zenon
<1>5. Held' = SubSeq(Held, 1, p) \o <<v>> \o SubSeq(Held, p + 1, Len(Held))
  BY <1>3, <1>4 DEF Held, Spliced
<1>. QED
  BY <1>5 DEF L!Put

LEMMA DropStep ==
  ASSUME VectorInv, NEW p \in 0 .. size - 1, size' = size - 1,
         \A i \in 0 .. size - 2 : array'[i] = IF i < p THEN array[i] ELSE array[i + 1]
  PROVE  L!Drop(p)
<1>1. size \in Nat /\ Held \in Seq(HeldOf(0)) /\ Len(Held) = size /\ \A k \in 1..size : Held[k] = array[k - 1]
  BY HeldIs DEF VectorInv
<1>2. p + 1 \in 1..size
  BY <1>1
<1>3. SubSeq(Held, 1, (p + 1) - 1) \o SubSeq(Held, (p + 1) + 1, Len(Held))
        = [k \in 1..size - 1 |-> IF k < p + 1 THEN Held[k] ELSE Held[k + 1]]
  BY <1>1, <1>2, DropIs
<1>4. ASSUME NEW k \in 1..(size - 1) PROVE array'[k - 1] = IF k < p + 1 THEN Held[k] ELSE Held[k + 1]
  <2>1. k - 1 \in 0 .. size - 2 /\ k \in 1..size /\ k + 1 \in 1..size /\ (k - 1) + 1 = k /\ (k + 1) - 1 = k
    BY <1>1
  <2>2. Held[k] = array[k - 1] /\ Held[k + 1] = array[k]
    BY <1>1, <2>1
  <2>. QED
    BY <2>1, <2>2
<1>5. Held' = SubSeq(Held, 1, (p + 1) - 1) \o SubSeq(Held, (p + 1) + 1, Len(Held))
  BY <1>3, <1>4 DEF Held
<1>6. (p + 1) - 1 = p /\ (p + 1) + 1 = p + 2
  OBVIOUS
<1>. QED
  BY <1>5, <1>6 DEF L!Drop

LEMMA ChangeStep ==
  ASSUME VectorInv, NEW v \in Elements, NEW p \in 0 .. size - 1, UNCHANGED size, array' = [array EXCEPT ![p] = v]
  PROVE  L!Change(p, v)
<1>1. size \in Nat /\ size <= capacity /\ capacity \in Nat /\ DOMAIN array = 0 .. capacity - 1
  BY DEF VectorInv
<1>2. p + 1 \in 1..size /\ Len(Held) = size
  BY <1>1, HeldIs
<1>3. Held' = [Held EXCEPT ![p + 1] = v]
  <2>1. \A i \in 0 .. size - 1 : array'[i] = IF i = p THEN v ELSE array[i]
    BY <1>1
  <2>2. \A k \in 1..size : array'[k - 1] = IF k = p + 1 THEN v ELSE array[k - 1]
    BY <1>1, <2>1
  <2>3. [Held EXCEPT ![p + 1] = v] = [k \in 1..size |-> IF k = p + 1 THEN v ELSE array[k - 1]]
    BY <1>2 DEF Held
  <2>4. Held' = [k \in 1..size |-> array'[k - 1]]
    BY DEF Held
  <2>. QED
    BY <2>2, <2>3, <2>4
<1>. QED
  BY <1>3 DEF L!Change

LEMMA ShortenStep ==
  ASSUME VectorInv, NEW n \in 0..size, size' = n, \A i \in 0 .. n - 1 : array'[i] = array[i]
  PROVE  L!Extend(n)
<1>1. size \in Nat /\ Held \in Seq(HeldOf(0)) /\ Len(Held) = size /\ \A k \in 1..size : Held[k] = array[k - 1]
  BY HeldIs DEF VectorInv
<1>2. SubSeq(Held, 1, n) = [k \in 1..n |-> Held[k]]
  BY <1>1, ShortenIs
<1>3. \A k \in 1..n : array'[k - 1] = Held[k]
  BY <1>1
<1>4. Held' = SubSeq(Held, 1, n)
  BY <1>2, <1>3 DEF Held
<1>. QED
  BY <1>1, <1>4 DEF L!Extend

LEMMA LengthenStep ==
  ASSUME VectorInv, NEW n \in Nat, n > size, size' = n,
         \A i \in 0 .. n - 1 : array'[i] = IF i < size THEN array[i] ELSE Default
  PROVE  L!Extend(n)
<1>1. size \in Nat /\ Held \in Seq(HeldOf(0)) /\ Len(Held) = size /\ \A k \in 1..size : Held[k] = array[k - 1]
  BY HeldIs DEF VectorInv
<1>2. Default \in HeldOf(0) /\ n - size \in Nat
  BY <1>1 DEF HeldOf
<1>3. Padded(Held, Default, n - size) = [k \in 1 .. size + (n - size) |-> IF k <= size THEN Held[k] ELSE Default]
  <2>1. Padded(Held, Default, n - size) = Extended(Held, Default, n - size)
    BY <1>1, <1>2, LengthenIs, Zenon
  <2>. QED
    BY <1>1, <2>1, Zenon DEF Extended
<1>4. \A k \in 1..n : array'[k - 1] = IF k <= size THEN Held[k] ELSE Default
  BY <1>1
<1>5. Held' = [k \in 1..n |-> IF k <= size THEN Held[k] ELSE Default] /\ size + (n - size) = n
  BY <1>1, <1>4 DEF Held
<1>6. Held' = Held \o [k \in 1 .. n - size |-> Default]
  BY <1>3, <1>5 DEF Padded
<1>. QED
  BY <1>1, <1>6 DEF L!Extend

LEMMA VReserve == ASSUME VectorInv, NEW n \in 0..MaxSize, Reserve(n) PROVE VectorInv' /\ Held' = Held
<1>. n \in Nat
  OBVIOUS
<1>1. size' = size /\ size \in Nat /\ \A i \in 0 .. size - 1 : array'[i] = array[i]
  BY ReservedOK DEF Reserve, VectorInv
<1>2. Held' = Held
  <2>1. \A k \in 1..size : array'[k - 1] = array[k - 1]
    BY <1>1
  <2>. QED
    BY <1>1, <2>1 DEF Held
<1>3. VectorInv'
  BY ReservedOK DEF Reserve, VectorInv
<1>. QED
  BY <1>2, <1>3

LEMMA VResize == ASSUME VectorInv, NEW n \in 0..MaxSize, Resize(n) PROVE VectorInv' /\ L!Extend(n)
<1>0. n \in Nat /\ size \in Nat /\ size' = n
  BY DEF Resize, VectorInv
<1>1. CASE n < size
  <2>1. \A i \in 0 .. n - 1 : array'[i] = array[i]
    BY <1>0, <1>1 DEF Resize, VectorInv
  <2>2. L!Extend(n)
    BY <1>0, <1>1, <2>1, ShortenStep
  <2>3. VectorInv'
    BY <1>0, <1>1 DEF Resize, VectorInv
  <2>. QED
    BY <2>2, <2>3
<1>2. CASE n >= size
  <2>. DEFINE r == Reserved(n)
  <2>1. /\ r.capacity \in Nat \ {0} /\ r.capacity >= n
        /\ DOMAIN r.array = 0 .. r.capacity - 1
        /\ \A i \in 0 .. size - 1 : r.array[i] = array[i]
    BY <1>0, ReservedOK
  <2>2. /\ array' = [i \in DOMAIN r.array |-> IF i \in size .. n - 1 THEN Default ELSE r.array[i]]
        /\ capacity' = r.capacity
    BY <1>0, <1>2 DEF Resize
  <2>. HIDE DEF r
  <2>3. VectorInv'
    BY <1>0, <2>1, <2>2 DEF VectorInv
  <2>4. \A i \in 0 .. n - 1 : array'[i] = IF i < size THEN array[i] ELSE Default
    BY <1>0, <1>2, <2>1, <2>2
  <2>5. CASE n = size
    <3>1. L!Extend(n)
      BY <1>0, <2>4, <2>5, ShortenStep
    <3>. QED
      BY <2>3, <3>1
  <2>6. CASE n > size
    <3>1. L!Extend(n)
      BY <1>0, <2>4, <2>6, LengthenStep
    <3>. QED
      BY <2>3, <3>1
  <2>. QED
    BY <1>0, <1>2, <2>5, <2>6
<1>. QED
  BY <1>0, <1>1, <1>2

LEMMA VSet == ASSUME VectorInv, NEW p \in 0 .. size - 1, NEW v \in Elements, Set(p, v) PROVE VectorInv' /\ L!Change(p, v)
<1>1. L!Change(p, v)
  BY ChangeStep DEF Set
<1>2. VectorInv'
  BY DEF Set, VectorInv
<1>. QED
  BY <1>1, <1>2

LEMMA VPushBack == ASSUME VectorInv, NEW v \in Elements, PushBack(v) PROVE VectorInv' /\ L!Put(size, v)
<1>. DEFINE g == Grown
<1>1. /\ g.capacity \in Nat \ {0} /\ g.capacity >= size + 1
      /\ DOMAIN g.array = 0 .. g.capacity - 1
      /\ \A i \in 0 .. size - 1 : g.array[i] = array[i]
  BY GrownOK
<1>2. size' = size + 1 /\ array' = [g.array EXCEPT ![size] = v] /\ capacity' = g.capacity
  BY DEF PushBack
<1>. HIDE DEF g
<1>3. size \in Nat /\ size \in 0..size
  BY DEF VectorInv
<1>4. \A i \in 0..size : array'[i] = IF i < size THEN array[i] ELSE IF i = size THEN v ELSE array[i - 1]
  BY <1>1, <1>2, <1>3
<1>5. L!Put(size, v)
  BY <1>2, <1>3, <1>4, PutStep
<1>6. VectorInv'
  BY <1>1, <1>2, <1>3 DEF VectorInv
<1>. QED
  BY <1>5, <1>6

LEMMA VInsert ==
  ASSUME VectorInv, NEW v \in Elements, NEW p \in 0..size, Insert(p, v)
  PROVE  VectorInv' /\ L!Put(p, v)
<1>. DEFINE g == Grown
<1>1. /\ g.capacity \in Nat \ {0} /\ g.capacity >= size + 1
      /\ DOMAIN g.array = 0 .. g.capacity - 1
      /\ \A i \in 0 .. size - 1 : g.array[i] = array[i]
  BY GrownOK
<1>2. /\ size' = size + 1 /\ capacity' = g.capacity
      /\ array' = [i \in DOMAIN g.array |-> CASE i = p -> v
                                             [] i > p /\ i <= size -> g.array[i - 1]
                                             [] OTHER -> g.array[i]]
  BY DEF Insert
<1>. HIDE DEF g
<1>3. size \in Nat
  BY DEF VectorInv
<1>4. ASSUME NEW i \in 0..size
      PROVE  array'[i] = IF i < p THEN array[i] ELSE IF i = p THEN v ELSE array[i - 1]
  <2>0. i \in DOMAIN g.array /\ p \in Int
    BY <1>1, <1>3
  <2>1. CASE i = p
    BY <1>2, <2>0, <2>1
  <2>2. CASE i > p
    <3>1. array'[i] = g.array[i - 1]
      BY <1>2, <2>0, <2>2
    <3>. QED
      BY <1>1, <1>3, <2>0, <2>2, <3>1
  <2>3. CASE i < p
    <3>1. array'[i] = g.array[i]
      BY <1>2, <2>0, <2>3
    <3>. QED
      BY <1>1, <1>3, <2>0, <2>3, <3>1
  <2>. QED
    BY <2>0, <2>1, <2>2, <2>3
<1>5. L!Put(p, v)
  BY <1>2, <1>4, PutStep
<1>6. VectorInv'
  BY <1>1, <1>2, <1>3 DEF VectorInv
<1>. QED
  BY <1>5, <1>6

LEMMA VErase == ASSUME VectorInv, NEW p \in 0 .. size - 1, Erase(p) PROVE VectorInv' /\ L!Drop(p)
<1>1. size \in Nat /\ size' = size - 1 /\ size \in 1..capacity
  BY DEF VectorInv, Erase
<1>2. \A i \in 0 .. size - 2 : array'[i] = IF i < p THEN array[i] ELSE array[i + 1]
  BY <1>1 DEF Erase, Shifted, VectorInv
<1>3. L!Drop(p)
  BY <1>1, <1>2, DropStep
<1>4. VectorInv'
  BY <1>1 DEF VectorInv, Erase
<1>. QED
  BY <1>3, <1>4

LEMMA VPopBack == ASSUME VectorInv, size > 0, PopBack PROVE VectorInv' /\ L!Drop(size - 1)
<1>1. size \in Nat /\ size' = size - 1 /\ size - 1 \in 0 .. size - 1
  BY DEF VectorInv, PopBack
<1>2. \A i \in 0 .. size - 2 : array'[i] = IF i < size - 1 THEN array[i] ELSE array[i + 1]
  BY <1>1 DEF PopBack, VectorInv
<1>3. L!Drop(size - 1)
  BY <1>1, <1>2, DropStep
<1>4. VectorInv'
  BY <1>1 DEF VectorInv, PopBack
<1>. QED
  BY <1>3, <1>4

LEMMA VClearRenew == ASSUME VectorInv, Clear \/ Renew PROVE VectorInv' /\ L!Extend(0)
<1>1. size \in Nat /\ size' = 0 /\ 0 \in 0..size
  BY DEF VectorInv, Clear, Renew
<1>2. \A i \in 0 .. 0 - 1 : array'[i] = array[i]
  OBVIOUS
<1>3. L!Extend(0)
  BY <1>1, <1>2, ShortenStep
<1>4. VectorInv'
  <2>1. CASE Clear
    BY <2>1 DEF VectorInv, Clear
  <2>2. CASE Renew
    BY <2>2, VectorAssumption DEF VectorInv, Renew
  <2>. QED
    BY <2>1, <2>2
<1>. QED
  BY <1>3, <1>4

LEMMA VStep ==
  ASSUME VectorInv, VectorNext
  PROVE  VectorInv' /\ (L!ListNext \/ Held' = Held)
<1>1. size \in Nat /\ Len(Held) = size
  BY HeldIs DEF VectorInv
<1>2. ASSUME NEW n \in 0..MaxSize, Reserve(n) PROVE VectorInv' /\ Held' = Held
  BY <1>2, VReserve
<1>3. ASSUME NEW n \in Nat, VectorInv', size' = n, L!Extend(n) PROVE L!ListNext
  <2>1. Len(Held') = n
    BY <1>3 DEF Held
  <2>. QED
    BY <1>3, <2>1 DEF L!ListNext
<1>4. ASSUME NEW n \in 0..MaxSize, Resize(n) PROVE VectorInv' /\ L!ListNext
  <2>1. VectorInv' /\ L!Extend(n) /\ size' = n /\ n \in Nat
    BY <1>4, VResize DEF Resize
  <2>. QED
    BY <1>3, <2>1
<1>5. ASSUME NEW v \in Elements, PushBack(v) PROVE VectorInv' /\ L!ListNext
  <2>1. VectorInv' /\ L!Put(size, v) /\ size \in 0..Len(Held)
    BY <1>1, <1>5, VPushBack
  <2>. QED
    BY <2>1 DEF L!ListNext
<1>6. ASSUME NEW v \in Elements, NEW p \in 0..size, Insert(p, v) PROVE VectorInv' /\ L!ListNext
  <2>1. VectorInv' /\ L!Put(p, v) /\ p \in 0..Len(Held)
    BY <1>1, <1>6, VInsert
  <2>. QED
    BY <2>1 DEF L!ListNext
<1>7. ASSUME NEW v \in Elements, NEW p \in 0 .. size - 1, Set(p, v) PROVE VectorInv' /\ L!ListNext
  <2>1. VectorInv' /\ L!Change(p, v) /\ p \in 0 .. Len(Held) - 1
    BY <1>1, <1>7, VSet
  <2>. QED
    BY <2>1 DEF L!ListNext
<1>8. ASSUME NEW p \in 0 .. size - 1, Erase(p) PROVE VectorInv' /\ L!ListNext
  <2>1. VectorInv' /\ L!Drop(p) /\ p \in 0 .. Len(Held) - 1
    BY <1>1, <1>8, VErase
  <2>. QED
    BY <2>1 DEF L!ListNext
<1>9. ASSUME size > 0, PopBack PROVE VectorInv' /\ L!ListNext
  <2>1. VectorInv' /\ L!Drop(size - 1) /\ size - 1 \in 0 .. Len(Held) - 1
    BY <1>1, <1>9, VPopBack
  <2>. QED
    BY <2>1 DEF L!ListNext
<1>10. ASSUME Clear \/ Renew PROVE VectorInv' /\ L!ListNext
  <2>1. VectorInv' /\ L!Extend(0) /\ size' = 0
    BY <1>10, VClearRenew DEF Clear, Renew
  <2>. QED
    BY <1>3, <2>1
<1>. QED
  BY <1>2, <1>4, <1>5, <1>6, <1>7, <1>8, <1>9, <1>10 DEF VectorNext

LEMMA VPromised == ASSUME VectorInv PROVE VectorPromised
BY VReserve, VResize, VSet, VPushBack, VInsert, VErase, VPopBack, VClearRenew DEF VectorPromised

\* The vector implements a sequence: whatever the capacity and however slots are
\* moved, destroyed and reused, each call, with its position and its value, does
\* to the elements what it does to a list (vector.c:135-268).
THEOREM VectorRefines == VectorSpec => ImplementsList
<1>1. VectorInit => VectorInv /\ L!ListInit
  BY VectorAssumption DEF VectorInit, VectorInv, L!ListInit, Held
<1>2. VectorInv /\ [VectorNext]_vectorVars => VectorInv' /\ (L!ListNext \/ Held' = Held)
  <2>1. CASE UNCHANGED vectorVars
    BY <2>1 DEF vectorVars, VectorInv, Held
  <2>. QED
    BY <2>1, VStep
<1>3. VectorInv /\ [VectorNext]_vectorVars => VectorInv' /\ [L!ListNext]_Held
  BY <1>2
<1>4. VectorInv => [UNCHANGED vectorVars \/ VectorPromised]_vectorVars
  BY VPromised
<1>. QED
  BY <1>1, <1>3, <1>4, PTL DEF VectorSpec, ImplementsList, L!ListSpec

-----------------------------------------------------------------------------
(* The allocator: its blocks lie in order and hold what was asked for.        *)

Headers == [size : Nat, next : Nat \cup {NULL}, prev : Nat \cup {NULL}, free : BOOLEAN]
Mems == UNION {[D -> Headers] : D \in SUBSET Nat}
Heaps == [head : Nat \cup {NULL}, tail : Nat \cup {NULL}, brk : Nat, mem : Mems]

\* A heap whose blocks are linked in the order of their addresses.
Linked(h) ==
  /\ h \in Heaps
  /\ h.brk <= Limit
  /\ h.head \in DOMAIN h.mem /\ h.tail \in DOMAIN h.mem /\ h.mem[h.tail].next = NULL
  /\ \A a \in DOMAIN h.mem : h.head <= a
  /\ \A a \in DOMAIN h.mem :
        h.mem[a].next = NULL => /\ a = h.tail /\ a + META + h.mem[a].size <= h.brk
                                /\ \A b \in DOMAIN h.mem : b <= a
  /\ \A a \in DOMAIN h.mem :
        h.mem[a].next # NULL => /\ h.mem[a].next \in DOMAIN h.mem
                                /\ a + META + h.mem[a].size <= h.mem[a].next
                                /\ \A b \in DOMAIN h.mem : b > a => h.mem[a].next <= b
  /\ \A a \in DOMAIN h.mem : h.mem[a].prev # NULL => h.mem[a].prev < a

\* The blocks of a heap that are in use are those the program was given.
Owned(h, g) ==
  /\ DOMAIN g = {a \in DOMAIN h.mem : ~h.mem[a].free}
  /\ \A a \in DOMAIN g : h.mem[a].size >= g[a]

LEMMA HeadersOf ==
  ASSUME NEW h \in Heaps
  PROVE  /\ DOMAIN h.mem \subseteq Nat /\ h.mem \in [DOMAIN h.mem -> Headers]
         /\ \A a \in DOMAIN h.mem : a \in Nat /\ h.mem[a] \in Headers
<1>1. PICK D \in SUBSET Nat : h.mem \in [D -> Headers]
  BY DEF Heaps, Mems
<1>. QED
  BY <1>1

LEMMA MemsIs ==
  ASSUME NEW D \in SUBSET Nat, NEW f \in [D -> Headers]
  PROVE  f \in Mems
BY DEF Mems

LEMMA InitHeadOK ==
  ASSUME NEW h, h.brk = 0
  PROVE  Linked(InitHead(h)) /\ DOMAIN InitHead(h).mem = {0} /\ InitHead(h).mem[0].free
<1>. DEFINE e == InitHead(h)
            b == Header(INITIAL - META, NULL, NULL, TRUE)
<1>0. 0 \notin DOMAIN <<>> /\ DOMAIN <<>> = {}
  OBVIOUS
<1>1. With(<<>>, 0, b) = [x \in {0} |-> b]
  BY <1>0 DEF With
<1>2. b \in Headers /\ INITIAL \in Nat /\ INITIAL <= Limit /\ INITIAL > META /\ META \in Nat
  BY MallocAssumption DEF Headers, Header
<1>3. e = [head |-> 0, tail |-> 0, brk |-> INITIAL, mem |-> [x \in {0} |-> b]]
  <2>1. e = [head |-> h.brk, tail |-> h.brk, brk |-> h.brk + INITIAL, mem |-> With(<<>>, h.brk, b)]
    BY DEF InitHead
  <2>. HIDE DEF b, e
  <2>. QED
    BY <1>1, <1>2, <2>1
<1>4. [x \in {0} |-> b] \in Mems
  <2>. HIDE DEF b
  <2>1. {0} \in SUBSET Nat /\ [x \in {0} |-> b] \in [{0} -> Headers]
    BY <1>2
  <2>. QED
    BY <2>1, MemsIs
<1>5. b.size = INITIAL - META /\ b.next = NULL /\ b.prev = NULL /\ b.free
  BY DEF Header
<1>. HIDE DEF b, e
<1>6. e \in Heaps
  BY <1>2, <1>3, <1>4 DEF Heaps
<1>7. e.head = 0 /\ e.tail = 0 /\ e.brk = INITIAL /\ DOMAIN e.mem = {0} /\ e.mem[0] = b
  BY <1>3
<1>. QED
  BY <1>2, <1>5, <1>6, <1>7 DEF Linked, e

\* The search along next finds a free block that is large enough, if it finds one.
LEMMA FirstFitOK ==
  ASSUME NEW h, Linked(h), NEW n \in Nat
  PROVE  FirstFit(h, n) = NULL \/ (FirstFit(h, n) \in DOMAIN h.mem /\ Fits(h, FirstFit(h, n), n))
<1>. DEFINE D == DOMAIN h.mem
            Solves(f) == f = [a \in D \union {NULL} |-> IF a = NULL \/ Fits(h, a, n) THEN a ELSE f[h.mem[a].next]]
            from == CHOOSE f : Solves(f)
            Later(a) == {b \in D : b >= a /\ Fits(h, b, n)}
            First(a) == CHOOSE b \in Later(a) : \A c \in Later(a) : b <= c
            first == [a \in D \union {NULL} |-> IF a = NULL \/ Later(a) = {} THEN NULL ELSE First(a)]
<1>1. FirstFit(h, n) = from[h.head]
  BY Zenon DEF FirstFit
<1>2. D \subseteq Nat /\ NULL \notin D /\ \A a \in D : a \in Nat /\ h.mem[a] \in Headers
  BY HeadersOf, MallocAssumption DEF Linked
<1>3. \A a \in D : h.mem[a].next = NULL => \A b \in D : b <= a
  BY DEF Linked
<1>4. \A a \in D : h.mem[a].next # NULL => h.mem[a].next \in D /\ h.mem[a].next > a
                     /\ \A b \in D : b > a => h.mem[a].next <= b
  BY <1>2, MallocAssumption DEF Linked, Headers
<1>. HIDE DEF D
<1>5. ASSUME NEW a \in D, ~Fits(h, a, n) PROVE first[a] = first[h.mem[a].next]
  <2>1. CASE h.mem[a].next = NULL
    <3>1. ASSUME NEW b \in Later(a) PROVE FALSE
      <4>1. b \in Nat /\ a \in Nat /\ b >= a /\ b <= a
        BY <1>2, <1>3, <2>1
      <4>2. b = a /\ Fits(h, b, n)
        BY <4>1
      <4>. QED
        BY <1>5, <4>2, Zenon
    <3>2. Later(a) = {}
      BY <3>1, Zenon
    <3>. QED
      BY <2>1, <3>2
  <2>2. CASE h.mem[a].next # NULL
    <3>1. Later(a) = Later(h.mem[a].next)
      <4>. DEFINE b == h.mem[a].next
      <4>1. b \in D /\ b > a /\ \A c \in D : c > a => b <= c
        BY <1>4, <2>2
      <4>2. \A c \in D : c >= a /\ Fits(h, c, n) <=> c >= b /\ Fits(h, c, n)
        <5>. HIDE DEF b
        <5>. TAKE c \in D
        <5>1. CASE c = a
          BY <1>2, <1>5, <4>1, <5>1
        <5>2. CASE c # a
          <6>1. c >= a <=> c >= b
            BY <1>2, <4>1, <5>2
          <6>. QED
            BY <6>1
        <5>. QED
          BY <5>1, <5>2
      <4>. HIDE DEF b
      <4>3. Later(a) = Later(b)
        BY <4>2
      <4>. QED
        BY <4>3 DEF b
    <3>2. h.mem[a].next \in D
      BY <1>4, <2>2
    <3>. HIDE DEF Later
    <3>. QED
      BY <1>2, <2>2, <3>1, <3>2
  <2>. QED
    BY <2>1, <2>2
<1>6. ASSUME NEW a \in D, Fits(h, a, n) PROVE first[a] = a
  <2>0. a \in Nat
    BY <1>2
  <2>1. a \in Later(a) /\ \A b \in Later(a) : a <= b /\ b \in Nat
    BY <1>2, <1>6, <2>0
  <2>. HIDE DEF Later
  <2>2. \A b \in Later(a) : (\A c \in Later(a) : b <= c) => b = a
    BY <1>2, <2>1
  <2>. QED
    BY <1>2, <2>1, <2>2
<1>7. Solves(first)
  <2>1. \A a \in D \union {NULL} : first[a] = IF a = NULL \/ Fits(h, a, n) THEN a ELSE first[h.mem[a].next]
    <3>. SUFFICES ASSUME NEW a \in D \union {NULL}
                  PROVE  first[a] = IF a = NULL \/ Fits(h, a, n) THEN a ELSE first[h.mem[a].next]
      OBVIOUS
    <3>1. first[NULL] = NULL
      OBVIOUS
    <3>. HIDE DEF first
    <3>. QED
      BY <1>5, <1>6, <3>1
  <2>2. first = [a \in D \union {NULL} |-> first[a]]
    OBVIOUS
  <2>. HIDE DEF first
  <2>. QED
    BY <2>1, <2>2
<1>8. Solves(from)
  <2>. HIDE DEF Solves, first
  <2>. QED
    BY <1>7 DEF from
<1>. HIDE DEF from, first
<1>9. \A a \in D : from[a] = IF Fits(h, a, n) THEN a ELSE from[h.mem[a].next]
  BY <1>2, <1>8
<1>10. from[NULL] = NULL
  BY <1>8
<1>. DEFINE Good(a) == from[a] = NULL \/ (from[a] \in D /\ Fits(h, from[a], n))
            S == {k \in Nat : \E a \in D : k = h.tail - a /\ ~Good(a)}
<1>11. h.tail \in D /\ \A a \in D : a <= h.tail
  BY <1>3 DEF Linked, D
<1>12. S = {}
  <2>. SUFFICES ASSUME S # {} PROVE FALSE
    OBVIOUS
  <2>1. PICK k \in S : \A j \in S : k <= j
    <3>1. S \in SUBSET Nat
      OBVIOUS
    <3>. HIDE DEF S
    <3>. QED
      BY <3>1, LeastNumber
  <2>2. PICK a \in D : k = h.tail - a /\ ~Good(a)
    OBVIOUS
  <2>3. ~Fits(h, a, n)
    BY <1>9, <2>2
  <2>4. from[a] = from[h.mem[a].next]
    BY <1>9, <2>3
  <2>5. h.mem[a].next # NULL
    BY <1>10, <2>2, <2>4
  <2>. DEFINE b == h.mem[a].next
  <2>6. b \in D /\ b > a /\ ~Good(b)
    BY <1>4, <2>2, <2>4, <2>5
  <2>7. h.tail - b \in Nat /\ h.tail - b < k
    <3>1. a \in Nat /\ b \in Nat /\ h.tail \in Nat /\ b <= h.tail /\ b > a /\ k = h.tail - a
      BY <1>2, <1>11, <2>2, <2>6
    <3>. HIDE DEF b
    <3>. QED
      BY <3>1
  <2>8. h.tail - b \in S
    <3>. HIDE DEF Good, b
    <3>. QED
      BY <2>6, <2>7
  <2>9. k \in Nat
    BY <1>2, <1>11, <2>2
  <2>. HIDE DEF S, b
  <2>. QED
    BY <1>2, <1>11, <2>1, <2>2, <2>6, <2>7, <2>8, <2>9
<1>13. \A a \in D : Good(a)
  <2>. HIDE DEF Good
  <2>1. \A a \in D : h.tail - a \in Nat
    <3>. TAKE a \in D
    <3>1. h.tail \in Nat /\ a \in Nat /\ a <= h.tail
      BY <1>2, <1>11
    <3>. QED
      BY <3>1
  <2>. QED
    BY <1>12, <2>1
<1>. QED
  BY <1>1, <1>13 DEF Linked, D

\* A heap with other headers is linked when its links are.
LEMMA UseOK ==
  ASSUME NEW h, Linked(h), NEW n \in Nat, NEW best \in DOMAIN h.mem, Fits(h, best, n),
         NEW g, Owned(h, g), NEW asked \in Nat, asked <= n
  PROVE  Linked(Use(h, best, n)) /\ Owned(Use(h, best, n), With(g, best, asked)) /\ best \notin DOMAIN g
<1>. DEFINE D == DOMAIN h.mem
            old == h.mem[best]
            new == best + META + n
            Splits == old.size # n /\ old.size >= n + META + ALIGN
            used == Header(n, new, old.prev, FALSE)
            rest == Header(old.size - n - META, old.next, best, TRUE)
            e == [h EXCEPT !.mem = With(With(@, best, used), new, rest),
                           !.tail = IF best = h.tail THEN new ELSE @]
            whole == Header(n, old.next, old.prev, FALSE)
            e2 == [h EXCEPT !.mem[best] = whole]
<1>1. Use(h, best, n) = IF Splits THEN e ELSE e2
  BY Zenon DEF Use
<1>2. /\ h \in Heaps /\ D \subseteq Nat /\ h.mem \in [D -> Headers]
      /\ \A a \in D : a \in Nat /\ a # NULL /\ h.mem[a] \in Headers
      /\ h.brk \in Nat /\ h.brk <= Limit /\ h.head \in D /\ h.tail \in D /\ h.mem[h.tail].next = NULL
      /\ META \in Nat \ {0} /\ ALIGN \in Nat \ {0} /\ NULL \notin Nat
  BY HeadersOf, MallocAssumption DEF Linked, Heaps
<1>3. /\ best \in Nat /\ old \in Headers /\ old.free /\ old.size >= n /\ old.size \in Nat
      /\ old.next \in Nat \cup {NULL} /\ old.prev \in Nat \cup {NULL}
  BY <1>2 DEF Fits, Headers
<1>4. /\ \A a \in D : h.head <= a
      /\ \A a \in D : h.mem[a].next = NULL => /\ a = h.tail /\ a + META + h.mem[a].size <= h.brk
                                              /\ \A b \in D : b <= a
      /\ \A a \in D : h.mem[a].next # NULL => /\ h.mem[a].next \in D
                                              /\ a + META + h.mem[a].size <= h.mem[a].next
                                              /\ \A b \in D : b > a => h.mem[a].next <= b
      /\ \A a \in D : h.mem[a].prev # NULL => h.mem[a].prev < a
      /\ \A a \in D : h.mem[a].size \in Nat /\ h.mem[a].next \in Nat \cup {NULL} /\ h.mem[a].prev \in Nat \cup {NULL}
  BY <1>2 DEF Linked, Headers
<1>5. best \notin DOMAIN g /\ DOMAIN g = {a \in D : ~h.mem[a].free} /\ \A a \in DOMAIN g : h.mem[a].size >= g[a]
  BY <1>3 DEF Owned
<1>. DEFINE g2 == With(g, best, asked)
<1>6. /\ DOMAIN g2 = DOMAIN g \cup {best} /\ g2[best] = asked
      /\ \A a \in DOMAIN g : a # best => g2[a] = g[a]
  BY DEF With
<1>. HIDE DEF D
<1>7. CASE Splits
  <2>. HIDE DEF g2
  <2>0. new \in Nat /\ new > best /\ old.size - n - META \in Nat /\ new + META + (old.size - n - META) = best + META + old.size
    BY <1>2, <1>3, <1>7
  <2>1. \A b \in D : b > best => b > new
    BY <1>2, <1>3, <1>4, <2>0, <1>7
  <2>2. new \notin D
    BY <1>2, <1>3, <2>0, <2>1
  <2>3. /\ used \in Headers /\ used.size = n /\ used.next = new /\ used.prev = old.prev /\ ~used.free
        /\ rest \in Headers /\ rest.size = old.size - n - META /\ rest.next = old.next /\ rest.prev = best /\ rest.free
    BY <1>2, <1>3, <2>0 DEF Header, Headers
  <2>. DEFINE mem == With(With(h.mem, best, used), new, rest)
              tail == IF best = h.tail THEN new ELSE h.tail
  <2>. HIDE DEF used, rest
  <2>4. DOMAIN h.mem = D /\ best \in D
    BY DEF D
  <2>5. mem = [x \in D \cup {new} |-> IF x = new THEN rest ELSE IF x = best THEN used ELSE h.mem[x]]
    BY <1>2, <2>2, <2>4 DEF With
  <2>. HIDE DEF mem, new
  <2>6. mem \in [D \cup {new} -> Headers]
    <3>. HIDE DEF old
    <3>. QED
      BY <1>2, <2>3, <2>5
  <2>7. mem \in Mems /\ tail \in Nat
    BY <1>2, <2>0, <2>6, MemsIs
  <2>8. /\ DOMAIN mem = D \cup {new} /\ mem[new] = rest /\ mem[best] = used
        /\ \A x \in D : x # best => mem[x] = h.mem[x]
    <3>. HIDE DEF old
    <3>. QED
      BY <2>2, <2>4, <2>5
  <2>9. e = [h EXCEPT !.mem = mem, !.tail = tail]
    BY Zenon DEF mem
  <2>. HIDE DEF tail, e, old
  <2>10. e \in Heaps /\ e.mem = mem /\ e.tail = tail /\ e.head = h.head /\ e.brk = h.brk
    BY <1>2, <2>7, <2>9 DEF Heaps
  <2>80. /\ DOMAIN e.mem = D \cup {new} /\ new \notin D /\ new # best
         /\ e.mem[new].size = old.size - n - META /\ e.mem[new].next = old.next /\ e.mem[new].prev = best /\ e.mem[new].free
         /\ e.mem[best].size = n /\ e.mem[best].next = new /\ e.mem[best].prev = old.prev /\ ~e.mem[best].free
         /\ \A x \in D : x # best => e.mem[x] = h.mem[x]
    BY <2>2, <2>3, <2>4, <2>8, <2>10
  <2>81. /\ old.next = NULL => /\ best = h.tail /\ best + META + old.size <= h.brk /\ \A b \in D : b <= best
         /\ old.next # NULL => /\ old.next \in D /\ best + META + old.size <= old.next
                               /\ \A b \in D : b > best => old.next <= b
         /\ old.prev # NULL => old.prev < best
         /\ h.tail = best => old.next = NULL
    BY <1>2, <1>4, <2>4 DEF old
  <2>11. Linked(e)
    <3>1. e.head \in DOMAIN e.mem /\ e.tail \in DOMAIN e.mem /\ e.mem[e.tail].next = NULL
      BY <1>2, <2>10, <2>80, <2>81 DEF tail
    <3>2. ASSUME NEW a \in DOMAIN e.mem PROVE e.head <= a
      <4>1. h.head <= best /\ h.head \in Nat /\ e.head = h.head
        BY <1>2, <1>4, <2>4, <2>10
      <4>2. CASE a = new
        BY <1>3, <2>0, <4>1, <4>2
      <4>3. CASE a \in D
        BY <1>4, <4>1, <4>3
      <4>. QED
        BY <2>80, <4>2, <4>3
    <3>3. ASSUME NEW a \in DOMAIN e.mem, e.mem[a].prev # NULL PROVE e.mem[a].prev < a
      <4>1. CASE a = new
        BY <2>0, <2>80, <4>1
      <4>2. CASE a = best
        BY <2>80, <2>81, <3>3, <4>2
      <4>3. CASE a \in D /\ a # best
        BY <1>4, <2>80, <3>3, <4>3
      <4>. QED
        BY <2>80, <4>1, <4>2, <4>3
    <3>4. ASSUME NEW a \in DOMAIN e.mem, e.mem[a].next = NULL
          PROVE  /\ a = e.tail /\ a + META + e.mem[a].size <= e.brk
                 /\ \A b \in DOMAIN e.mem : b <= a
      <4>1. CASE a = new
        <5>1. old.next = NULL
          BY <2>80, <3>4, <4>1
        <5>2. best = h.tail /\ best + META + old.size <= h.brk /\ \A b \in D : b <= best
          BY <2>81, <5>1
        <5>3. a + META + e.mem[a].size <= e.brk
          BY <2>0, <2>10, <2>80, <4>1, <5>2
        <5>4. \A b \in D : b <= new
          BY <1>2, <1>3, <2>0, <5>2
        <5>. QED
          BY <2>0, <2>80, <2>10, <4>1, <5>2, <5>3, <5>4 DEF tail
      <4>2. CASE a = best
        BY <1>2, <2>0, <2>80, <3>4, <4>2
      <4>3. CASE a \in D /\ a # best
        <5>1. a = h.tail /\ a + META + h.mem[a].size <= h.brk /\ (\A b \in D : b <= a) /\ e.mem[a] = h.mem[a]
          BY <1>4, <2>80, <3>4, <4>3
        <5>2. best <= a /\ a \in Nat /\ \A b \in D : b \in Nat
          BY <1>2, <2>4, <5>1
        <5>3. best < a
          BY <1>3, <4>3, <5>2
        <5>4. new < a
          BY <2>1, <4>3, <5>3
        <5>5. a = e.tail /\ e.brk = h.brk
          BY <2>10, <4>3, <5>1 DEF tail
        <5>6. \A b \in DOMAIN e.mem : b <= a
          BY <2>0, <2>80, <5>1, <5>2, <5>4
        <5>. QED
          BY <5>1, <5>5, <5>6
      <4>. QED
        BY <2>80, <4>1, <4>2, <4>3
    <3>5. ASSUME NEW a \in DOMAIN e.mem, e.mem[a].next # NULL
          PROVE  /\ e.mem[a].next \in DOMAIN e.mem
                 /\ a + META + e.mem[a].size <= e.mem[a].next
                 /\ \A b \in DOMAIN e.mem : b > a => e.mem[a].next <= b
      <4>1. CASE a = new
        <5>1. old.next # NULL /\ e.mem[a].next = old.next
          BY <2>80, <3>5, <4>1
        <5>2. /\ old.next \in D /\ best + META + old.size <= old.next
              /\ \A b \in D : b > best => old.next <= b
          BY <2>81, <5>1
        <5>3. a + META + e.mem[a].size <= e.mem[a].next
          BY <2>0, <2>80, <4>1, <5>1, <5>2
        <5>4. \A b \in D : b > new => old.next <= b
          BY <1>2, <1>3, <2>0, <5>2
        <5>. QED
          BY <2>0, <2>80, <4>1, <5>1, <5>2, <5>3, <5>4
      <4>2. CASE a = best
        <5>1. e.mem[a].next = new /\ e.mem[a].size = n
          BY <2>80, <4>2
        <5>2. \A b \in D : b > best => new <= b
          BY <1>2, <2>0, <2>1
        <5>3. a + META + e.mem[a].size = new
          BY <5>1, <4>2 DEF new
        <5>. QED
          BY <2>0, <2>80, <4>2, <5>1, <5>2, <5>3
      <4>3. CASE a \in D /\ a # best
        <5>1. /\ e.mem[a] = h.mem[a] /\ h.mem[a].next \in D /\ a + META + h.mem[a].size <= h.mem[a].next
              /\ \A b \in D : b > a => h.mem[a].next <= b
          BY <1>4, <2>80, <3>5, <4>3
        <5>2. a \in Nat /\ h.mem[a].next \in Nat /\ \A b \in D : b \in Nat
          BY <1>2, <4>3, <5>1
        <5>3. new > a => h.mem[a].next <= new
          <6>1. CASE best > a
            <7>1. h.mem[a].next <= best
              BY <2>4, <5>1, <6>1
            <7>. QED
              BY <1>3, <2>0, <5>2, <7>1
          <6>2. CASE best < a
            BY <1>3, <2>0, <2>1, <4>3, <5>2, <6>2
          <6>. QED
            BY <1>3, <4>3, <5>2, <6>1, <6>2
        <5>. QED
          BY <2>80, <5>1, <5>3
      <4>. QED
        BY <2>80, <4>1, <4>2, <4>3
    <3>. QED
      BY <1>2, <2>10, <3>1, <3>2, <3>3, <3>4, <3>5 DEF Linked
  <2>12. Owned(e, g2)
    <3>1. \A a \in DOMAIN e.mem : ~e.mem[a].free <=> a \in DOMAIN g2
      BY <1>5, <1>6, <2>2, <2>3, <2>4, <2>8, <2>10
    <3>2. DOMAIN g2 \subseteq DOMAIN e.mem
      BY <1>5, <1>6, <2>4, <2>8, <2>10
    <3>3. \A a \in DOMAIN g2 : e.mem[a].size >= g2[a]
      BY <1>5, <1>6, <2>2, <2>3, <2>4, <2>8, <2>10
    <3>. QED
      BY <3>1, <3>2, <3>3 DEF Owned
  <2>. QED
    BY <1>1, <1>5, <1>7, <2>11, <2>12 DEF g2
<1>8. CASE ~Splits
  <2>1. whole \in Headers /\ whole.size = n /\ whole.next = old.next /\ whole.prev = old.prev /\ ~whole.free
    BY <1>2, <1>3 DEF Header, Headers
  <2>. HIDE DEF whole, g2
  <2>. DEFINE mem == [h.mem EXCEPT ![best] = whole]
  <2>2. DOMAIN h.mem = D /\ best \in D
    BY DEF D
  <2>3. /\ mem \in [D -> Headers] /\ mem[best] = whole
        /\ \A x \in D : x # best => mem[x] = h.mem[x]
    BY <1>2, <2>1, <2>2
  <2>4. mem \in Mems
    BY <1>2, <2>3, MemsIs
  <2>5. e2 = [h EXCEPT !.mem = mem]
    OBVIOUS
  <2>. HIDE DEF mem, e2
  <2>6. e2 \in Heaps /\ e2.mem = mem /\ e2.tail = h.tail /\ e2.head = h.head /\ e2.brk = h.brk
    BY <1>2, <2>4, <2>5 DEF Heaps
  <2>7. /\ DOMAIN e2.mem = D
        /\ \A a \in D : /\ e2.mem[a].next = h.mem[a].next /\ e2.mem[a].prev = h.mem[a].prev
                        /\ e2.mem[a].size <= h.mem[a].size /\ e2.mem[a].size \in Nat
    BY <1>3, <1>4, <2>1, <2>2, <2>3, <2>6
  <2>8. ASSUME NEW a \in D
        PROVE  /\ h.mem[a].next = NULL => a + META + e2.mem[a].size <= h.brk
               /\ h.mem[a].next # NULL => a + META + e2.mem[a].size <= h.mem[a].next
    <3>. DEFINE x == h.mem[a].size
                y == e2.mem[a].size
                z == h.mem[a].next
    <3>1. x \in Nat /\ y \in Nat /\ y <= x /\ a \in Nat /\ z \in Nat \cup {NULL}
      BY <1>2, <1>4, <2>7
    <3>2. (z = NULL => a + META + x <= h.brk) /\ (z # NULL => a + META + x <= z)
      BY <1>4
    <3>. HIDE DEF x, y, z
    <3>3. (z = NULL => a + META + y <= h.brk) /\ (z # NULL => a + META + y <= z)
      BY <1>2, <3>1, <3>2
    <3>. QED
      BY <3>3 DEF y, z
  <2>9. Linked(e2)
    <3>1. e2.head \in DOMAIN e2.mem /\ e2.tail \in DOMAIN e2.mem /\ e2.mem[e2.tail].next = NULL
      BY <1>2, <2>6, <2>7
    <3>2. \A a \in DOMAIN e2.mem : e2.head <= a /\ (e2.mem[a].prev # NULL => e2.mem[a].prev < a)
      BY <1>4, <2>6, <2>7
    <3>3. ASSUME NEW a \in DOMAIN e2.mem
          PROVE  /\ e2.mem[a].next = NULL => /\ a = e2.tail /\ a + META + e2.mem[a].size <= e2.brk
                                             /\ \A b \in DOMAIN e2.mem : b <= a
                 /\ e2.mem[a].next # NULL => /\ e2.mem[a].next \in DOMAIN e2.mem
                                             /\ a + META + e2.mem[a].size <= e2.mem[a].next
                                             /\ \A b \in DOMAIN e2.mem : b > a => e2.mem[a].next <= b
      <4>1. a \in D /\ e2.mem[a].next = h.mem[a].next
        BY <2>7
      <4>. QED
        BY <1>4, <2>6, <2>7, <2>8, <4>1
    <3>. QED
      BY <1>2, <2>6, <3>1, <3>2, <3>3 DEF Linked
  <2>10. Owned(e2, g2)
    <3>1. \A a \in DOMAIN e2.mem : ~e2.mem[a].free <=> a \in DOMAIN g2
      BY <1>5, <1>6, <2>1, <2>2, <2>3, <2>6
    <3>2. DOMAIN g2 \subseteq DOMAIN e2.mem
      BY <1>5, <1>6, <2>2, <2>7
    <3>3. \A a \in DOMAIN g2 : e2.mem[a].size >= g2[a]
      BY <1>5, <1>6, <2>1, <2>2, <2>3, <2>6
    <3>. QED
      BY <3>1, <3>2, <3>3 DEF Owned
  <2>. QED
    BY <1>1, <1>5, <1>8, <2>9, <2>10 DEF g2
<1>. QED
  BY <1>7, <1>8

-----------------------------------------------------------------------------
LEMMA ExtendOK ==
  ASSUME NEW h, Linked(h), NEW n \in Nat, h.brk + n + META <= Limit,
         NEW g, Owned(h, g), NEW asked \in Nat, asked <= n
  PROVE  LET e == [head |-> h.head, tail |-> h.brk, brk |-> h.brk + n + META,
                   mem |-> With([h.mem EXCEPT ![h.tail].next = h.brk], h.brk, Header(n, NULL, h.tail, FALSE))]
         IN  Linked(e) /\ Owned(e, With(g, h.brk, asked)) /\ h.brk \notin DOMAIN g
<1>. DEFINE D == DOMAIN h.mem
            t == h.tail
            brk == h.brk
            last == Header(n, NULL, t, FALSE)
            before == [h.mem EXCEPT ![t].next = brk]
            mem == With(before, brk, last)
            e == [head |-> h.head, tail |-> brk, brk |-> brk + n + META, mem |-> mem]
            g2 == With(g, brk, asked)
<1>2. /\ h \in Heaps /\ D \subseteq Nat /\ h.mem \in [D -> Headers]
      /\ \A a \in D : a \in Nat /\ a # NULL /\ h.mem[a] \in Headers
      /\ brk \in Nat /\ h.head \in D /\ t \in D /\ t \in Nat
      /\ META \in Nat \ {0} /\ NULL \notin Nat /\ Limit \in Nat
  BY HeadersOf, MallocAssumption DEF Linked, Heaps
<1>4. /\ \A a \in D : h.head <= a
      /\ \A a \in D : h.mem[a].next = NULL => /\ a = t /\ a + META + h.mem[a].size <= brk
                                              /\ \A b \in D : b <= a
      /\ \A a \in D : h.mem[a].next # NULL => /\ h.mem[a].next \in D
                                              /\ a + META + h.mem[a].size <= h.mem[a].next
                                              /\ \A b \in D : b > a => h.mem[a].next <= b
      /\ \A a \in D : h.mem[a].prev # NULL => h.mem[a].prev < a
      /\ \A a \in D : h.mem[a].size \in Nat /\ h.mem[a].next \in Nat \cup {NULL} /\ h.mem[a].prev \in Nat \cup {NULL}
      /\ h.mem[t].next = NULL
  BY <1>2 DEF Linked, Headers
<1>5. DOMAIN g = {a \in D : ~h.mem[a].free} /\ \A a \in DOMAIN g : h.mem[a].size >= g[a]
  BY DEF Owned
<1>6. /\ DOMAIN g2 = DOMAIN g \cup {brk} /\ g2[brk] = asked
      /\ \A a \in DOMAIN g : a # brk => g2[a] = g[a]
  BY DEF With
<1>7. \A a \in D : a <= t /\ a < brk
  <2>1. t + META + h.mem[t].size <= brk /\ h.mem[t].size \in Nat /\ \A a \in D : a <= t
    BY <1>2, <1>4
  <2>2. t < brk
    BY <1>2, <2>1
  <2>. TAKE a \in D
  <2>3. a \in Nat /\ a <= t
    BY <1>2, <2>1
  <2>. HIDE DEF D, t, brk
  <2>. QED
    BY <1>2, <2>2, <2>3
<1>8. brk \notin D
  BY <1>2, <1>7
<1>9. last \in Headers /\ last.size = n /\ last.next = NULL /\ last.prev = t /\ ~last.free
  BY <1>2 DEF Header, Headers
<1>. HIDE DEF last, g2
<1>10. /\ DOMAIN before = D /\ before \in [D -> Headers]
       /\ \A x \in D : x # t => before[x] = h.mem[x]
       /\ before[t].next = brk /\ before[t].size = h.mem[t].size /\ before[t].prev = h.mem[t].prev /\ before[t].free = h.mem[t].free
  <2>1. h.mem[t] \in Headers
    BY <1>2
  <2>. DEFINE b == [h.mem[t] EXCEPT !.next = brk]
  <2>2. b \in Headers /\ b.next = brk /\ b.size = h.mem[t].size /\ b.prev = h.mem[t].prev /\ b.free = h.mem[t].free
    <3>. HIDE DEF brk, t
    <3>. QED
      BY <1>2, <2>1 DEF Headers
  <2>3. before = [h.mem EXCEPT ![t] = b]
    OBVIOUS
  <2>. HIDE DEF b, before, t, D
  <2>. QED
    BY <1>2, <2>2, <2>3
<1>. HIDE DEF before, t, brk, D
<1>11. mem = [x \in D \cup {brk} |-> IF x = brk THEN last ELSE before[x]]
  BY <1>10 DEF With
<1>12. mem \in [D \cup {brk} -> Headers]
  <2>. HIDE DEF mem
  <2>. QED
    BY <1>8, <1>9, <1>10, <1>11
<1>. HIDE DEF mem
<1>13. mem \in Mems
  BY <1>2, <1>12, MemsIs
<1>14. e \in Heaps /\ e.mem = mem /\ e.tail = brk /\ e.head = h.head /\ e.brk = brk + n + META
  BY <1>2, <1>13 DEF Heaps
<1>15. /\ DOMAIN e.mem = D \cup {brk}
       /\ e.mem[brk].size = n /\ e.mem[brk].next = NULL /\ e.mem[brk].prev = t /\ ~e.mem[brk].free
       /\ \A x \in D : x # t => e.mem[x] = h.mem[x]
       /\ e.mem[t].next = brk
       /\ e.mem[t].size = h.mem[t].size /\ e.mem[t].prev = h.mem[t].prev /\ e.mem[t].free = h.mem[t].free
  <2>. HIDE DEF e
  <2>. QED
    BY <1>2, <1>8, <1>9, <1>10, <1>11, <1>14
<1>. HIDE DEF e
<1>16. Linked(e)
  <2>1. e.head \in DOMAIN e.mem /\ e.tail \in DOMAIN e.mem /\ e.mem[e.tail].next = NULL
    BY <1>2, <1>14, <1>15
  <2>2. ASSUME NEW a \in DOMAIN e.mem PROVE e.head <= a
    <3>1. h.head <= t /\ t < brk /\ h.head \in Nat
      BY <1>2, <1>4, <1>7
    <3>2. CASE a = brk
      BY <1>2, <1>14, <3>1, <3>2
    <3>3. CASE a \in D
      BY <1>4, <1>14, <3>3
    <3>. QED
      BY <1>15, <3>2, <3>3
  <2>3. ASSUME NEW a \in DOMAIN e.mem, e.mem[a].prev # NULL PROVE e.mem[a].prev < a
    <3>1. CASE a = brk
      BY <1>2, <1>7, <1>15, <3>1
    <3>2. CASE a \in D
      BY <1>2, <1>4, <1>15, <2>3, <3>2
    <3>. QED
      BY <1>15, <3>1, <3>2
  <2>4. ASSUME NEW a \in DOMAIN e.mem, e.mem[a].next = NULL
        PROVE  /\ a = e.tail /\ a + META + e.mem[a].size <= e.brk
               /\ \A b \in DOMAIN e.mem : b <= a
    <3>1. a = brk
      <4>1. CASE a = t
        BY <1>2, <1>15, <2>4, <4>1
      <4>2. CASE a \in D /\ a # t
        BY <1>4, <1>15, <2>4, <4>2
      <4>. QED
        BY <1>15, <4>1, <4>2
    <3>2. \A b \in D : b <= brk
      BY <1>2, <1>7
    <3>. QED
      BY <1>2, <1>14, <1>15, <3>1, <3>2
  <2>5. ASSUME NEW a \in DOMAIN e.mem, e.mem[a].next # NULL
        PROVE  /\ e.mem[a].next \in DOMAIN e.mem
               /\ a + META + e.mem[a].size <= e.mem[a].next
               /\ \A b \in DOMAIN e.mem : b > a => e.mem[a].next <= b
    <3>1. CASE a = t
      <4>1. \A b \in D : ~(b > t)
        <5>1. ASSUME NEW b \in D PROVE b \in Nat /\ t \in Nat /\ b <= t
          BY <1>2, <1>7
        <5>. QED
          BY <5>1
      <4>2. t + META + h.mem[t].size <= brk
        BY <1>2, <1>4
      <4>3. ASSUME NEW b \in DOMAIN e.mem, b > t PROVE brk <= b
        <5>1. b = brk
          BY <1>15, <4>1, <4>3
        <5>. QED
          BY <1>2, <5>1
      <4>4. e.mem[t].next = brk /\ brk \in DOMAIN e.mem /\ t + META + e.mem[t].size <= brk
        BY <1>15, <4>2
      <4>. QED
        BY <3>1, <4>3, <4>4
    <3>2. CASE a \in D /\ a # t
      <4>1. /\ e.mem[a] = h.mem[a] /\ h.mem[a].next \in D /\ a + META + h.mem[a].size <= h.mem[a].next
            /\ \A b \in D : b > a => h.mem[a].next <= b
        BY <1>4, <1>15, <2>5, <3>2
      <4>2. h.mem[a].next <= brk
        <5>1. \A x \in D : x <= brk
          BY <1>2, <1>7
        <5>. QED
          BY <4>1, <5>1, Zenon
      <4>. QED
        BY <1>15, <4>1, <4>2
    <3>. QED
      BY <1>15, <2>5, <3>1, <3>2
  <2>6. e.brk <= Limit
    BY <1>14 DEF brk
  <2>. QED
    BY <1>14, <2>1, <2>2, <2>3, <2>4, <2>5, <2>6 DEF Linked
<1>17. Owned(e, g2)
  <2>1. \A a \in DOMAIN e.mem : ~e.mem[a].free <=> a \in DOMAIN g2
    BY <1>2, <1>5, <1>6, <1>8, <1>15
  <2>2. DOMAIN g2 \subseteq DOMAIN e.mem
    BY <1>5, <1>6, <1>15
  <2>3. \A a \in DOMAIN g2 : e.mem[a].size >= g2[a]
    BY <1>2, <1>5, <1>6, <1>8, <1>15
  <2>. QED
    BY <2>1, <2>2, <2>3 DEF Owned
<1>. QED
  BY <1>5, <1>8, <1>16, <1>17 DEF e, mem, before, last, g2, brk, t

-----------------------------------------------------------------------------
LEMMA MergeIntoOK ==
  ASSUME NEW h, Linked(h), NEW p \in DOMAIN h.mem, NEW a \in DOMAIN h.mem, h.mem[p].next = a,
         h.mem[p].free, h.mem[a].free, NEW g, Owned(h, g)
  PROVE  /\ Linked(MergeInto(h, p, a)) /\ Owned(MergeInto(h, p, a), g)
         /\ p \in DOMAIN MergeInto(h, p, a).mem /\ MergeInto(h, p, a).mem[p].free
<1>. DEFINE D == DOMAIN h.mem
            n == h.mem[a].next
            joint == h.mem[p].size + h.mem[a].size + META
            spliced == [Without(h.mem, a) EXCEPT ![p].size = @ + h.mem[a].size + META, ![p].next = n]
            mem == IF n = NULL THEN spliced ELSE [spliced EXCEPT ![n].prev = p]
            tail == IF a = h.tail THEN p ELSE h.tail
            e == MergeInto(h, p, a)
<1>2. /\ h \in Heaps /\ D \subseteq Nat /\ h.mem \in [D -> Headers]
      /\ \A x \in D : x \in Nat /\ x # NULL /\ h.mem[x] \in Headers
      /\ h.brk \in Nat /\ h.brk <= Limit /\ h.head \in D /\ h.tail \in D
      /\ META \in Nat \ {0} /\ NULL \notin Nat /\ Limit \in Nat
  BY HeadersOf, MallocAssumption DEF Linked, Heaps
<1>4. /\ \A x \in D : h.head <= x
      /\ \A x \in D : h.mem[x].next = NULL => /\ x = h.tail /\ x + META + h.mem[x].size <= h.brk
                                              /\ \A b \in D : b <= x
      /\ \A x \in D : h.mem[x].next # NULL => /\ h.mem[x].next \in D
                                              /\ x + META + h.mem[x].size <= h.mem[x].next
                                              /\ \A b \in D : b > x => h.mem[x].next <= b
      /\ \A x \in D : h.mem[x].prev # NULL => h.mem[x].prev < x
      /\ \A x \in D : h.mem[x].size \in Nat /\ h.mem[x].next \in Nat \cup {NULL} /\ h.mem[x].prev \in Nat \cup {NULL}
      /\ h.mem[h.tail].next = NULL
  BY <1>2 DEF Linked, Headers
<1>5. DOMAIN g = {x \in D : ~h.mem[x].free} /\ \A x \in DOMAIN g : h.mem[x].size >= g[x]
  BY DEF Owned
<1>6. /\ p \in D /\ a \in D /\ p \in Nat /\ a \in Nat /\ p < a /\ p + META + h.mem[p].size <= a
      /\ \A b \in D : b > p => a <= b
      /\ joint \in Nat /\ h.tail # p
  <2>1. p + META + h.mem[p].size <= a /\ (\A b \in D : b > p => a <= b) /\ a # NULL
    BY <1>2, <1>4
  <2>2. p \in Nat /\ a \in Nat /\ h.mem[p].size \in Nat /\ h.mem[a].size \in Nat
    BY <1>2, <1>4
  <2>3. p < a
    BY <1>2, <2>1, <2>2
  <2>. QED
    BY <1>2, <1>4, <2>1, <2>2, <2>3
<1>7. /\ n = NULL => /\ a = h.tail /\ a + META + h.mem[a].size <= h.brk /\ \A b \in D : b <= a
      /\ n # NULL => n \in D /\ n # a /\ n > a /\ n # p /\ a + META + h.mem[a].size <= n /\ \A b \in D : b > a => n <= b
      /\ n \in Nat \cup {NULL}
  <2>1. n # NULL => n \in D /\ a + META + h.mem[a].size <= n /\ (\A b \in D : b > a => n <= b)
    BY <1>4
  <2>2. n # NULL => n > a
    <3>1. n # NULL => n \in Nat /\ h.mem[a].size \in Nat
      BY <1>2, <1>4, <2>1
    <3>. HIDE DEF n
    <3>. QED
      BY <1>2, <1>6, <2>1, <3>1
  <2>. QED
    BY <1>4, <1>6, <2>1, <2>2
<1>8. /\ spliced \in [D \ {a} -> Headers]
      /\ spliced[p].size = joint /\ spliced[p].next = n /\ spliced[p].prev = h.mem[p].prev /\ spliced[p].free = h.mem[p].free
      /\ \A x \in D \ {a} : x # p => spliced[x] = h.mem[x]
  <2>. DEFINE w == Without(h.mem, a)
              b0 == [w[p] EXCEPT !.size = @ + h.mem[a].size + META, !.next = n]
  <2>1. w = [x \in D \ {a} |-> h.mem[x]]
    BY DEF Without
  <2>. HIDE DEF w
  <2>20. p \in D \ {a}
    BY <1>6
  <2>. HIDE DEF D
  <2>2. w \in [D \ {a} -> Headers] /\ w[p] = h.mem[p] /\ \A x \in D \ {a} : w[x] = h.mem[x]
    <3>1. \A x \in D \ {a} : h.mem[x] \in Headers
      BY <1>2
    <3>. QED
      BY <2>1, <2>20, <3>1
  <2>3. b0 \in Headers /\ b0.size = joint /\ b0.next = n /\ b0.prev = h.mem[p].prev /\ b0.free = h.mem[p].free
    <3>1. h.mem[p] \in Headers /\ h.mem[p].size + h.mem[a].size + META \in Nat
      BY <1>2, <1>6
    <3>. HIDE DEF n
    <3>. QED
      BY <1>7, <2>2, <3>1 DEF Headers
  <2>4. spliced = [w EXCEPT ![p] = b0]
    BY DEF w
  <2>. HIDE DEF b0, spliced, n, joint
  <2>5. spliced \in [D \ {a} -> Headers] /\ spliced[p] = b0 /\ \A x \in D \ {a} : x # p => spliced[x] = w[x]
    BY <2>2, <2>20, <2>3, <2>4
  <2>. QED
    BY <2>2, <2>3, <2>5
<1>. HIDE DEF spliced, joint
<1>9. /\ mem \in [D \ {a} -> Headers]
      /\ mem[p].size = joint /\ mem[p].next = n /\ mem[p].prev = h.mem[p].prev /\ mem[p].free = h.mem[p].free
      /\ \A x \in D \ {a} : x # p => /\ mem[x].size = h.mem[x].size /\ mem[x].next = h.mem[x].next
                                     /\ mem[x].free = h.mem[x].free
                                     /\ mem[x].prev = IF x = n THEN p ELSE h.mem[x].prev
  <2>1. CASE n = NULL
    <3>1. mem = spliced
      BY <2>1
    <3>2. \A x \in D \ {a} : x # n
      BY <1>2, <2>1
    <3>. HIDE DEF mem, D, n
    <3>. QED
      BY <1>8, <3>1, <3>2
  <2>2. CASE n # NULL
    <3>. DEFINE b0 == [spliced[n] EXCEPT !.prev = p]
    <3>1. mem = [spliced EXCEPT ![n] = b0]
      BY <2>2
    <3>2. n \in D \ {a} /\ n # p /\ spliced[n] = h.mem[n] /\ spliced[n] \in Headers
      <4>. HIDE DEF n, D
      <4>. QED
        BY <1>7, <1>8, <2>2
    <3>. HIDE DEF n
    <3>3. b0 \in Headers /\ b0.prev = p /\ b0.size = h.mem[n].size /\ b0.next = h.mem[n].next /\ b0.free = h.mem[n].free
      BY <1>6, <3>2 DEF Headers
    <3>. HIDE DEF b0, mem, D
    <3>4. mem \in [D \ {a} -> Headers] /\ mem[n] = b0 /\ \A x \in D \ {a} : x # n => mem[x] = spliced[x]
      BY <1>8, <3>1, <3>2, <3>3
    <3>5. p \in D \ {a}
      BY <1>6 DEF D
    <3>6. mem[p] = spliced[p]
      BY <3>2, <3>4, <3>5
    <3>7. ASSUME NEW x \in D \ {a}, x # p
          PROVE  /\ mem[x].size = h.mem[x].size /\ mem[x].next = h.mem[x].next
                 /\ mem[x].free = h.mem[x].free
                 /\ mem[x].prev = IF x = n THEN p ELSE h.mem[x].prev
      <4>1. CASE x = n
        BY <3>3, <3>4, <4>1
      <4>2. CASE x # n
        <5>1. mem[x] = spliced[x] /\ spliced[x] = h.mem[x]
          BY <1>8, <3>4, <3>7, <4>2
        <5>. QED
          BY <4>2, <5>1
      <4>. QED
        BY <4>1, <4>2
    <3>. QED
      BY <1>8, <3>4, <3>6, <3>7
  <2>. QED
    BY <2>1, <2>2
<1>10. e = [h EXCEPT !.mem = mem, !.tail = tail]
  BY Zenon DEF MergeInto, spliced
<1>. HIDE DEF mem, e, D, n, tail
<1>11. mem \in Mems /\ tail \in Nat
  <2>1. mem \in Mems
    BY <1>2, <1>9, MemsIs
  <2>. QED
    BY <1>2, <1>6, <2>1 DEF tail
<1>12. e \in Heaps /\ e.mem = mem /\ e.tail = tail /\ e.head = h.head /\ e.brk = h.brk
  BY <1>2, <1>10, <1>11 DEF Heaps
<1>13. DOMAIN e.mem = D \ {a} /\ p \in D \ {a}
  BY <1>6, <1>9, <1>12
<1>14. ASSUME NEW x \in DOMAIN e.mem, x # p
       PROVE  x \in D /\ x # a /\ e.mem[x].next = h.mem[x].next /\ e.mem[x].size = h.mem[x].size
              /\ e.mem[x].prev = (IF x = n THEN p ELSE h.mem[x].prev) /\ e.mem[x].free = h.mem[x].free
  BY <1>9, <1>12, <1>13, <1>14
<1>15. e.mem[p].size = joint /\ e.mem[p].next = n /\ e.mem[p].prev = h.mem[p].prev /\ e.mem[p].free
  BY <1>9, <1>12
<1>16. Linked(e)
  <2>1. e.head \in DOMAIN e.mem
    <3>1. h.head <= p /\ h.head \in Nat
      BY <1>2, <1>4, <1>6
    <3>. QED
      BY <1>2, <1>6, <1>12, <1>13, <3>1
  <2>2. e.tail \in DOMAIN e.mem /\ e.mem[e.tail].next = NULL
    <3>1. CASE a = h.tail
      BY <1>4, <1>12, <1>13, <1>15, <3>1 DEF tail, n
    <3>2. CASE a # h.tail
      <4>1. e.tail = h.tail /\ h.tail \in DOMAIN e.mem
        BY <1>2, <1>12, <1>13, <3>2 DEF tail
      <4>. QED
        BY <1>4, <1>6, <1>14, <4>1
    <3>. QED
      BY <3>1, <3>2
  <2>3. \A x \in DOMAIN e.mem : e.head <= x
    BY <1>4, <1>12, <1>13
  <2>4. ASSUME NEW x \in DOMAIN e.mem, e.mem[x].prev # NULL PROVE e.mem[x].prev < x
    <3>1. CASE x = p
      BY <1>4, <1>6, <1>15, <2>4, <3>1
    <3>2. CASE x # p /\ x = n
      <4>1. e.mem[x].prev = p /\ x \in Nat /\ x # NULL
        BY <1>2, <1>14, <3>2
      <4>. QED
        BY <1>6, <1>7, <3>2, <4>1
    <3>3. CASE x # p /\ x # n
      BY <1>4, <1>14, <2>4, <3>3
    <3>. QED
      BY <3>1, <3>2, <3>3
  <2>5. ASSUME NEW x \in DOMAIN e.mem, e.mem[x].next = NULL
        PROVE  /\ x = e.tail /\ x + META + e.mem[x].size <= e.brk
               /\ \A b \in DOMAIN e.mem : b <= x
    <3>1. CASE x = p
      <4>1. n = NULL
        BY <1>15, <2>5, <3>1
      <4>2. a = h.tail /\ a + META + h.mem[a].size <= h.brk /\ \A b \in D : b <= a
        BY <1>7, <4>1
      <4>3. e.tail = p
        BY <1>12, <4>2 DEF tail
      <4>4. p + META + joint <= h.brk
        <5>1. h.mem[p].size \in Nat /\ h.mem[a].size \in Nat /\ joint = h.mem[p].size + h.mem[a].size + META
          BY <1>4, <1>6 DEF joint
        <5>. QED
          BY <1>2, <1>6, <4>2, <5>1
      <4>5. ASSUME NEW b \in DOMAIN e.mem PROVE b <= p
        <5>1. b \in D /\ b # a /\ b \in Nat /\ b <= a
          BY <1>2, <1>13, <4>2
        <5>. QED
          BY <1>6, <5>1
      <4>. QED
        BY <1>12, <1>15, <3>1, <4>3, <4>4, <4>5
    <3>2. CASE x # p
      <4>1. x \in D /\ x # a /\ h.mem[x].next = NULL /\ e.mem[x].size = h.mem[x].size
        BY <1>14, <2>5, <3>2
      <4>2. x = h.tail /\ x + META + h.mem[x].size <= h.brk /\ \A b \in D : b <= x
        BY <1>4, <4>1
      <4>. QED
        BY <1>12, <1>13, <4>1, <4>2 DEF tail
    <3>. QED
      BY <3>1, <3>2
  <2>6. ASSUME NEW x \in DOMAIN e.mem, e.mem[x].next # NULL
        PROVE  /\ e.mem[x].next \in DOMAIN e.mem
               /\ x + META + e.mem[x].size <= e.mem[x].next
               /\ \A b \in DOMAIN e.mem : b > x => e.mem[x].next <= b
    <3>1. CASE x = p
      <4>1. n # NULL
        BY <1>15, <2>6, <3>1
      <4>2. n \in D /\ n # a /\ a + META + h.mem[a].size <= n /\ \A b \in D : b > a => n <= b
        BY <1>7, <4>1
      <4>3. p + META + joint <= n
        <5>1. h.mem[p].size \in Nat /\ h.mem[a].size \in Nat /\ joint = h.mem[p].size + h.mem[a].size + META /\ n \in Nat
          BY <1>2, <1>4, <1>6, <4>2 DEF joint
        <5>. QED
          BY <1>2, <1>6, <4>2, <5>1
      <4>4. ASSUME NEW b \in DOMAIN e.mem, b > p PROVE n <= b
        <5>1. b \in D /\ b # a /\ b \in Nat /\ a <= b
          BY <1>2, <1>6, <1>13, <4>4
        <5>. QED
          BY <1>6, <4>2, <5>1
      <4>. QED
        BY <1>13, <1>15, <3>1, <4>2, <4>3, <4>4
    <3>2. CASE x # p
      <4>1. x \in D /\ x # a /\ h.mem[x].next # NULL /\ e.mem[x].size = h.mem[x].size /\ e.mem[x].next = h.mem[x].next
        BY <1>14, <2>6, <3>2
      <4>2. h.mem[x].next \in D /\ x + META + h.mem[x].size <= h.mem[x].next /\ \A b \in D : b > x => h.mem[x].next <= b
        BY <1>4, <4>1
      <4>3. h.mem[x].next # a
        <5>. SUFFICES ASSUME h.mem[x].next = a PROVE FALSE
          OBVIOUS
        <5>1. x \in Nat /\ h.mem[x].size \in Nat
          BY <1>2, <1>4, <4>1
        <5>2. x < a
          BY <1>2, <1>6, <4>2, <5>1
        <5>3. CASE x < p
          BY <1>6, <4>2, <5>3
        <5>4. CASE x > p
          BY <1>6, <4>1, <5>1, <5>2, <5>4
        <5>. QED
          BY <1>6, <3>2, <5>1, <5>3, <5>4
      <4>. QED
        BY <1>13, <4>1, <4>2, <4>3
    <3>. QED
      BY <3>1, <3>2
  <2>. QED
    BY <1>2, <1>12, <2>1, <2>2, <2>3, <2>4, <2>5, <2>6 DEF Linked
<1>17. Owned(e, g)
  <2>1. \A x \in DOMAIN e.mem : ~e.mem[x].free <=> x \in DOMAIN g
    <3>. TAKE x \in DOMAIN e.mem
    <3>1. CASE x = p
      BY <1>5, <1>15, <3>1
    <3>2. CASE x # p
      BY <1>5, <1>14, <3>2
    <3>. QED
      BY <3>1, <3>2
  <2>2. DOMAIN g \subseteq DOMAIN e.mem
    BY <1>5, <1>13
  <2>3. \A x \in DOMAIN g : e.mem[x].size >= g[x]
    <3>. TAKE x \in DOMAIN g
    <3>1. x # p /\ x \in DOMAIN e.mem
      BY <1>5, <2>2
    <3>. QED
      BY <1>5, <1>14, <3>1
  <2>. QED
    BY <2>1, <2>2, <2>3 DEF Owned
<1>. QED
  BY <1>13, <1>15, <1>16, <1>17 DEF e

-----------------------------------------------------------------------------
LEMMA MergeNextOK ==
  ASSUME NEW h, Linked(h), NEW a \in DOMAIN h.mem, h.mem[a].free, NEW g, Owned(h, g)
  PROVE  Linked(MergeNext(h, a)) /\ Owned(MergeNext(h, a), g)
<1>. DEFINE n == h.mem[a].next
<1>1. MergeNext(h, a) = IF n # NULL /\ h.mem[n].free THEN MergeInto(h, a, n) ELSE h
  BY DEF MergeNext
<1>2. n # NULL => n \in DOMAIN h.mem
  BY DEF Linked
<1>3. CASE n # NULL /\ h.mem[n].free
  BY <1>1, <1>2, <1>3, MergeIntoOK
<1>4. CASE ~(n # NULL /\ h.mem[n].free)
  BY <1>1, <1>4
<1>. QED
  BY <1>3, <1>4

LEMMA FreedOK ==
  ASSUME NEW h0, Linked(h0), NEW g, Owned(h0, g), NEW a \in DOMAIN g
  PROVE  LET h == [h0 EXCEPT !.mem[a].free = TRUE]
         IN  Linked(h) /\ Owned(h, Without(g, a)) /\ a \in DOMAIN h.mem /\ h.mem[a].free
<1>. DEFINE h == [h0 EXCEPT !.mem[a].free = TRUE]
            g2 == Without(g, a)
            D == DOMAIN h0.mem
            b == [h0.mem[a] EXCEPT !.free = TRUE]
            mem == [h0.mem EXCEPT ![a] = b]
<1>1. /\ h0 \in Heaps /\ D \subseteq Nat /\ h0.mem \in [D -> Headers] /\ h0.brk <= Limit
      /\ \A x \in D : h0.mem[x] \in Headers
  BY HeadersOf DEF Linked
<1>2. DOMAIN g = {x \in D : ~h0.mem[x].free} /\ a \in D /\ \A x \in DOMAIN g : h0.mem[x].size >= g[x]
  BY DEF Owned
<1>3. /\ b \in Headers /\ b.free /\ b.size = h0.mem[a].size /\ b.next = h0.mem[a].next /\ b.prev = h0.mem[a].prev
  BY <1>1, <1>2 DEF Headers
<1>4. h = [h0 EXCEPT !.mem = mem]
  OBVIOUS
<1>. HIDE DEF b, D
<1>5. mem \in [D -> Headers] /\ mem[a] = b /\ \A x \in D : x # a => mem[x] = h0.mem[x]
  BY <1>1, <1>2, <1>3
<1>. HIDE DEF mem
<1>6. mem \in Mems
  BY <1>1, <1>5, MemsIs
<1>. HIDE DEF h
<1>7. h \in Heaps /\ h.mem = mem /\ h.head = h0.head /\ h.tail = h0.tail /\ h.brk = h0.brk
  BY <1>1, <1>4, <1>6 DEF Heaps
<1>8. /\ DOMAIN h.mem = D /\ h.mem[a].free
      /\ \A x \in D : /\ h.mem[x].size = h0.mem[x].size /\ h.mem[x].next = h0.mem[x].next /\ h.mem[x].prev = h0.mem[x].prev
                      /\ x # a => h.mem[x].free = h0.mem[x].free
  BY <1>3, <1>5, <1>7
<1>9. Linked(h)
  <2>1. /\ h0.head \in D /\ h0.tail \in D /\ h0.mem[h0.tail].next = NULL
        /\ \A x \in D : h0.head <= x
        /\ \A x \in D : h0.mem[x].next = NULL => /\ x = h0.tail /\ x + META + h0.mem[x].size <= h0.brk
                                                /\ \A c \in D : c <= x
        /\ \A x \in D : h0.mem[x].next # NULL => /\ h0.mem[x].next \in D
                                                /\ x + META + h0.mem[x].size <= h0.mem[x].next
                                                /\ \A c \in D : c > x => h0.mem[x].next <= c
        /\ \A x \in D : h0.mem[x].prev # NULL => h0.mem[x].prev < x
    BY DEF Linked, D
  <2>2. h.head \in DOMAIN h.mem /\ h.tail \in DOMAIN h.mem /\ h.mem[h.tail].next = NULL
    BY <1>7, <1>8, <2>1
  <2>3. ASSUME NEW x \in DOMAIN h.mem
        PROVE  /\ h.head <= x
               /\ h.mem[x].next = NULL => /\ x = h.tail /\ x + META + h.mem[x].size <= h.brk
                                          /\ \A c \in DOMAIN h.mem : c <= x
               /\ h.mem[x].next # NULL => /\ h.mem[x].next \in DOMAIN h.mem
                                          /\ x + META + h.mem[x].size <= h.mem[x].next
                                          /\ \A c \in DOMAIN h.mem : c > x => h.mem[x].next <= c
               /\ h.mem[x].prev # NULL => h.mem[x].prev < x
    <3>1. x \in D /\ h.mem[x].size = h0.mem[x].size /\ h.mem[x].next = h0.mem[x].next /\ h.mem[x].prev = h0.mem[x].prev
      BY <1>8
    <3>. QED
      BY <1>7, <1>8, <2>1, <3>1
  <2>. QED
    BY <1>1, <1>7, <2>2, <2>3 DEF Linked
<1>10. DOMAIN g2 = DOMAIN g \ {a} /\ \A x \in DOMAIN g2 : g2[x] = g[x]
  BY DEF Without
<1>. HIDE DEF g2
<1>11. Owned(h, g2)
  BY <1>2, <1>8, <1>10 DEF Owned
<1>. QED
  BY <1>2, <1>8, <1>9, <1>11 DEF h, g2

LEMMA ReleaseOK ==
  ASSUME NEW h0, Linked(h0), NEW g, Owned(h0, g), NEW a \in DOMAIN g,
         NEW r \in Release(h0, a), ~r.broken
  PROVE  Linked(r.heap) /\ Owned(r.heap, Without(g, a)) /\ r.broken = FALSE
<1>. DEFINE h == [h0 EXCEPT !.mem[a].free = TRUE]
            p == h.mem[a].prev
            g2 == Without(g, a)
            kept == [heap |-> MergeNext(h, a), broken |-> FALSE]
            merged == [heap |-> MergeNext(MergeInto(h, p, a), p), broken |-> h.mem[p].next # a]
<1>1. Linked(h) /\ Owned(h, g2) /\ a \in DOMAIN h.mem /\ h.mem[a].free
  BY FreedOK
<1>2. Linked(kept.heap) /\ Owned(kept.heap, g2)
  <2>. HIDE DEF h, g2
  <2>. QED
    BY <1>1, MergeNextOK
<1>3. \/ r = kept
      \/ r = [heap |-> h, broken |-> TRUE]
      \/ p \in DOMAIN h.mem /\ h.mem[p].free /\ r = merged
  BY Zenon DEF Release
<1>4. ASSUME p \in DOMAIN h.mem, h.mem[p].free, r = merged
      PROVE  Linked(merged.heap) /\ Owned(merged.heap, g2) /\ h.mem[p].next = a
  <2>1. h.mem[p].next = a
    BY <1>4
  <2>. HIDE DEF h, g2, p
  <2>2. /\ Linked(MergeInto(h, p, a)) /\ Owned(MergeInto(h, p, a), g2)
        /\ p \in DOMAIN MergeInto(h, p, a).mem /\ MergeInto(h, p, a).mem[p].free
    BY <1>1, <1>4, <2>1, MergeIntoOK
  <2>3. Linked(MergeNext(MergeInto(h, p, a), p)) /\ Owned(MergeNext(MergeInto(h, p, a), p), g2)
    BY <2>2, MergeNextOK
  <2>. QED
    BY <2>1, <2>3
<1>. HIDE DEF h, g2, p
<1>. QED
  BY <1>2, <1>3, <1>4 DEF g2

-----------------------------------------------------------------------------
\* Sizes that stay below half the address space when they are rounded up and
\* get a header.
Moderate(n) == n \in Nat /\ n + ALIGN + META <= W \div 2

LEMMA RoundUpOK ==
  ASSUME NEW n0, Moderate(n0)
  PROVE  RoundUp(n0) \in Nat /\ RoundUp(n0) >= n0 /\ Signed((RoundUp(n0) + META) % W) = RoundUp(n0) + META
<1>. DEFINE x == n0 + ALIGN - 1
            q == x \div ALIGN
            n == q * ALIGN
<1>1. /\ ALIGN \in Nat \ {0} /\ META \in Nat \ {0} /\ W \in Nat \ {0} /\ n0 \in Nat /\ x \in Nat
      /\ n0 + ALIGN + META <= W \div 2
  BY MallocAssumption DEF Moderate
<1>2. W \div 2 \in Nat /\ W \div 2 <= W
  BY <1>1
<1>3. x < W /\ x % W = x
  BY <1>1, <1>2
<1>4. x = ALIGN * q + (x % ALIGN) /\ x % ALIGN \in 0..(ALIGN - 1) /\ q \in Nat
  BY <1>1
<1>5. n = ALIGN * q
  BY <1>1, <1>4
<1>6. n \in Nat
  BY <1>1, <1>4
<1>. HIDE DEF n, q
<1>7. n <= x /\ n >= x - (ALIGN - 1)
  BY <1>1, <1>4, <1>5, <1>6
<1>8. n + META < W \div 2 /\ n >= n0
  BY <1>1, <1>2, <1>6, <1>7
<1>9. (n + META) % W = n + META
  BY <1>1, <1>2, <1>6, <1>8
<1>10. Signed(n + META) = n + META
  BY <1>1, <1>2, <1>6, <1>8 DEF Signed
<1>11. RoundUp(n0) = n
  BY <1>3 DEF RoundUp, n, q
<1>. QED
  BY <1>6, <1>8, <1>9, <1>10, <1>11

\* A heap that has not been used yet, or is linked, and what was given of it.
Sound(h, g) == (h.head = NULL /\ h.brk = 0 /\ DOMAIN g = {}) \/ (Linked(h) /\ Owned(h, g))

LEMMA AllocateOK ==
  ASSUME NEW h0, NEW g, Sound(h0, g), NEW n0, Moderate(n0)
  PROVE  /\ Linked(Allocate(h0, n0).heap)
         /\ Owned(Allocate(h0, n0).heap, Give(Allocate(h0, n0).block, n0, g))
         /\ Allocate(h0, n0).block = NULL \/ Allocate(h0, n0).block \notin DOMAIN g
<1>. DEFINE h == IF h0.head = NULL THEN InitHead(h0) ELSE h0
            n == RoundUp(n0)
            best == IF Fits(h, h.tail, n) THEN h.tail ELSE FirstFit(h, n)
            brk == h.brk + Signed((n + META) % W)
            e == [head |-> h.head, tail |-> h.brk, brk |-> brk,
                  mem |-> With([h.mem EXCEPT ![h.tail].next = h.brk], h.brk, Header(n, NULL, h.tail, FALSE))]
            r == Allocate(h0, n0)
<1>1. r = IF best # NULL THEN [heap |-> Use(h, best, n), block |-> best]
          ELSE IF brk > Limit \/ brk < 0 THEN [heap |-> h, block |-> NULL]
          ELSE [heap |-> e, block |-> h.brk]
  BY Zenon DEF Allocate
<1>2. NULL \notin Nat /\ META \in Nat /\ Limit \in Nat
  BY MallocAssumption
<1>3. Linked(h) /\ Owned(h, g)
  <2>1. CASE h0.head = NULL
    <3>1. h0.brk = 0 /\ DOMAIN g = {}
      <4>1. ~Linked(h0)
        BY <1>2, <2>1, HeadersOf DEF Linked
      <4>. QED
        BY <4>1 DEF Sound
    <3>2. Linked(InitHead(h0)) /\ DOMAIN InitHead(h0).mem = {0} /\ InitHead(h0).mem[0].free
      BY <3>1, InitHeadOK
    <3>3. Owned(InitHead(h0), g)
      BY <3>1, <3>2 DEF Owned
    <3>. QED
      BY <2>1, <3>2, <3>3
  <2>2. CASE h0.head # NULL
    BY <2>2 DEF Sound
  <2>. QED
    BY <2>1, <2>2
<1>4. n \in Nat /\ n >= n0 /\ brk = h.brk + (n + META) /\ n0 \in Nat
  BY RoundUpOK DEF Moderate
<1>. HIDE DEF h, n, r
<1>5. h.brk \in Nat /\ h.tail \in DOMAIN h.mem
  BY <1>3 DEF Linked, Heaps
<1>6. best = NULL \/ (best \in DOMAIN h.mem /\ Fits(h, best, n))
  BY <1>3, <1>4, <1>5, FirstFitOK
<1>. HIDE DEF best
<1>7. CASE best # NULL
  <2>1. r.heap = Use(h, best, n) /\ r.block = best
    BY <1>1, <1>7
  <2>2. Give(r.block, n0, g) = With(g, best, n0)
    BY <1>7, <2>1 DEF Give
  <2>. QED
    BY <1>3, <1>4, <1>6, <1>7, <2>1, <2>2, UseOK DEF r
<1>8. CASE best = NULL /\ (brk > Limit \/ brk < 0)
  <2>1. r.heap = h /\ r.block = NULL
    BY <1>1, <1>8
  <2>2. Give(r.block, n0, g) = g
    BY <2>1 DEF Give
  <2>. QED
    BY <1>3, <2>1, <2>2 DEF r
<1>9. CASE best = NULL /\ ~(brk > Limit \/ brk < 0)
  <2>1. r.heap = e /\ r.block = h.brk
    BY <1>1, <1>9
  <2>2. Give(r.block, n0, g) = With(g, h.brk, n0)
    BY <1>2, <1>5, <2>1 DEF Give
  <2>3. h.brk + n + META <= Limit /\ brk = h.brk + n + META
    BY <1>2, <1>4, <1>5, <1>9
  <2>4. Linked(e) /\ Owned(e, With(g, h.brk, n0)) /\ h.brk \notin DOMAIN g
    <3>. HIDE DEF brk
    <3>. QED
      BY <1>3, <1>4, <2>3, ExtendOK
  <2>. QED
    BY <2>1, <2>2, <2>4 DEF r
<1>. QED
  BY <1>7, <1>8, <1>9
-----------------------------------------------------------------------------
MallocInv == ~broken => Sound(heap, given)

RequestsAreModerate == \A n \in Requests : n + ALIGN + META <= W \div 2

LEMMA MallocCallOK ==
  ASSUME ~broken, Sound(heap, given), NEW n, Moderate(n), MallocCall(n)
  PROVE  Sound(heap', given')
BY AllocateOK DEF MallocCall, Sound

LEMMA GivenIsLinked ==
  ASSUME Sound(heap, given), NEW a \in DOMAIN given
  PROVE  Linked(heap) /\ Owned(heap, given)
BY DEF Sound

LEMMA FreeCallOK ==
  ASSUME Sound(heap, given), NEW a \in DOMAIN given, FreeCall(a), ~broken'
  PROVE  Sound(heap', given')
<1>1. PICK r \in Release(heap, a) : heap' = r.heap /\ broken' = r.broken
  BY DEF FreeCall
<1>2. Linked(r.heap) /\ Owned(r.heap, Without(given, a))
  BY <1>1, GivenIsLinked, ReleaseOK
<1>. QED
  BY <1>1, <1>2 DEF FreeCall, Sound

LEMMA ReallocCallOK ==
  ASSUME Sound(heap, given), NEW a \in DOMAIN given, NEW n, Moderate(n), ReallocCall(a, n), ~broken'
  PROVE  Sound(heap', given')
<1>. DEFINE r == Allocate(heap, n)
            g == Give(r.block, n, given)
<1>1. Linked(heap) /\ Owned(heap, given)
  BY GivenIsLinked
<1>2. Linked(r.heap) /\ Owned(r.heap, g) /\ (r.block = NULL \/ r.block \notin DOMAIN given)
  BY AllocateOK
<1>. HIDE DEF r
<1>3. CASE heap.mem[a].size >= n
  <2>1. given' = [given EXCEPT ![a] = n] /\ heap' = heap
    BY <1>3 DEF ReallocCall
  <2>2. DOMAIN given' = DOMAIN given /\ given'[a] = n /\ \A b \in DOMAIN given : b # a => given'[b] = given[b]
    BY <2>1
  <2>3. Owned(heap', given')
    BY <1>1, <1>3, <2>1, <2>2 DEF Owned
  <2>. QED
    BY <1>1, <2>1, <2>3 DEF Sound
<1>4. CASE ~(heap.mem[a].size >= n) /\ r.block = NULL
  <2>1. heap' = r.heap /\ given' = given
    BY <1>4 DEF ReallocCall, r
  <2>. QED
    BY <1>2, <1>4, <2>1 DEF Sound, Give
<1>5. CASE ~(heap.mem[a].size >= n) /\ r.block # NULL
  <2>1. PICK f \in Release(r.heap, a) : heap' = f.heap /\ broken' = f.broken
    BY <1>5 DEF ReallocCall, r
  <2>2. given' = Give(r.block, n, Without(given, a))
    BY <1>5 DEF ReallocCall, r
  <2>3. g = With(given, r.block, n) /\ given' = With(Without(given, a), r.block, n) /\ r.block # a
    BY <1>2, <1>5, <2>2 DEF Give
  <2>4. a \in DOMAIN g
    BY <2>3 DEF With
  <2>5. given' = Without(g, a)
    BY <2>3 DEF With, Without
  <2>. HIDE DEF g
  <2>6. Linked(f.heap) /\ Owned(f.heap, Without(g, a))
    BY <1>2, <2>1, <2>4, ReleaseOK
  <2>. QED
    BY <2>1, <2>5, <2>6 DEF Sound
<1>. QED
  BY <1>3, <1>4, <1>5

LEMMA MallocNextOK == RequestsAreModerate /\ MallocInv /\ [MallocNext]_mallocVars => MallocInv'
<1>. SUFFICES ASSUME RequestsAreModerate, MallocInv, [MallocNext]_mallocVars, ~broken' PROVE Sound(heap', given')
  BY DEF MallocInv
<1>0. \A n \in Requests : Moderate(n)
  BY MallocAssumption DEF RequestsAreModerate, Moderate
<1>1. CASE MallocNext
  <2>0. ~broken
    BY <1>1 DEF MallocNext
  <2>1. Sound(heap, given)
    BY <2>0 DEF MallocInv
  <2>. QED
    BY <1>0, <1>1, <2>0, <2>1, MallocCallOK, FreeCallOK, ReallocCallOK DEF MallocNext
<1>2. CASE UNCHANGED mallocVars
  BY <1>2 DEF mallocVars, MallocInv
<1>. QED
  BY <1>1, <1>2

LEMMA SoundHeapOK == MallocInv => HeapOK
<1>. SUFFICES ASSUME MallocInv, ~broken, heap.head # NULL PROVE ListInOrder /\ BlocksAreGiven /\ PrevIsBehind
  BY DEF HeapOK
<1>1. Linked(heap)
  BY HeadersOf DEF MallocInv, Sound
<1>2. Owned(heap, given)
  BY DEF MallocInv, Sound
<1>. DEFINE D == DOMAIN heap.mem
<1>3. /\ \A a \in D : a \in Nat /\ heap.mem[a].size \in Nat
      /\ META \in Nat \ {0} /\ NULL \notin Nat
      /\ \A a \in D : heap.mem[a].next = NULL \/ heap.mem[a].next \in Nat
  BY <1>1, HeadersOf, MallocAssumption DEF Linked, Headers
<1>4. ASSUME NEW a \in D
      PROVE  LET n == heap.mem[a].next
                 later == {b \in D : b > a}
             IN  /\ heap.head <= a
                 /\ IF later = {} THEN n = NULL /\ a = heap.tail /\ End(a) <= heap.brk
                    ELSE n \in later /\ (\A b \in later : n <= b) /\ End(a) <= n
  <2>. DEFINE n == heap.mem[a].next
              later == {b \in D : b > a}
  <2>1. CASE n = NULL
    <3>1. a = heap.tail /\ a + META + heap.mem[a].size <= heap.brk /\ \A b \in D : b <= a
      BY <1>1, <2>1 DEF Linked
    <3>2. later = {}
      BY <1>3, <3>1
    <3>. QED
      BY <1>1, <2>1, <3>1, <3>2 DEF Linked, End, Size
  <2>2. CASE n # NULL
    <3>1. n \in D /\ a + META + heap.mem[a].size <= n /\ \A b \in D : b > a => n <= b
      BY <1>1, <2>2 DEF Linked
    <3>2. n > a
      BY <1>3, <3>1
    <3>3. n \in later /\ \A b \in later : n <= b
      BY <3>1, <3>2
    <3>. QED
      BY <1>1, <3>1, <3>3 DEF Linked, End, Size
  <2>. QED
    BY <2>1, <2>2
<1>5. ListInOrder
  BY <1>4, Zenon DEF ListInOrder
<1>6. BlocksAreGiven
  BY <1>2 DEF BlocksAreGiven, Owned, Size
<1>7. PrevIsBehind
  BY <1>1 DEF PrevIsBehind, Linked
<1>. QED
  BY <1>5, <1>6, <1>7

\* malloc, free and realloc keep the list of blocks in address order without
\* overlap and the program's blocks its own and large enough, over every
\* sequence of splits, merges and moves (alloc.c:115-331) up to the first merge
\* over a stale backward link, as long as no request comes within a header and
\* the alignment of half of size_t (line 125 wraps beyond).
THEOREM HeapCorrect ==
  ASSUME RequestsAreModerate
  PROVE  MallocSpec => []HeapOK
<1>1. MallocInit => MallocInv
  BY DEF MallocInit, MallocInv, Sound
<1>2. MallocInv /\ [MallocNext]_mallocVars => MallocInv'
  BY MallocNextOK
<1>. QED
  BY <1>1, <1>2, SoundHeapOK, PTL DEF MallocSpec

-----------------------------------------------------------------------------
(* The mmu: each frame in use has one place that names it.                    *)
Frame0 == Frames \cup {NoFrame}
Ptes == [base : Frame0, dirty : BOOLEAN]
Bytes == PageValues \cup {0}
Kernels == [used : SUBSET Frames,
            owner : [Frames -> Entries \cup {NoEntry}],
            directory : [Frames -> [Dirs -> Frame0]],
            table : [Frames -> [Index -> Ptes]],
            memory : [Frames -> Bytes],
            swap : [Entries -> Bytes \cup {NoPage}]]

\* What the kernel keeps when dirs are the directories, T the tables, and the
\* frames in extra are asked for and not yet linked.
KernelOK(k, dirs, T, extra) ==
  /\ k \in Kernels /\ dirs \subseteq Frames /\ T \subseteq Frames /\ extra \subseteq Frames
  /\ \A t \in Frames : t \in T <=> \E a \in dirs, d \in Dirs : k.directory[a][d] = t
  /\ \A a, b \in dirs, c, d \in Dirs :
        k.directory[a][c] = k.directory[b][d] /\ k.directory[a][c] # NoFrame => a = b /\ c = d
  /\ \A s, t \in T, i, j \in Index :
        k.table[s][i].base = k.table[t][j].base /\ k.table[s][i].base # NoFrame => s = t /\ i = j
  /\ dirs \cap T = {} /\ dirs \cap extra = {} /\ T \cap extra = {}
  /\ \A t \in T, i \in Index : k.table[t][i].base \notin dirs \cup T \cup extra
  /\ \A f \in Frames : f \in k.used <=> \/ f \in dirs \cup T \cup extra
                                       \/ \E t \in T, i \in Index : k.table[t][i].base = f
  /\ \A f \in Frames, d \in Dirs : f \notin dirs => k.directory[f][d] = NoFrame
  /\ \A f \in Frames, i \in Index : f \notin T => k.table[f][i].base = NoFrame
  /\ \A f \in k.used : k.owner[f] # NoEntry =>
        \E t \in T, i \in Index : k.owner[f] = <<t, i>> /\ k.table[t][i].base = f

\* What the page of entry i of table t holds: one that is out is in its swap
\* file, and one that was never saved is clear.
Saved(k, t, i) == IF k.swap[<<t, i>>] = NoPage THEN 0 ELSE k.swap[<<t, i>>]
Value(k, t, i) == IF k.table[t][i].base # NoFrame THEN k.memory[k.table[t][i].base] ELSE Saved(k, t, i)
Content(k, pd, d, i) == IF k.directory[pd][d] = NoFrame THEN 0 ELSE Value(k, k.directory[pd][d], i)

Fresh(k, t, i) == k.swap[<<t, i>>] = NoPage /\ ~k.table[t][i].dirty

\* Frames that are no pages are clear, a page that is not dirty is what its swap
\* file says, and what is not a table has no swap files.
PagesSaved(k, T) ==
  /\ \A f \in Frames : k.memory[f] # 0 => \E t \in T, i \in Index : k.table[t][i].base = f
  /\ \A t \in T, i \in Index : k.table[t][i].base # NoFrame /\ ~k.table[t][i].dirty =>
        k.memory[k.table[t][i].base] = Saved(k, t, i)
  /\ \A t \in Frames \ T, i \in Index : Fresh(k, t, i)

\* No page of T holds anything else in k2 than it did in k.
SameValues(k, k2, T) == \A t \in T, i \in Index : Value(k2, t, i) = Value(k, t, i)

SameContents(k, k2, dirs) ==
  \A a \in dirs, d \in Dirs, i \in Index : Content(k2, a, d, i) = Content(k, a, d, i)

\* Kernel k2 has given out frame f for entry e, and k before has lost the page
\* that was there.
Asked(k, k2, f, e) ==
  /\ k2 \in Kernels /\ f \in Frames
  /\ k2.used = k.used \cup {f}
  /\ k2.owner = [k.owner EXCEPT ![f] = e]
  /\ k2.directory = k.directory
  /\ \A t \in Frames, i \in Index : k2.table[t][i].base = IF k.table[t][i].base = f THEN NoFrame ELSE k.table[t][i].base

\* Frame f was the page of entry i of table t, which is out now, and saved if it
\* was dirty.
Taken(k, k2, f, t, i) ==
  /\ k2.table[t][i].base = NoFrame /\ k2.table[t][i].dirty = k.table[t][i].dirty
  /\ \A s \in Frames, j \in Index : s # t \/ j # i => k2.table[s][j] = k.table[s][j] /\ k2.swap[<<s, j>>] = k.swap[<<s, j>>]
  /\ k2.memory[f] = 0 /\ \A g \in Frames : g # f => k2.memory[g] = k.memory[g]
  /\ k2.swap[<<t, i>>] = IF k.table[t][i].dirty THEN k.memory[f] ELSE k.swap[<<t, i>>]

LEMMA GivenIs ==
  ASSUME NEW k \in Kernels, NEW f \in Frames, NEW e \in Entries \cup {NoEntry}
  PROVE  /\ Given(k, f, e) \in Kernels
         /\ Given(k, f, e).used = k.used \cup {f} /\ Given(k, f, e).owner = [k.owner EXCEPT ![f] = e]
         /\ Given(k, f, e).directory = k.directory /\ Given(k, f, e).table = k.table
         /\ Given(k, f, e).memory = k.memory /\ Given(k, f, e).swap = k.swap
BY DEF Given, Kernels

LEMMA EvictedIs ==
  ASSUME NEW k \in Kernels, NEW f \in Frames, NEW t \in Frames, NEW i \in Index, k.owner[f] = <<t, i>>
  PROVE  /\ Evicted(k, f) \in Kernels
         /\ Evicted(k, f).used = k.used /\ Evicted(k, f).owner = k.owner /\ Evicted(k, f).directory = k.directory
         /\ Taken(k, Evicted(k, f), f, t, i)
<1>. DEFINE e == <<t, i>>
            pte == [k.table[t][i] EXCEPT !.base = NoFrame]
            row == [k.table[t] EXCEPT ![i] = pte]
            table == [k.table EXCEPT ![t] = row]
            memory == [k.memory EXCEPT ![f] = 0]
            swap == [k.swap EXCEPT ![e] = IF k.table[t][i].dirty THEN k.memory[f] ELSE k.swap[e]]
            k2 == [k EXCEPT !.table = table, !.memory = memory, !.swap = swap]
<1>1. k.table \in [Frames -> [Index -> Ptes]] /\ k.memory \in [Frames -> Bytes] /\ k.swap \in [Entries -> Bytes \cup {NoPage}]
  BY DEF Kernels
<1>2. pte \in Ptes /\ pte.base = NoFrame /\ pte.dirty = k.table[t][i].dirty
  <2>1. k.table[t][i] \in Ptes
    BY <1>1
  <2>. QED
    BY <2>1 DEF Ptes, Frame0
<1>. HIDE DEF pte
<1>3. /\ table \in [Frames -> [Index -> Ptes]] /\ table[t][i] = pte
      /\ \A s \in Frames, j \in Index : s # t \/ j # i => table[s][j] = k.table[s][j]
  BY <1>1, <1>2
<1>4. memory \in [Frames -> Bytes] /\ memory[f] = 0 /\ \A g \in Frames : g # f => memory[g] = k.memory[g]
  BY <1>1 DEF Bytes
<1>5. /\ swap \in [Entries -> Bytes \cup {NoPage}]
      /\ swap[e] = (IF k.table[t][i].dirty THEN k.memory[f] ELSE k.swap[e])
      /\ \A s \in Frames, j \in Index : s # t \/ j # i => swap[<<s, j>>] = k.swap[<<s, j>>]
  BY <1>1 DEF Entries
<1>6. Evicted(k, f) = k2
  BY DEF Evicted, Pte, pte
<1>. HIDE DEF table, memory, swap
<1>7. /\ k2 \in Kernels /\ k2.used = k.used /\ k2.owner = k.owner /\ k2.directory = k.directory
      /\ k2.table = table /\ k2.memory = memory /\ k2.swap = swap
  BY <1>3, <1>4, <1>5 DEF Kernels
<1>. HIDE DEF k2
<1>8. Taken(k, k2, f, t, i)
  BY <1>2, <1>3, <1>4, <1>5, <1>7 DEF Taken
<1>. QED
  BY <1>6, <1>7, <1>8

\* The kernel has a free frame, or takes one back from the entry that names it.
LEMMA AskIs ==
  ASSUME NEW k, NEW dirs, NEW T, NEW extra, KernelOK(k, dirs, T, extra),
         NEW e \in Entries \cup {NoEntry}, NEW a \in AskKernelForFrame(k, e)
  PROVE  \E f \in Frames :
           \/ f \notin k.used /\ a = [k |-> Given(k, f, e), frame |-> f]
           \/ /\ f \in k.used /\ a = [k |-> Given(Evicted(k, f), f, e), frame |-> f]
              /\ \E t \in T, i \in Index : k.owner[f] = <<t, i>> /\ k.table[t][i].base = f
<1>0. k \in Kernels /\ k.used \subseteq Frames
  BY DEF KernelOK, Kernels
<1>1. CASE k.used # Frames
  <2>. DEFINE f == CHOOSE g \in Frames \ k.used : \A h \in Frames \ k.used : g <= h
  <2>1. a = [k |-> Given(k, f, e), frame |-> f]
    BY <1>1 DEF AskKernelForFrame
  <2>2. f \in Frames \ k.used
    <3>1. Frames \ k.used # {} /\ Frames \ k.used \in SUBSET Nat
      BY <1>0, <1>1, MmuAssumption
    <3>. QED
      BY <3>1, LeastNumber
  <2>. QED
    BY <2>1, <2>2
<1>2. CASE k.used = Frames
  <2>1. PICK f \in Evictable(k) : a = [k |-> Given(Evicted(k, f), f, e), frame |-> f]
    BY <1>2 DEF AskKernelForFrame
  <2>2. f \in k.used /\ f \in Frames /\ k.owner[f] # NoEntry
    BY <1>0 DEF Evictable
  <2>3. \E t \in T, i \in Index : k.owner[f] = <<t, i>> /\ k.table[t][i].base = f
    BY <2>2 DEF KernelOK
  <2>. QED
    BY <2>1, <2>2, <2>3
<1>. QED
  BY <1>1, <1>2

LEMMA AskOK ==
  ASSUME NEW k, NEW dirs, NEW T, NEW extra, KernelOK(k, dirs, T, extra),
         NEW e \in Entries \cup {NoEntry}, NEW a \in AskKernelForFrame(k, e)
  PROVE  Asked(k, a.k, a.frame, e) /\ a.frame \notin dirs \cup T \cup extra
<1>0. k \in Kernels /\ k.used \subseteq Frames /\ T \subseteq Frames
  BY DEF KernelOK, Kernels
<1>1. ASSUME NEW f \in Frames, f \notin k.used, a = [k |-> Given(k, f, e), frame |-> f]
      PROVE  Asked(k, a.k, a.frame, e) /\ a.frame \notin dirs \cup T \cup extra
  <2>1. \A t \in Frames, i \in Index : k.table[t][i].base # f
    BY <1>1, MmuAssumption DEF KernelOK
  <2>2. f \notin dirs \cup T \cup extra
    BY <1>1 DEF KernelOK
  <2>. QED
    BY <1>0, <1>1, <2>1, <2>2, GivenIs DEF Asked
<1>2. ASSUME NEW f \in Frames, f \in k.used, a = [k |-> Given(Evicted(k, f), f, e), frame |-> f],
             NEW t \in T, NEW i \in Index, k.owner[f] = <<t, i>>, k.table[t][i].base = f
      PROVE  Asked(k, a.k, a.frame, e) /\ a.frame \notin dirs \cup T \cup extra
  <2>4. f # NoFrame /\ t \in Frames
    BY <1>0, MmuAssumption
  <2>5. \A s \in Frames, j \in Index : k.table[s][j].base = f => s = t /\ j = i
    BY <1>2, <2>4 DEF KernelOK
  <2>6. f \notin dirs \cup T \cup extra
    BY <1>2 DEF KernelOK
  <2>. DEFINE v == Evicted(k, f)
  <2>0. /\ v \in Kernels /\ v.used = k.used /\ v.owner = k.owner /\ v.directory = k.directory
        /\ Taken(k, v, f, t, i)
    BY <1>0, <1>2, <2>4, EvictedIs
  <2>. HIDE DEF v
  <2>7. /\ v \in Kernels /\ v.used = k.used /\ v.owner = k.owner /\ v.directory = k.directory
        /\ v.table[t][i].base = NoFrame
        /\ \A s \in Frames, j \in Index : s # t \/ j # i => v.table[s][j] = k.table[s][j]
    BY <2>0 DEF Taken
  <2>8. \A s \in Frames, j \in Index : v.table[s][j].base = IF k.table[s][j].base = f THEN NoFrame ELSE k.table[s][j].base
    <3>. TAKE s \in Frames, j \in Index
    <3>1. CASE s = t /\ j = i
      BY <1>2, <2>7, <3>1
    <3>2. CASE s # t \/ j # i
      BY <2>5, <2>7, <3>2
    <3>. QED
      BY <3>1, <3>2
  <2>9. a.k = Given(v, f, e) /\ a.frame = f
    BY <1>2 DEF v
  <2>. QED
    BY <2>6, <2>7, <2>8, <2>9, GivenIs DEF Asked
<1>. QED
  BY <1>1, <1>2, AskIs

LEMMA AskLeaves ==
  ASSUME NEW k, NEW dirs, NEW T, NEW extra, KernelOK(k, dirs, T, extra),
         NEW e \in Entries \cup {NoEntry}, NEW a \in AskKernelForFrame(k, e)
  PROVE  /\ a.frame \in Frames
         /\ \/ /\ \A t \in T, i \in Index : k.table[t][i].base # a.frame
               /\ a.k.table = k.table /\ a.k.memory = k.memory /\ a.k.swap = k.swap
            \/ \E t \in T, i \in Index : k.table[t][i].base = a.frame /\ Taken(k, a.k, a.frame, t, i)
<1>0. k \in Kernels /\ T \subseteq Frames
  BY DEF KernelOK
<1>1. ASSUME NEW f \in Frames, f \notin k.used, a = [k |-> Given(k, f, e), frame |-> f]
      PROVE  /\ a.frame = f /\ a.k.table = k.table /\ a.k.memory = k.memory /\ a.k.swap = k.swap
             /\ \A t \in T, i \in Index : k.table[t][i].base # f
  <2>1. \A t \in T, i \in Index : k.table[t][i].base # f
    BY <1>1 DEF KernelOK
  <2>2. a.k = Given(k, f, e) /\ a.frame = f
    BY <1>1
  <2>3. Given(k, f, e).table = k.table /\ Given(k, f, e).memory = k.memory /\ Given(k, f, e).swap = k.swap
    BY <1>0, GivenIs, Zenon
  <2>. QED
    BY <2>1, <2>2, <2>3
<1>2. ASSUME NEW f \in Frames, f \in k.used, a = [k |-> Given(Evicted(k, f), f, e), frame |-> f],
             NEW t \in T, NEW i \in Index, k.owner[f] = <<t, i>>, k.table[t][i].base = f
      PROVE  a.frame = f /\ Taken(k, a.k, f, t, i)
  <2>. DEFINE v == Evicted(k, f)
  <2>1. t \in Frames
    BY <1>0
  <2>2. v \in Kernels /\ Taken(k, v, f, t, i)
    BY <1>0, <1>2, <2>1, EvictedIs
  <2>. HIDE DEF v
  <2>3. a.k = Given(v, f, e) /\ a.frame = f
    BY <1>2 DEF v
  <2>4. Given(v, f, e).table = v.table /\ Given(v, f, e).memory = v.memory /\ Given(v, f, e).swap = v.swap
    BY <2>2, GivenIs, Zenon
  <2>. QED
    BY <2>2, <2>3, <2>4 DEF Taken
<1>3. PICK f \in Frames :
           \/ f \notin k.used /\ a = [k |-> Given(k, f, e), frame |-> f]
           \/ /\ f \in k.used /\ a = [k |-> Given(Evicted(k, f), f, e), frame |-> f]
              /\ \E t \in T, i \in Index : k.owner[f] = <<t, i>> /\ k.table[t][i].base = f
  BY AskIs
<1>4. CASE f \notin k.used /\ a = [k |-> Given(k, f, e), frame |-> f]
  BY <1>1, <1>4
<1>5. CASE f \in k.used /\ a = [k |-> Given(Evicted(k, f), f, e), frame |-> f]
  <2>1. PICK t \in T, i \in Index : k.owner[f] = <<t, i>> /\ k.table[t][i].base = f
    BY <1>3, <1>5
  <2>2. a.frame = f /\ Taken(k, a.k, f, t, i)
    BY <1>2, <1>5, <2>1
  <2>. QED
    BY <2>1, <2>2
<1>. QED
  BY <1>3, <1>4, <1>5

\* The frame that is given out is clear, and no page is changed by that.
LEMMA AskKeeps ==
  ASSUME NEW k, NEW dirs, NEW T, NEW extra, KernelOK(k, dirs, T, extra), PagesSaved(k, T),
         NEW f \in Frames, NEW k2,
         \/ /\ \A t \in T, i \in Index : k.table[t][i].base # f
            /\ k2.table = k.table /\ k2.memory = k.memory /\ k2.swap = k.swap
         \/ \E t \in T, i \in Index : k.table[t][i].base = f /\ Taken(k, k2, f, t, i)
  PROVE  /\ PagesSaved(k2, T) /\ SameValues(k, k2, T) /\ k2.memory[f] = 0
         /\ \A t \in Frames, i \in Index : Fresh(k, t, i) => Fresh(k2, t, i)
<1>0. /\ k \in Kernels /\ T \subseteq Frames /\ NoFrame \notin Frames
      /\ k.memory \in [Frames -> Bytes] /\ NoPage \notin Bytes
  BY MmuAssumption DEF KernelOK, Kernels, Bytes
<1>1. CASE /\ \A t \in T, i \in Index : k.table[t][i].base # f
           /\ k2.table = k.table /\ k2.memory = k.memory /\ k2.swap = k.swap
  <2>1. k.memory[f] = 0
    BY <1>1 DEF PagesSaved
  <2>. QED
    BY <1>1, <2>1 DEF PagesSaved, SameValues, Value, Saved, Fresh
<1>2. ASSUME NEW t \in T, NEW i \in Index, k.table[t][i].base = f, Taken(k, k2, f, t, i)
      PROVE  /\ PagesSaved(k2, T) /\ SameValues(k, k2, T) /\ k2.memory[f] = 0
             /\ \A s \in Frames, j \in Index : Fresh(k, s, j) => Fresh(k2, s, j)
  <2>1. /\ k2.table[t][i].base = NoFrame /\ k2.table[t][i].dirty = k.table[t][i].dirty
        /\ \A s \in Frames, j \in Index :
              s # t \/ j # i => k2.table[s][j] = k.table[s][j] /\ k2.swap[<<s, j>>] = k.swap[<<s, j>>]
        /\ k2.memory[f] = 0 /\ \A g \in Frames : g # f => k2.memory[g] = k.memory[g]
        /\ k2.swap[<<t, i>>] = IF k.table[t][i].dirty THEN k.memory[f] ELSE k.swap[<<t, i>>]
    BY <1>2 DEF Taken
  <2>3. \A s \in T, j \in Index : s # t \/ j # i => k.table[s][j].base # f
    BY <1>0, <1>2 DEF KernelOK
  <2>4. ASSUME NEW s \in T, NEW j \in Index, s # t \/ j # i, k.table[s][j].base # NoFrame
        PROVE  k2.memory[k2.table[s][j].base] = k.memory[k.table[s][j].base]
    <3>1. s \in Frames /\ k.table[s][j] \in Ptes
      BY <1>0 DEF Kernels
    <3>2. k.table[s][j].base \in Frames
      BY <2>4, <3>1 DEF Ptes, Frame0
    <3>3. k.table[s][j].base # f
      BY <2>3, <2>4
    <3>4. k2.table[s][j] = k.table[s][j]
      BY <2>1, <2>4, <3>1
    <3>5. k2.memory[k.table[s][j].base] = k.memory[k.table[s][j].base]
      BY <2>1, <3>2, <3>3
    <3>. QED
      BY <3>4, <3>5
  <2>5. Saved(k2, t, i) = k.memory[f]
    <3>1. k.memory[f] \in Bytes
      BY <1>0
    <3>2. CASE k.table[t][i].dirty
      BY <1>0, <2>1, <3>1, <3>2 DEF Saved
    <3>3. CASE ~k.table[t][i].dirty
      BY <1>0, <1>2, <2>1, <3>3 DEF Saved, PagesSaved
    <3>. QED
      BY <3>2, <3>3
  <2>6. SameValues(k, k2, T)
    <3>. SUFFICES ASSUME NEW s \in T, NEW j \in Index PROVE Value(k2, s, j) = Value(k, s, j)
      BY DEF SameValues
    <3>1. CASE s = t /\ j = i
      BY <1>0, <1>2, <2>1, <2>5, <3>1 DEF Value
    <3>2. CASE s # t \/ j # i
      <4>1. k2.table[s][j] = k.table[s][j] /\ Saved(k2, s, j) = Saved(k, s, j)
        BY <1>0, <2>1, <3>2 DEF Saved
      <4>. QED
        BY <2>4, <3>2, <4>1 DEF Value
    <3>. QED
      BY <3>1, <3>2
  <2>7. \A s \in Frames, j \in Index : Fresh(k, s, j) => Fresh(k2, s, j)
    <3>. SUFFICES ASSUME NEW s \in Frames, NEW j \in Index, Fresh(k, s, j) PROVE Fresh(k2, s, j)
      OBVIOUS
    <3>1. CASE s = t /\ j = i
      BY <2>1, <3>1 DEF Fresh
    <3>2. CASE s # t \/ j # i
      BY <2>1, <3>2 DEF Fresh
    <3>. QED
      BY <3>1, <3>2
  <2>8. ASSUME NEW g \in Frames, k2.memory[g] # 0 PROVE \E s \in T, j \in Index : k2.table[s][j].base = g
    <3>1. g # f /\ k.memory[g] # 0
      BY <2>1, <2>8
    <3>2. PICK s \in T, j \in Index : k.table[s][j].base = g
      BY <3>1 DEF PagesSaved
    <3>3. s \in Frames /\ (s # t \/ j # i)
      BY <1>0, <1>2, <3>1, <3>2
    <3>4. k2.table[s][j] = k.table[s][j]
      BY <2>1, <3>3
    <3>. QED
      BY <3>2, <3>4
  <2>9. ASSUME NEW s \in T, NEW j \in Index, k2.table[s][j].base # NoFrame, ~k2.table[s][j].dirty
        PROVE  k2.memory[k2.table[s][j].base] = Saved(k2, s, j)
    <3>1. (s # t \/ j # i) /\ k2.table[s][j] = k.table[s][j] /\ k2.swap[<<s, j>>] = k.swap[<<s, j>>]
      BY <1>0, <2>1, <2>9
    <3>. QED
      BY <2>4, <2>9, <3>1 DEF PagesSaved, Saved
  <2>10. PagesSaved(k2, T)
    <3>1. \A s \in Frames \ T, j \in Index : Fresh(k2, s, j)
      BY <2>7 DEF PagesSaved
    <3>. QED
      BY <2>8, <2>9, <3>1 DEF PagesSaved
  <2>. QED
    BY <2>1, <2>6, <2>7, <2>10
<1>. QED
  BY <1>1, <1>2

LEMMA AskGives ==
  ASSUME NEW k, NEW dirs, NEW T, NEW extra, KernelOK(k, dirs, T, extra), PagesSaved(k, T),
         NEW e \in Entries \cup {NoEntry}, NEW a \in AskKernelForFrame(k, e)
  PROVE  /\ PagesSaved(a.k, T) /\ SameValues(k, a.k, T) /\ a.k.memory[a.frame] = 0
         /\ \A t \in Frames, i \in Index : Fresh(k, t, i) => Fresh(a.k, t, i)
<1>. DEFINE k2 == a.k
            f == a.frame
<1>1. /\ f \in Frames
      /\ \/ /\ \A t \in T, i \in Index : k.table[t][i].base # f
            /\ k2.table = k.table /\ k2.memory = k.memory /\ k2.swap = k.swap
         \/ \E t \in T, i \in Index : k.table[t][i].base = f /\ Taken(k, k2, f, t, i)
  BY AskLeaves
<1>. HIDE DEF k2, f
<1>2. /\ PagesSaved(k2, T) /\ SameValues(k, k2, T) /\ k2.memory[f] = 0
      /\ \A t \in Frames, i \in Index : Fresh(k, t, i) => Fresh(k2, t, i)
  BY <1>1, AskKeeps
<1>. QED
  BY <1>2 DEF k2, f

\* Frame f, which was clear, is the page of entry i of table t now, with what the
\* swap file has of it.
PagedIn(k, k2, f, t, i) ==
  /\ k2.table[t][i].base = f /\ k2.table[t][i].dirty = k.table[t][i].dirty
  /\ \A s \in Frames, j \in Index : s # t \/ j # i => k2.table[s][j] = k.table[s][j]
  /\ k2.memory[f] = Saved(k, t, i) /\ \A g \in Frames : g # f => k2.memory[g] = k.memory[g]
  /\ k2.swap = k.swap

LEMMA PagedInIs ==
  ASSUME NEW k \in Kernels, NEW t \in Frames, NEW i \in Index, NEW f \in Frames, k.memory[f] = 0
  PROVE  /\ PagedIn(k, ReadPageFromDisk(Map(k, <<t, i>>, f), <<t, i>>, f), f, t, i)
         /\ Fresh(k, t, i) => PagedIn(k, Map(k, <<t, i>>, f), f, t, i)
<1>. DEFINE e == <<t, i>>
            pte == [k.table[t][i] EXCEPT !.base = f]
            row == [k.table[t] EXCEPT ![i] = pte]
            table == [k.table EXCEPT ![t] = row]
            k1 == [k EXCEPT !.table = table]
            memory == [k.memory EXCEPT ![f] = k.swap[e]]
            k2 == [k1 EXCEPT !.memory = memory]
<1>1. k.table \in [Frames -> [Index -> Ptes]] /\ k.memory \in [Frames -> Bytes]
  BY DEF Kernels
<1>2. pte.base = f /\ pte.dirty = k.table[t][i].dirty
  <2>1. k.table[t][i] \in Ptes
    BY <1>1
  <2>. QED
    BY <2>1 DEF Ptes
<1>3. Map(k, e, f) = k1
  BY DEF Map
<1>. HIDE DEF pte
<1>4. table[t][i] = pte /\ \A s \in Frames, j \in Index : s # t \/ j # i => table[s][j] = k.table[s][j]
  BY <1>1
<1>5. memory[f] = k.swap[e] /\ \A g \in Frames : g # f => memory[g] = k.memory[g]
  BY <1>1
<1>. HIDE DEF table
<1>6. k1.table = table /\ k1.memory = k.memory /\ k1.swap = k.swap /\ k2.table = table /\ k2.swap = k.swap
  BY DEF Kernels
<1>7. k2.memory = memory
  BY DEF Kernels
<1>8. ReadPageFromDisk(k1, e, f) = IF k.swap[e] = NoPage THEN k1 ELSE k2
  BY <1>6 DEF ReadPageFromDisk
<1>. HIDE DEF k1, k2, memory, e
<1>9. CASE k.swap[e] = NoPage
  <2>1. Saved(k, t, i) = 0
    BY <1>9 DEF Saved, e
  <2>2. PagedIn(k, k1, f, t, i)
    BY <1>2, <1>4, <1>6, <2>1 DEF PagedIn
  <2>. QED
    BY <1>3, <1>8, <1>9, <2>2 DEF e
<1>10. CASE k.swap[e] # NoPage
  <2>1. Saved(k, t, i) = k.swap[e] /\ ~Fresh(k, t, i)
    BY <1>10 DEF Saved, Fresh, e
  <2>2. PagedIn(k, k2, f, t, i)
    BY <1>2, <1>4, <1>5, <1>6, <1>7, <2>1 DEF PagedIn
  <2>. QED
    BY <1>3, <1>8, <1>10, <2>1, <2>2 DEF e
<1>. QED
  BY <1>9, <1>10

LEMMA PagedInKeeps ==
  ASSUME NEW k \in Kernels, NEW T \in SUBSET Frames, PagesSaved(k, T), NEW f \in Frames, k.memory[f] = 0,
         NEW t \in T, NEW i \in Index, k.table[t][i].base = NoFrame,
         \A s \in T, j \in Index : k.table[s][j].base # f,
         NEW k2, PagedIn(k, k2, f, t, i)
  PROVE  /\ PagesSaved(k2, T) /\ SameValues(k, k2, T)
         /\ \A s \in Frames, j \in Index : Fresh(k, s, j) => Fresh(k2, s, j)
<1>0. t \in Frames /\ NoFrame \notin Frames /\ f # NoFrame
  BY MmuAssumption
<1>1. /\ k2.table[t][i].base = f /\ k2.table[t][i].dirty = k.table[t][i].dirty
      /\ \A s \in Frames, j \in Index : s # t \/ j # i => k2.table[s][j] = k.table[s][j]
      /\ k2.memory[f] = Saved(k, t, i) /\ \A g \in Frames : g # f => k2.memory[g] = k.memory[g]
      /\ k2.swap = k.swap
  BY DEF PagedIn
<1>2. \A s \in Frames, j \in Index : Saved(k2, s, j) = Saved(k, s, j)
  BY <1>1 DEF Saved
<1>3. ASSUME NEW s \in T, NEW j \in Index, s # t \/ j # i
      PROVE  /\ k2.table[s][j] = k.table[s][j]
             /\ k.table[s][j].base # NoFrame => k2.memory[k.table[s][j].base] = k.memory[k.table[s][j].base]
  <2>1. s \in Frames /\ k.table[s][j] \in Ptes
    BY DEF Kernels
  <2>2. k.table[s][j].base # NoFrame => k.table[s][j].base \in Frames /\ k.table[s][j].base # f
    BY <2>1 DEF Ptes, Frame0
  <2>. QED
    BY <1>1, <1>3, <2>1, <2>2
<1>4. SameValues(k, k2, T)
  <2>. SUFFICES ASSUME NEW s \in T, NEW j \in Index PROVE Value(k2, s, j) = Value(k, s, j)
    BY DEF SameValues
  <2>1. CASE s = t /\ j = i
    BY <1>0, <1>1, <2>1 DEF Value
  <2>2. CASE s # t \/ j # i
    BY <1>2, <1>3, <2>2 DEF Value
  <2>. QED
    BY <2>1, <2>2
<1>5. ASSUME NEW s \in Frames, NEW j \in Index, Fresh(k, s, j) PROVE Fresh(k2, s, j)
  <2>1. CASE s = t /\ j = i
    BY <1>1, <1>5, <2>1 DEF Fresh
  <2>2. CASE s # t \/ j # i
    BY <1>1, <1>5, <2>2 DEF Fresh
  <2>. QED
    BY <2>1, <2>2
<1>6. ASSUME NEW g \in Frames, k2.memory[g] # 0 PROVE \E s \in T, j \in Index : k2.table[s][j].base = g
  <2>1. CASE g = f
    BY <1>1, <2>1
  <2>2. CASE g # f
    <3>1. k.memory[g] # 0
      BY <1>1, <1>6, <2>2
    <3>2. PICK s \in T, j \in Index : k.table[s][j].base = g
      BY <3>1 DEF PagesSaved
    <3>3. s # t \/ j # i
      BY <1>0, <3>2
    <3>. QED
      BY <1>3, <3>2, <3>3
  <2>. QED
    BY <2>1, <2>2
<1>7. ASSUME NEW s \in T, NEW j \in Index, k2.table[s][j].base # NoFrame, ~k2.table[s][j].dirty
      PROVE  k2.memory[k2.table[s][j].base] = Saved(k2, s, j)
  <2>1. CASE s = t /\ j = i
    BY <1>0, <1>1, <1>2, <2>1
  <2>2. CASE s # t \/ j # i
    <3>1. k2.table[s][j] = k.table[s][j] /\ k2.memory[k2.table[s][j].base] = k.memory[k.table[s][j].base]
      BY <1>3, <1>7, <2>2
    <3>2. k.memory[k.table[s][j].base] = Saved(k, s, j)
      BY <1>7, <3>1 DEF PagesSaved
    <3>. QED
      BY <1>2, <3>1, <3>2
  <2>. QED
    BY <2>1, <2>2
<1>8. \A s \in Frames \ T, j \in Index : Fresh(k2, s, j)
  BY <1>5 DEF PagesSaved
<1>. QED
  BY <1>4, <1>5, <1>6, <1>7, <1>8 DEF PagesSaved

\* A frame that was asked for without an entry is held until it is linked.
LEMMA HeldOK ==
  ASSUME NEW k, NEW k2, NEW dirs, NEW T, NEW extra, KernelOK(k, dirs, T, extra),
         NEW f, Asked(k, k2, f, NoEntry), f \notin dirs \cup T \cup extra
  PROVE  KernelOK(k2, dirs, T, extra \cup {f})
<1>1. /\ k2 \in Kernels /\ f \in Frames /\ f # NoFrame /\ k2.directory = k.directory /\ k2.used = k.used \cup {f}
      /\ k2.owner = [k.owner EXCEPT ![f] = NoEntry] /\ k.owner \in [Frames -> Entries \cup {NoEntry}]
      /\ \A t \in Frames, i \in Index : k2.table[t][i].base = IF k.table[t][i].base = f THEN NoFrame ELSE k.table[t][i].base
      /\ T \subseteq Frames /\ dirs \subseteq Frames /\ extra \subseteq Frames
  BY MmuAssumption DEF Asked, KernelOK, Kernels
<1>2. \A g \in k2.used : g \in Frames
  BY <1>1 DEF Kernels
<1>3. ASSUME NEW g \in k2.used, k2.owner[g] # NoEntry
      PROVE  \E t \in T, i \in Index : k2.owner[g] = <<t, i>> /\ k2.table[t][i].base = g
  <2>1. g # f /\ g \in k.used /\ k2.owner[g] = k.owner[g]
    BY <1>1, <1>2, <1>3
  <2>2. PICK t \in T, i \in Index : k.owner[g] = <<t, i>> /\ k.table[t][i].base = g
    BY <1>3, <2>1 DEF KernelOK
  <2>. QED
    BY <1>1, <2>1, <2>2
<1>4. ASSUME NEW g \in Frames
      PROVE  g \in k2.used <=> \/ g \in dirs \cup T \cup (extra \cup {f})
                               \/ \E t \in T, i \in Index : k2.table[t][i].base = g
  <2>1. CASE g = f
    BY <1>1, <2>1
  <2>2. CASE g # f
    <3>1. g # NoFrame /\ (g \in k2.used <=> g \in k.used)
      BY <1>1, <2>2, MmuAssumption
    <3>2. \A t \in T, i \in Index : k2.table[t][i].base = g <=> k.table[t][i].base = g
      BY <1>1, <2>2, <3>1
    <3>3. g \in k.used <=> \/ g \in dirs \cup T \cup extra
                           \/ \E t \in T, i \in Index : k.table[t][i].base = g
      BY DEF KernelOK
    <3>. QED
      BY <2>2, <3>1, <3>2, <3>3
  <2>. QED
    BY <2>1, <2>2
<1>5. \A t \in T, i \in Index : k2.table[t][i].base \notin dirs \cup T \cup (extra \cup {f})
  <2>. SUFFICES ASSUME NEW t \in T, NEW i \in Index PROVE k2.table[t][i].base \notin dirs \cup T \cup (extra \cup {f})
    OBVIOUS
  <2>1. k.table[t][i].base \notin dirs \cup T \cup extra
    BY DEF KernelOK
  <2>2. NoFrame \notin dirs \cup T \cup extra
    BY <1>1, MmuAssumption
  <2>. QED
    BY <1>1, <2>1, <2>2
<1>6. \A s, t \in T, i, j \in Index :
         k2.table[s][i].base = k2.table[t][j].base /\ k2.table[s][i].base # NoFrame => s = t /\ i = j
  <2>. SUFFICES ASSUME NEW s \in T, NEW t \in T, NEW i \in Index, NEW j \in Index,
                       k2.table[s][i].base = k2.table[t][j].base, k2.table[s][i].base # NoFrame
                PROVE  s = t /\ i = j
    OBVIOUS
  <2>1. k.table[s][i].base = k.table[t][j].base /\ k.table[s][i].base # NoFrame
    BY <1>1
  <2>. QED
    BY <2>1 DEF KernelOK
<1>7. \A g \in Frames, i \in Index : g \notin T => k2.table[g][i].base = NoFrame
  BY <1>1 DEF KernelOK
<1>. QED
  BY <1>1, <1>3, <1>4, <1>5, <1>6, <1>7 DEF KernelOK

\* A frame that was asked for becomes the page of an entry that has none.
LEMMA MapOK ==
  ASSUME NEW k, NEW k2, NEW dirs, NEW T, NEW extra, KernelOK(k, dirs, T, extra),
         NEW t \in T, NEW i \in Index, k2.table[t][i].base = NoFrame,
         NEW f, NEW e, e = <<t, i>> \/ e = NoEntry, Asked(k, k2, f, e), f \notin dirs \cup T \cup extra
  PROVE  /\ KernelOK(Map(k2, <<t, i>>, f), dirs, T, extra)
         /\ Map(k2, <<t, i>>, f).directory = k.directory
         /\ Map(k2, <<t, i>>, f).table[t][i].base = f
         /\ \A s \in Frames, j \in Index : s # t \/ j # i =>
               Map(k2, <<t, i>>, f).table[s][j].base = IF k.table[s][j].base = f THEN NoFrame ELSE k.table[s][j].base
<1>1. /\ k2 \in Kernels /\ f \in Frames /\ f # NoFrame /\ k2.directory = k.directory /\ k2.used = k.used \cup {f}
      /\ k2.owner = [k.owner EXCEPT ![f] = e] /\ k.owner \in [Frames -> Entries \cup {NoEntry}]
      /\ \A s \in Frames, j \in Index : k2.table[s][j].base = IF k.table[s][j].base = f THEN NoFrame ELSE k.table[s][j].base
      /\ T \subseteq Frames /\ dirs \subseteq Frames /\ extra \subseteq Frames /\ t \in Frames
  BY MmuAssumption DEF Asked, KernelOK, Kernels
<1>. DEFINE pte == [k2.table[t][i] EXCEPT !.base = f]
            row == [k2.table[t] EXCEPT ![i] = pte]
            table == [k2.table EXCEPT ![t] = row]
            k3 == [k2 EXCEPT !.table = table]
<1>2. k2.table \in [Frames -> [Index -> Ptes]]
  BY <1>1 DEF Kernels
<1>3. pte \in Ptes /\ pte.base = f
  <2>1. k2.table[t][i] \in Ptes
    BY <1>1, <1>2
  <2>. QED
    BY <1>1, <2>1 DEF Ptes, Frame0
<1>4. Map(k2, <<t, i>>, f) = k3
  BY DEF Map
<1>. HIDE DEF pte
<1>5. /\ table \in [Frames -> [Index -> Ptes]] /\ table[t][i] = pte
      /\ \A s \in Frames, j \in Index : s # t \/ j # i => table[s][j] = k2.table[s][j]
  BY <1>1, <1>2, <1>3
<1>. HIDE DEF table
<1>6. /\ k3 \in Kernels /\ k3.used = k2.used /\ k3.owner = k2.owner /\ k3.directory = k2.directory /\ k3.table = table
  BY <1>1, <1>5 DEF Kernels
<1>. HIDE DEF k3
<1>7. /\ k3.table[t][i].base = f
      /\ \A s \in Frames, j \in Index : s # t \/ j # i =>
            k3.table[s][j].base = IF k.table[s][j].base = f THEN NoFrame ELSE k.table[s][j].base
  <2>1. k3.table[t][i].base = f
    BY <1>3, <1>5, <1>6
  <2>2. ASSUME NEW s \in Frames, NEW j \in Index, s # t \/ j # i PROVE k3.table[s][j] = k2.table[s][j]
    BY <1>5, <1>6, <2>2
  <2>. QED
    BY <1>1, <2>1, <2>2
<1>8. ASSUME NEW g \in k3.used, k3.owner[g] # NoEntry
      PROVE  \E s \in T, j \in Index : k3.owner[g] = <<s, j>> /\ k3.table[s][j].base = g
  <2>1. CASE g = f
    BY <1>1, <1>6, <1>7, <1>8, <2>1
  <2>2. CASE g # f
    <3>1. g \in k.used /\ g \in Frames /\ g # NoFrame /\ k3.owner[g] = k.owner[g]
      BY <1>1, <1>6, <2>2, MmuAssumption DEF KernelOK, Kernels
    <3>2. PICK s \in T, j \in Index : k.owner[g] = <<s, j>> /\ k.table[s][j].base = g
      BY <1>8, <3>1 DEF KernelOK
    <3>3. s # t \/ j # i
      BY <1>1, <2>2, <3>1, <3>2
    <3>. QED
      BY <1>1, <1>7, <2>2, <3>1, <3>2, <3>3
  <2>. QED
    BY <2>1, <2>2
<1>9. ASSUME NEW g \in Frames
      PROVE  g \in k3.used <=> \/ g \in dirs \cup T \cup extra
                               \/ \E s \in T, j \in Index : k3.table[s][j].base = g
  <2>1. CASE g = f
    BY <1>1, <1>6, <1>7, <2>1
  <2>2. CASE g # f
    <3>1. g # NoFrame /\ (g \in k3.used <=> g \in k.used)
      BY <1>1, <1>6, <2>2, MmuAssumption
    <3>2. ASSUME NEW s \in T, NEW j \in Index PROVE k3.table[s][j].base = g <=> k.table[s][j].base = g
      BY <1>1, <1>7, <2>2, <3>1
    <3>3. g \in k.used <=> \/ g \in dirs \cup T \cup extra
                           \/ \E s \in T, j \in Index : k.table[s][j].base = g
      BY DEF KernelOK
    <3>. QED
      BY <3>1, <3>2, <3>3
  <2>. QED
    BY <2>1, <2>2
<1>10. ASSUME NEW s \in T, NEW j \in Index PROVE k3.table[s][j].base \notin dirs \cup T \cup extra
  <2>1. k.table[s][j].base \notin dirs \cup T \cup extra
    BY DEF KernelOK
  <2>2. NoFrame \notin dirs \cup T \cup extra
    BY <1>1, MmuAssumption
  <2>3. k3.table[s][j].base \in {f, NoFrame, k.table[s][j].base}
    BY <1>1, <1>7
  <2>. QED
    BY <2>1, <2>2, <2>3
<1>11. ASSUME NEW r \in T, NEW s \in T, NEW h \in Index, NEW j \in Index,
              k3.table[r][h].base = k3.table[s][j].base, k3.table[r][h].base # NoFrame
       PROVE  r = s /\ h = j
  <2>1. CASE k3.table[r][h].base = f
    <3>1. \A x \in T, y \in Index : k3.table[x][y].base = f => x = t /\ y = i
      BY <1>1, <1>7
    <3>. QED
      BY <1>11, <2>1, <3>1
  <2>2. CASE k3.table[r][h].base # f
    <3>1. k.table[r][h].base = k.table[s][j].base /\ k.table[r][h].base # NoFrame
      BY <1>1, <1>7, <1>11, <2>2
    <3>. QED
      BY <3>1 DEF KernelOK
  <2>. QED
    BY <2>1, <2>2
<1>12. \A g \in Frames, j \in Index : g \notin T => k3.table[g][j].base = NoFrame
  BY <1>1, <1>7 DEF KernelOK
<1>13. KernelOK(k3, dirs, T, extra)
  BY <1>1, <1>6, <1>8, <1>9, <1>10, <1>11, <1>12 DEF KernelOK
<1>. QED
  BY <1>1, <1>4, <1>6, <1>7, <1>13

LEMMA PageForOK ==
  ASSUME NEW k, NEW dirs, NEW T, NEW extra, KernelOK(k, dirs, T, extra),
         NEW t \in T, NEW i \in Index, k.table[t][i].base = NoFrame,
         NEW e \in Entries \cup {NoEntry}, e = <<t, i>> \/ e = NoEntry, NEW a \in AskKernelForFrame(k, e)
  PROVE  /\ KernelOK(Map(a.k, <<t, i>>, a.frame), dirs, T, extra)
         /\ Map(a.k, <<t, i>>, a.frame).directory = k.directory
         /\ Map(a.k, <<t, i>>, a.frame).table[t][i].base = a.frame /\ a.frame \in Frames
         /\ \A s \in Frames, j \in Index : s # t \/ j # i =>
               Map(a.k, <<t, i>>, a.frame).table[s][j].base =
                  IF k.table[s][j].base = a.frame THEN NoFrame ELSE k.table[s][j].base
<1>. DEFINE k2 == a.k
            f == a.frame
<1>1. Asked(k, k2, f, e) /\ f \notin dirs \cup T \cup extra
  BY AskOK
<1>. HIDE DEF k2, f
<1>2. k2.table[t][i].base = NoFrame /\ f \in Frames
  BY <1>1 DEF Asked, KernelOK
<1>3. /\ KernelOK(Map(k2, <<t, i>>, f), dirs, T, extra)
      /\ Map(k2, <<t, i>>, f).directory = k.directory
      /\ Map(k2, <<t, i>>, f).table[t][i].base = f
      /\ \A s \in Frames, j \in Index : s # t \/ j # i =>
            Map(k2, <<t, i>>, f).table[s][j].base = IF k.table[s][j].base = f THEN NoFrame ELSE k.table[s][j].base
  BY <1>1, <1>2, MapOK
<1>. QED
  BY <1>2, <1>3, Zenon DEF k2, f

LEMMA MapKeeps ==
  ASSUME NEW k, NEW dirs, NEW T, NEW extra, KernelOK(k, dirs, T, extra), PagesSaved(k, T),
         NEW t \in T, NEW i \in Index, k.table[t][i].base = NoFrame,
         NEW e \in Entries \cup {NoEntry}, NEW a \in AskKernelForFrame(k, e),
         NEW k2, \/ k2 = ReadPageFromDisk(Map(a.k, <<t, i>>, a.frame), <<t, i>>, a.frame)
                 \/ Fresh(k, t, i) /\ k2 = Map(a.k, <<t, i>>, a.frame)
  PROVE  /\ PagesSaved(k2, T) /\ SameValues(k, k2, T)
         /\ \A s \in Frames, j \in Index : Fresh(k, s, j) => Fresh(k2, s, j)
<1>. DEFINE k1 == a.k
            f == a.frame
<1>1. /\ PagesSaved(k1, T) /\ SameValues(k, k1, T) /\ k1.memory[f] = 0
      /\ \A s \in Frames, j \in Index : Fresh(k, s, j) => Fresh(k1, s, j)
  BY AskGives
<1>2. Asked(k, k1, f, e)
  BY AskOK
<1>3. T \in SUBSET Frames /\ t \in Frames
  BY DEF KernelOK
<1>31. \/ k2 = ReadPageFromDisk(Map(k1, <<t, i>>, f), <<t, i>>, f)
       \/ Fresh(k, t, i) /\ k2 = Map(k1, <<t, i>>, f)
  OBVIOUS
<1>. HIDE DEF k1, f
<1>4. /\ k1 \in Kernels /\ f \in Frames /\ k1.table[t][i].base = NoFrame
      /\ \A s \in T, j \in Index : k1.table[s][j].base # f
  BY <1>2, <1>3, MmuAssumption DEF Asked
<1>5. PagedIn(k1, k2, f, t, i)
  BY <1>1, <1>3, <1>31, <1>4, PagedInIs
<1>6. /\ PagesSaved(k2, T) /\ SameValues(k1, k2, T)
      /\ \A s \in Frames, j \in Index : Fresh(k1, s, j) => Fresh(k2, s, j)
  BY <1>1, <1>3, <1>4, <1>5, PagedInKeeps
<1>7. SameValues(k, k2, T)
  BY <1>1, <1>6 DEF SameValues
<1>. QED
  BY <1>1, <1>6, <1>7

\* A held frame becomes the directory of a process.
LEMMA RootOK ==
  ASSUME NEW k, NEW dirs, NEW T, NEW extra, KernelOK(k, dirs, T, extra), NEW x \in extra
  PROVE  KernelOK(k, dirs \cup {x}, T, extra \ {x})
<1>1. x \in Frames /\ x \notin dirs /\ x \notin T /\ (dirs \cup {x}) \cup T \cup (extra \ {x}) = dirs \cup T \cup extra
  BY DEF KernelOK
<1>2. \A d \in Dirs : k.directory[x][d] = NoFrame
  BY <1>1 DEF KernelOK
<1>3. \A t \in Frames : t \in T <=> \E a \in dirs \cup {x}, d \in Dirs : k.directory[a][d] = t
  <2>. SUFFICES ASSUME NEW t \in Frames PROVE t \in T <=> \E a \in dirs \cup {x}, d \in Dirs : k.directory[a][d] = t
    OBVIOUS
  <2>1. t # NoFrame /\ (t \in T <=> \E a \in dirs, d \in Dirs : k.directory[a][d] = t)
    BY MmuAssumption DEF KernelOK
  <2>. QED
    BY <1>2, <2>1
<1>4. \A a, b \in dirs \cup {x}, c, d \in Dirs :
         k.directory[a][c] = k.directory[b][d] /\ k.directory[a][c] # NoFrame => a = b /\ c = d
  <2>. SUFFICES ASSUME NEW a \in dirs \cup {x}, NEW b \in dirs \cup {x}, NEW c \in Dirs, NEW d \in Dirs,
                       k.directory[a][c] = k.directory[b][d], k.directory[a][c] # NoFrame
                PROVE  a = b /\ c = d
    OBVIOUS
  <2>1. a \in dirs /\ b \in dirs
    BY <1>2
  <2>. QED
    BY <2>1 DEF KernelOK
<1>5. \A f \in Frames, d \in Dirs : f \notin dirs \cup {x} => k.directory[f][d] = NoFrame
  BY DEF KernelOK
<1>6. \A f \in Frames : f \in k.used <=> \/ f \in (dirs \cup {x}) \cup T \cup (extra \ {x})
                                        \/ \E t \in T, i \in Index : k.table[t][i].base = f
  BY <1>1 DEF KernelOK
<1>7. \A t \in T, i \in Index : k.table[t][i].base \notin (dirs \cup {x}) \cup T \cup (extra \ {x})
  BY <1>1 DEF KernelOK
<1>8. /\ dirs \cup {x} \subseteq Frames /\ extra \ {x} \subseteq Frames /\ (dirs \cup {x}) \cap T = {}
      /\ (dirs \cup {x}) \cap (extra \ {x}) = {} /\ T \cap (extra \ {x}) = {}
  BY <1>1 DEF KernelOK
<1>. QED
  BY <1>3, <1>4, <1>5, <1>6, <1>7, <1>8 DEF KernelOK

LEMMA AttachIs ==
  ASSUME NEW k \in Kernels, NEW pd \in Frames, NEW d \in Dirs, NEW x \in Frames
  PROVE  /\ Attach(k, pd, d, x) \in Kernels
         /\ Attach(k, pd, d, x).used = k.used /\ Attach(k, pd, d, x).owner = k.owner
         /\ Attach(k, pd, d, x).table = k.table /\ Attach(k, pd, d, x).memory = k.memory
         /\ Attach(k, pd, d, x).swap = k.swap /\ Attach(k, pd, d, x).directory[pd][d] = x
         /\ \A a \in Frames, c \in Dirs : a # pd \/ c # d => Attach(k, pd, d, x).directory[a][c] = k.directory[a][c]
<1>. DEFINE row == [k.directory[pd] EXCEPT ![d] = x]
            directory == [k.directory EXCEPT ![pd] = row]
            k2 == Attach(k, pd, d, x)
<1>1. k2 = [k EXCEPT !.directory = directory]
  BY DEF Attach
<1>2. k.directory \in [Frames -> [Dirs -> Frame0]]
  BY DEF Kernels
<1>3. /\ directory \in [Frames -> [Dirs -> Frame0]] /\ directory[pd][d] = x
      /\ \A a \in Frames, c \in Dirs : a # pd \/ c # d => directory[a][c] = k.directory[a][c]
  BY <1>2 DEF Frame0
<1>. HIDE DEF directory, k2
<1>4. /\ k2 \in Kernels /\ k2.used = k.used /\ k2.owner = k.owner /\ k2.table = k.table /\ k2.directory = directory
      /\ k2.memory = k.memory /\ k2.swap = k.swap
  BY <1>1, <1>3 DEF Kernels
<1>. QED
  BY <1>3, <1>4 DEF k2

\* A held frame becomes a table of a directory.
LEMMA TableOK ==
  ASSUME NEW k, NEW dirs, NEW T, NEW extra, KernelOK(k, dirs, T, extra), NEW x \in extra,
         NEW pd \in dirs, NEW d \in Dirs, k.directory[pd][d] = NoFrame
  PROVE  KernelOK(Attach(k, pd, d, x), dirs, T \cup {x}, extra \ {x})
<1>. DEFINE k2 == Attach(k, pd, d, x)
<1>1. /\ k \in Kernels /\ x \in Frames /\ x # NoFrame /\ pd \in Frames /\ x \notin dirs /\ x \notin T
      /\ dirs \cup (T \cup {x}) \cup (extra \ {x}) = dirs \cup T \cup extra
      /\ dirs \subseteq Frames /\ T \subseteq Frames
  BY MmuAssumption DEF KernelOK
<1>2. /\ k2 \in Kernels /\ k2.used = k.used /\ k2.owner = k.owner /\ k2.table = k.table /\ k2.directory[pd][d] = x
      /\ \A a \in Frames, c \in Dirs : a # pd \/ c # d => k2.directory[a][c] = k.directory[a][c]
  BY <1>1, AttachIs
<1>. HIDE DEF k2
<1>3. k2.table = k.table /\ k2.used = k.used /\ k2.owner = k.owner
  BY <1>2
<1>4. \A a \in dirs, c \in Dirs : k.directory[a][c] # x
  BY <1>1 DEF KernelOK
<1>5. ASSUME NEW t \in Frames
      PROVE  t \in T \cup {x} <=> \E a \in dirs, c \in Dirs : k2.directory[a][c] = t
  <2>1. t # NoFrame /\ (t \in T <=> \E a \in dirs, c \in Dirs : k.directory[a][c] = t)
    BY MmuAssumption DEF KernelOK
  <2>2. CASE t = x
    BY <1>2, <1>3, <2>2
  <2>3. CASE t # x
    <3>1. ASSUME NEW a \in dirs, NEW c \in Dirs PROVE k2.directory[a][c] = t <=> k.directory[a][c] = t
      BY <1>1, <1>2, <1>3, <2>1, <2>3
    <3>. QED
      BY <2>1, <2>3, <3>1
  <2>. QED
    BY <2>2, <2>3
<1>6. ASSUME NEW a \in dirs, NEW b \in dirs, NEW c \in Dirs, NEW e \in Dirs,
             k2.directory[a][c] = k2.directory[b][e], k2.directory[a][c] # NoFrame
      PROVE  a = b /\ c = e
  <2>1. CASE k2.directory[a][c] = x
    <3>1. \A y \in dirs, z \in Dirs : k2.directory[y][z] = x => y = pd /\ z = d
      BY <1>1, <1>2, <1>3, <1>4
    <3>2. k2.directory[b][e] = x
      BY <1>6, <2>1, Zenon
    <3>. QED
      BY <2>1, <3>1, <3>2, Zenon
  <2>2. CASE k2.directory[a][c] # x
    <3>1. k2.directory[a][c] = k.directory[a][c] /\ k2.directory[b][e] = k.directory[b][e]
      BY <1>1, <1>2, <1>3, <1>6, <2>2
    <3>2. k.directory[a][c] = k.directory[b][e] /\ k.directory[a][c] # NoFrame
      BY <1>6, <3>1, Zenon
    <3>. QED
      BY <3>2 DEF KernelOK
  <2>. QED
    BY <2>1, <2>2
<1>7. /\ \A j \in Index : k.table[x][j].base = NoFrame
      /\ NoFrame \notin dirs \cup T \cup extra
  <2>1. \A j \in Index : k.table[x][j].base = NoFrame
    BY <1>1 DEF KernelOK
  <2>2. dirs \cup T \cup extra \subseteq Frames
    BY DEF KernelOK
  <2>. QED
    BY <2>1, <2>2, MmuAssumption
<1>8. ASSUME NEW s \in T \cup {x}, NEW t \in T \cup {x}, NEW i \in Index, NEW j \in Index,
             k2.table[s][i].base = k2.table[t][j].base, k2.table[s][i].base # NoFrame
      PROVE  s = t /\ i = j
  <2>1. s \in T /\ t \in T
    BY <1>3, <1>7, <1>8
  <2>. QED
    BY <1>3, <1>8, <2>1 DEF KernelOK
<1>9. ASSUME NEW t \in T \cup {x}, NEW i \in Index
      PROVE  k2.table[t][i].base \notin dirs \cup (T \cup {x}) \cup (extra \ {x})
  <2>1. CASE t = x
    BY <1>1, <1>3, <1>7, <2>1
  <2>2. CASE t \in T
    <3>1. k.table[t][i].base \notin dirs \cup T \cup extra
      BY <2>2 DEF KernelOK
    <3>. QED
      BY <1>1, <1>3, <3>1
  <2>. QED
    BY <2>1, <2>2
<1>10. ASSUME NEW f \in Frames
       PROVE  f \in k2.used <=> \/ f \in dirs \cup (T \cup {x}) \cup (extra \ {x})
                                \/ \E t \in T \cup {x}, i \in Index : k2.table[t][i].base = f
  <2>1. f # NoFrame /\ (f \in k.used <=> \/ f \in dirs \cup T \cup extra
                                        \/ \E t \in T, i \in Index : k.table[t][i].base = f)
    BY MmuAssumption DEF KernelOK
  <2>2. (\E t \in T \cup {x}, i \in Index : k.table[t][i].base = f) <=> \E t \in T, i \in Index : k.table[t][i].base = f
    BY <1>7, <2>1
  <2>. QED
    BY <1>1, <1>3, <2>1, <2>2
<1>11. \A f \in Frames, c \in Dirs : f \notin dirs => k2.directory[f][c] = NoFrame
  BY <1>2, <1>3 DEF KernelOK
<1>12. ASSUME NEW f \in k2.used, k2.owner[f] # NoEntry
       PROVE  \E t \in T \cup {x}, i \in Index : k2.owner[f] = <<t, i>> /\ k2.table[t][i].base = f
  <2>1. PICK t \in T, i \in Index : k.owner[f] = <<t, i>> /\ k.table[t][i].base = f
    BY <1>3, <1>12 DEF KernelOK
  <2>. QED
    BY <1>3, <2>1
<1>13. /\ T \cup {x} \subseteq Frames /\ extra \ {x} \subseteq Frames /\ dirs \cap (T \cup {x}) = {}
       /\ dirs \cap (extra \ {x}) = {} /\ (T \cup {x}) \cap (extra \ {x}) = {}
  BY <1>1 DEF KernelOK
<1>14. \A f \in Frames, i \in Index : f \notin T \cup {x} => k2.table[f][i].base = NoFrame
  BY <1>3 DEF KernelOK
<1>15. KernelOK(k2, dirs, T \cup {x}, extra \ {x})
  BY <1>1, <1>2, <1>5, <1>6, <1>8, <1>9, <1>10, <1>11, <1>12, <1>13, <1>14 DEF KernelOK
<1>. QED
  BY <1>15 DEF k2

LEMMA AttachKeeps ==
  ASSUME NEW k, NEW dirs, NEW T, NEW extra, KernelOK(k, dirs, T, extra), PagesSaved(k, T),
         NEW x \in Frames, x \notin T,
         NEW k2, k2.table = k.table, k2.memory = k.memory, k2.swap = k.swap
  PROVE  /\ PagesSaved(k2, T \cup {x}) /\ SameValues(k, k2, T)
         /\ \A i \in Index : Fresh(k2, x, i) /\ Value(k2, x, i) = 0
<1>1. \A i \in Index : k.table[x][i].base = NoFrame
  BY DEF KernelOK
<1>2. \A t \in Frames \ T, i \in Index : Fresh(k2, t, i)
  <2>1. \A t \in Frames \ T, i \in Index : Fresh(k, t, i)
    BY DEF PagesSaved
  <2>2. \A t, i : Fresh(k, t, i) => Fresh(k2, t, i)
    BY DEF Fresh
  <2>. QED
    BY <2>1, <2>2
<1>3. \A i \in Index : Fresh(k2, x, i) /\ Value(k2, x, i) = 0
  BY <1>1, <1>2 DEF Fresh, Value, Saved
<1>4. SameValues(k, k2, T)
  BY DEF SameValues, Value, Saved
<1>5. \A f \in Frames : k2.memory[f] # 0 => \E t \in T \cup {x}, i \in Index : k2.table[t][i].base = f
  BY DEF PagesSaved
<1>6. \A t \in T \cup {x}, i \in Index : k2.table[t][i].base # NoFrame /\ ~k2.table[t][i].dirty =>
        k2.memory[k2.table[t][i].base] = Saved(k2, t, i)
  BY <1>1 DEF PagesSaved, Saved
<1>. QED
  BY <1>2, <1>3, <1>4, <1>5, <1>6 DEF PagesSaved

\* What is in the pages, and which are dirty, is the kernel's own business.
LEMMA ContentsOK ==
  ASSUME NEW k, NEW k2 \in Kernels, NEW dirs, NEW T, NEW extra, KernelOK(k, dirs, T, extra),
         k2.used = k.used, k2.owner = k.owner, k2.directory = k.directory,
         \A t \in Frames, i \in Index : k2.table[t][i].base = k.table[t][i].base
  PROVE  KernelOK(k2, dirs, T, extra)
<1>1. T \subseteq Frames
  BY DEF KernelOK
<1>2. \A s, t \in T, i, j \in Index :
         k2.table[s][i].base = k2.table[t][j].base /\ k2.table[s][i].base # NoFrame => s = t /\ i = j
  <2>. SUFFICES ASSUME NEW s \in T, NEW t \in T, NEW i \in Index, NEW j \in Index,
                       k2.table[s][i].base = k2.table[t][j].base, k2.table[s][i].base # NoFrame
                PROVE  s = t /\ i = j
    OBVIOUS
  <2>1. k.table[s][i].base = k.table[t][j].base /\ k.table[s][i].base # NoFrame
    BY <1>1
  <2>. QED
    BY <2>1 DEF KernelOK
<1>3. \A t \in T, i \in Index : k2.table[t][i].base \notin dirs \cup T \cup extra
  BY <1>1 DEF KernelOK
<1>4. \A f \in Frames : f \in k2.used <=> \/ f \in dirs \cup T \cup extra
                                         \/ \E t \in T, i \in Index : k2.table[t][i].base = f
  BY <1>1 DEF KernelOK
<1>5. \A f \in k2.used : k2.owner[f] # NoEntry =>
        \E t \in T, i \in Index : k2.owner[f] = <<t, i>> /\ k2.table[t][i].base = f
  BY <1>1 DEF KernelOK
<1>6. \A f \in Frames, i \in Index : f \notin T => k2.table[f][i].base = NoFrame
  BY DEF KernelOK
<1>. QED
  BY <1>2, <1>3, <1>4, <1>5, <1>6 DEF KernelOK

LEMMA TablesAre ==
  ASSUME NEW k, NEW dirs, NEW T, NEW extra, KernelOK(k, dirs, T, extra), NEW a \in dirs, NEW d \in Dirs
  PROVE  k.directory[a][d] \in T \cup {NoFrame}
<1>1. k.directory[a][d] \in Frame0
  BY DEF KernelOK, Kernels
<1>. QED
  BY <1>1 DEF KernelOK, Frame0

\* The pages of the directories in dirs keep what they hold when their tables do,
\* and a new table is clear.
LEMMA ContentsKept ==
  ASSUME NEW k, NEW k2, NEW dirs, NEW T, SameValues(k, k2, T), NoFrame \notin T,
         \A a \in dirs, d \in Dirs :
            \/ k.directory[a][d] \in T \cup {NoFrame} /\ k2.directory[a][d] = k.directory[a][d]
            \/ k.directory[a][d] = NoFrame /\ \A i \in Index : Value(k2, k2.directory[a][d], i) = 0
  PROVE  SameContents(k, k2, dirs)
<1>. SUFFICES ASSUME NEW a \in dirs, NEW d \in Dirs, NEW i \in Index
              PROVE  Content(k2, a, d, i) = Content(k, a, d, i)
  BY DEF SameContents
<1>1. CASE k2.directory[a][d] = k.directory[a][d] /\ k.directory[a][d] \in T
  BY <1>1 DEF Content, SameValues
<1>2. CASE k2.directory[a][d] = k.directory[a][d] /\ k.directory[a][d] = NoFrame
  BY <1>2 DEF Content
<1>3. CASE k.directory[a][d] = NoFrame /\ Value(k2, k2.directory[a][d], i) = 0
  BY <1>3 DEF Content
<1>. QED
  BY <1>1, <1>2, <1>3

\* The frames that a process gives back when it goes.
Back(k, pd) == {pd} \cup Tables(k, pd) \cup Pages(k, pd)

LEMMA RemovedIs ==
  ASSUME NEW k \in Kernels, NEW pd \in Frames
  PROVE  /\ Removed(k, pd) \in Kernels /\ Removed(k, pd).used = k.used \ Back(k, pd)
         /\ \A f \in Frames : f \notin Back(k, pd) =>
               /\ Removed(k, pd).owner[f] = k.owner[f] /\ Removed(k, pd).directory[f] = k.directory[f]
               /\ Removed(k, pd).table[f] = k.table[f] /\ Removed(k, pd).memory[f] = k.memory[f]
         /\ \A f \in Frames : f \in Back(k, pd) =>
               /\ Removed(k, pd).directory[f] = NoTables /\ Removed(k, pd).table[f] = NoPages
               /\ Removed(k, pd).memory[f] = 0
         /\ Removed(k, pd).swap = [e \in Entries |-> IF e \in EntriesOf(k, pd) THEN NoPage ELSE k.swap[e]]
<1>. DEFINE back == Back(k, pd)
            swap == [e \in Entries |-> IF e \in EntriesOf(k, pd) THEN NoPage ELSE k.swap[e]]
            owner == [f \in Frames |-> IF f \in back THEN NoEntry ELSE k.owner[f]]
            directory == [f \in Frames |-> IF f \in back THEN NoTables ELSE k.directory[f]]
            table == [f \in Frames |-> IF f \in back THEN NoPages ELSE k.table[f]]
            memory == [f \in Frames |-> IF f \in back THEN 0 ELSE k.memory[f]]
            k1 == Returned(k, back)
            k2 == Removed(k, pd)
<1>1. /\ pd # NoFrame
      /\ k.used \subseteq Frames /\ k.owner \in [Frames -> Entries \cup {NoEntry}]
      /\ k.directory \in [Frames -> [Dirs -> Frame0]] /\ k.table \in [Frames -> [Index -> Ptes]]
      /\ k.memory \in [Frames -> Bytes] /\ k.swap \in [Entries -> Bytes \cup {NoPage}]
  BY MmuAssumption DEF Kernels
<1>2. NoTables \in [Dirs -> Frame0] /\ NoPages \in [Index -> Ptes]
  BY DEF NoTables, NoPages, Frame0, Ptes
<1>3. k2 = [k1 EXCEPT !.swap = swap]
  <2>1. k1.swap = k.swap
    BY DEF Returned, Kernels
  <2>. QED
    BY <1>1, <2>1 DEF Removed, Back
<1>4. k1 = [k EXCEPT !.used = k.used \ back, !.owner = owner, !.directory = directory, !.table = table, !.memory = memory]
  BY Zenon DEF Returned
<1>5. owner \in [Frames -> Entries \cup {NoEntry}]
  BY <1>1
<1>6. directory \in [Frames -> [Dirs -> Frame0]] /\ table \in [Frames -> [Index -> Ptes]]
  BY <1>1, <1>2
<1>7. memory \in [Frames -> Bytes]
  BY <1>1 DEF Bytes
<1>8. swap \in [Entries -> Bytes \cup {NoPage}]
  BY <1>1
<1>. HIDE DEF back, k1, owner, directory, table, memory, swap
<1>9. /\ k1.used = k.used \ back /\ k1.owner = owner /\ k1.directory = directory /\ k1.table = table
      /\ k1.memory = memory /\ k1 \in Kernels
  BY <1>1, <1>4, <1>5, <1>6, <1>7 DEF Kernels
<1>10. /\ k2 \in Kernels /\ k2.used = k.used \ back /\ k2.owner = owner /\ k2.directory = directory
       /\ k2.table = table /\ k2.memory = memory /\ k2.swap = swap
  BY <1>3, <1>8, <1>9 DEF Kernels
<1>. HIDE DEF k2
<1>11. \A f \in Frames : f \notin back =>
          k2.owner[f] = k.owner[f] /\ k2.directory[f] = k.directory[f] /\ k2.table[f] = k.table[f] /\ k2.memory[f] = k.memory[f]
  BY <1>10 DEF owner, directory, table, memory
<1>12. \A f \in Frames : f \in back => k2.directory[f] = NoTables /\ k2.table[f] = NoPages /\ k2.memory[f] = 0
  BY <1>10 DEF directory, table, memory
<1>. QED
  BY <1>10, <1>11, <1>12, Zenon DEF k2, back, swap

\* A process that goes gives back its directory, its tables and its pages, and
\* nothing of another process.
LEMMA RemovedOK ==
  ASSUME NEW k, NEW dirs, NEW T, KernelOK(k, dirs, T, {}), PagesSaved(k, T), NEW pd \in dirs
  PROVE  /\ KernelOK(Removed(k, pd), dirs \ {pd}, T \ Tables(k, pd), {})
         /\ PagesSaved(Removed(k, pd), T \ Tables(k, pd))
         /\ \A a \in dirs \ {pd} : Removed(k, pd).directory[a] = k.directory[a]
         /\ SameContents(k, Removed(k, pd), dirs \ {pd})
<1>. DEFINE G == Tables(k, pd)
            P == Pages(k, pd)
            back == Back(k, pd)
            k2 == Removed(k, pd)
<1>1. /\ k \in Kernels /\ pd \in Frames /\ pd # NoFrame /\ dirs \subseteq Frames /\ T \subseteq Frames
      /\ NoFrame \notin Frames
      /\ k.used \subseteq Frames /\ k.owner \in [Frames -> Entries \cup {NoEntry}]
      /\ k.directory \in [Frames -> [Dirs -> Frame0]] /\ k.table \in [Frames -> [Index -> Ptes]]
      /\ k.memory \in [Frames -> Bytes] /\ k.swap \in [Entries -> Bytes \cup {NoPage}]
  BY MmuAssumption DEF KernelOK, Kernels
<1>2. \A t \in G : t \in T
  <2>1. \A d \in Dirs : k.directory[pd][d] \in Frame0
    BY <1>1
  <2>. QED
    BY <2>1 DEF Tables, Frame0, KernelOK
<1>3. \A f \in P : \E t \in G, i \in Index : k.table[t][i].base = f /\ f # NoFrame
  BY DEF Pages, EntriesOf, Pte
<1>4. \A t \in G, i \in Index : k.table[t][i].base = NoFrame \/ k.table[t][i].base \in P
  <2>. SUFFICES ASSUME NEW t \in G, NEW i \in Index PROVE k.table[t][i].base = NoFrame \/ k.table[t][i].base \in P
    OBVIOUS
  <2>1. <<t, i>> \in EntriesOf(k, pd) /\ Pte(k, <<t, i>>) = k.table[t][i]
    BY DEF EntriesOf, Pte
  <2>. QED
    BY <2>1 DEF Pages
<1>5. \A t \in Frames : t \in T \ G <=> \E a \in dirs \ {pd}, d \in Dirs : k.directory[a][d] = t
  <2>. SUFFICES ASSUME NEW t \in Frames PROVE t \in T \ G <=> \E a \in dirs \ {pd}, d \in Dirs : k.directory[a][d] = t
    OBVIOUS
  <2>1. t # NoFrame
    BY <1>1
  <2>2. t \in G <=> \E d \in Dirs : k.directory[pd][d] = t
    BY <2>1 DEF Tables
  <2>3. t \in T <=> \E a \in dirs, d \in Dirs : k.directory[a][d] = t
    BY DEF KernelOK
  <2>4. ASSUME NEW a \in dirs, NEW d \in Dirs, k.directory[a][d] = t, t \in G PROVE a = pd
    <3>1. PICK c \in Dirs : k.directory[pd][c] = t
      BY <2>2, <2>4
    <3>2. k.directory[a][d] = k.directory[pd][c] /\ k.directory[a][d] # NoFrame
      BY <2>1, <2>4, <3>1
    <3>. QED
      BY <3>2 DEF KernelOK
  <2>. QED
    BY <2>2, <2>3, <2>4
<1>6. \A f \in P : f \in Frames /\ f \notin dirs /\ f \notin T
  <2>. SUFFICES ASSUME NEW f \in P PROVE f \in Frames /\ f \notin dirs /\ f \notin T
    OBVIOUS
  <2>1. PICK t \in T, i \in Index : k.table[t][i].base = f /\ f # NoFrame
    BY <1>2, <1>3
  <2>2. t \in Frames /\ k.table[t][i] \in Ptes
    BY <1>1
  <2>3. f \in Frames
    BY <2>1, <2>2 DEF Ptes, Frame0
  <2>4. k.table[t][i].base \notin dirs \cup T \cup {}
    BY DEF KernelOK
  <2>. QED
    BY <2>1, <2>3, <2>4
<1>7. (\A f \in dirs \ {pd} : f \in Frames /\ f \notin back) /\ (\A t \in T \ G : t \in Frames /\ t \notin back)
  BY <1>1, <1>2, <1>6 DEF KernelOK, Back
<1>8. (\A d \in Dirs : NoTables[d] = NoFrame) /\ (\A i \in Index : NoPages[i].base = NoFrame /\ ~NoPages[i].dirty)
  BY DEF NoTables, NoPages
<1>9. back = {pd} \cup G \cup P
  BY DEF Back
<1>91. k \in Kernels /\ pd \in Frames
  BY <1>1
<1>92. /\ k2 \in Kernels /\ k2.used = k.used \ back
       /\ \A f \in Frames : f \notin back => /\ k2.owner[f] = k.owner[f] /\ k2.directory[f] = k.directory[f]
                                             /\ k2.table[f] = k.table[f] /\ k2.memory[f] = k.memory[f]
       /\ \A f \in Frames : f \in back => /\ k2.directory[f] = NoTables /\ k2.table[f] = NoPages
                                          /\ k2.memory[f] = 0
       /\ k2.swap = [e \in Entries |-> IF e \in EntriesOf(k, pd) THEN NoPage ELSE k.swap[e]]
  BY <1>91, RemovedIs, Zenon
<1>. HIDE DEF G, P, back, k2
<1>10. k2.swap = [e \in Entries |-> IF e \in EntriesOf(k, pd) THEN NoPage ELSE k.swap[e]]
  BY <1>92
<1>11. \A f \in Frames : IF f \in back THEN k2.memory[f] = 0 ELSE k2.memory[f] = k.memory[f]
  BY <1>92
<1>12. /\ k2.used = k.used \ back
       /\ \A f \in Frames : f \notin back => /\ k2.owner[f] = k.owner[f] /\ k2.directory[f] = k.directory[f]
                                             /\ k2.table[f] = k.table[f]
       /\ \A f \in back \cap Frames : k2.directory[f] = NoTables /\ k2.table[f] = NoPages
       /\ k2 \in Kernels
  BY <1>92
<1>13. \A t \in Frames : t \in T \ G <=> \E a \in dirs \ {pd}, d \in Dirs : k2.directory[a][d] = t
  BY <1>5, <1>7, <1>12
<1>14. ASSUME NEW a \in dirs \ {pd}, NEW b \in dirs \ {pd}, NEW c \in Dirs, NEW d \in Dirs,
              k2.directory[a][c] = k2.directory[b][d], k2.directory[a][c] # NoFrame
       PROVE  a = b /\ c = d
  <2>1. k.directory[a][c] = k.directory[b][d] /\ k.directory[a][c] # NoFrame
    BY <1>7, <1>12, <1>14
  <2>. QED
    BY <2>1 DEF KernelOK
<1>15. ASSUME NEW s \in T \ G, NEW t \in T \ G, NEW i \in Index, NEW j \in Index,
              k2.table[s][i].base = k2.table[t][j].base, k2.table[s][i].base # NoFrame
       PROVE  s = t /\ i = j
  <2>1. k.table[s][i].base = k.table[t][j].base /\ k.table[s][i].base # NoFrame
    BY <1>7, <1>12, <1>15
  <2>. QED
    BY <2>1 DEF KernelOK
<1>16. ASSUME NEW t \in T \ G, NEW i \in Index
       PROVE  k2.table[t][i].base \notin (dirs \ {pd}) \cup (T \ G) \cup {}
  <2>1. k2.table[t][i] = k.table[t][i]
    BY <1>7, <1>12
  <2>2. k.table[t][i].base \notin dirs \cup T \cup {}
    BY DEF KernelOK
  <2>. QED
    BY <2>1, <2>2
<1>17. ASSUME NEW f \in Frames
       PROVE  f \in k2.used <=> \/ f \in (dirs \ {pd}) \cup (T \ G) \cup {}
                                \/ \E t \in T \ G, i \in Index : k2.table[t][i].base = f
  <2>1. f # NoFrame /\ (f \in k.used <=> \/ f \in dirs \cup T \cup {}
                                        \/ \E t \in T, i \in Index : k.table[t][i].base = f)
    BY <1>1 DEF KernelOK
  <2>2. \A t \in T \ G, i \in Index : k2.table[t][i].base = k.table[t][i].base
    BY <1>7, <1>12
  <2>3. ASSUME f \in k.used, f \notin back
        PROVE  \/ f \in (dirs \ {pd}) \cup (T \ G) \cup {}
               \/ \E t \in T \ G, i \in Index : k2.table[t][i].base = f
    <3>1. CASE f \in dirs \cup T
      BY <2>3, <3>1, <1>9
    <3>2. ASSUME NEW t \in T, NEW i \in Index, k.table[t][i].base = f
          PROVE  \E s \in T \ G, j \in Index : k2.table[s][j].base = f
      <4>1. t \notin G
        BY <1>4, <2>1, <2>3, <3>2, <1>9
      <4>. QED
        BY <2>2, <3>2, <4>1
    <3>. QED
      BY <2>1, <2>3, <3>1, <3>2
  <2>4. ASSUME NEW t \in T \ G, NEW i \in Index, k2.table[t][i].base = f
        PROVE  f \in k.used /\ f \notin back
    <3>1. k.table[t][i].base = f
      BY <2>2, <2>4
    <3>2. k.table[t][i].base \notin dirs \cup T \cup {}
      BY DEF KernelOK
    <3>3. f \notin P
      <4>. SUFFICES ASSUME f \in P PROVE FALSE
        OBVIOUS
      <4>1. PICK s \in G, j \in Index : k.table[s][j].base = f
        BY <1>3
      <4>2. k.table[s][j].base = k.table[t][i].base /\ k.table[s][j].base # NoFrame /\ s \in T
        BY <1>2, <2>1, <3>1, <4>1
      <4>3. s = t
        BY <4>2 DEF KernelOK
      <4>. QED
        BY <4>3
    <3>. QED
      BY <1>2, <2>1, <3>1, <3>2, <3>3, <1>9
  <2>5. ASSUME f \in (dirs \ {pd}) \cup (T \ G) PROVE f \in k.used /\ f \notin back
    BY <1>7, <2>1, <2>5
  <2>. QED
    BY <1>12, <2>3, <2>4, <2>5
<1>18. ASSUME NEW f \in Frames, NEW d \in Dirs, f \notin dirs \ {pd} PROVE k2.directory[f][d] = NoFrame
  <2>1. CASE f \in back
    BY <1>8, <1>12, <2>1
  <2>2. CASE f \notin back
    <3>1. f \notin dirs
      BY <1>9, <1>18, <2>2
    <3>. QED
      BY <1>12, <2>2, <3>1 DEF KernelOK
  <2>. QED
    BY <2>1, <2>2
<1>19. ASSUME NEW f \in Frames, NEW i \in Index, f \notin T \ G PROVE k2.table[f][i].base = NoFrame
  <2>1. CASE f \in back
    BY <1>8, <1>12, <2>1
  <2>2. CASE f \notin back
    <3>1. f \notin T
      BY <1>19, <2>2, <1>9
    <3>. QED
      BY <1>12, <2>2, <3>1 DEF KernelOK
  <2>. QED
    BY <2>1, <2>2
<1>20. ASSUME NEW f \in k2.used, k2.owner[f] # NoEntry
       PROVE  \E t \in T \ G, i \in Index : k2.owner[f] = <<t, i>> /\ k2.table[t][i].base = f
  <2>1. f \in k.used /\ f \in Frames /\ f # NoFrame /\ f \notin back /\ k2.owner[f] = k.owner[f]
    BY <1>1, <1>12
  <2>2. PICK t \in T, i \in Index : k.owner[f] = <<t, i>> /\ k.table[t][i].base = f
    BY <1>20, <2>1 DEF KernelOK
  <2>3. t \notin G
    BY <1>4, <2>1, <2>2, <1>9
  <2>4. k2.table[t] = k.table[t]
    BY <1>7, <1>12, <2>2, <2>3
  <2>. QED
    BY <2>1, <2>2, <2>3, <2>4
<1>21. /\ dirs \ {pd} \subseteq Frames /\ T \ G \subseteq Frames /\ {} \subseteq Frames
       /\ (dirs \ {pd}) \cap (T \ G) = {} /\ (dirs \ {pd}) \cap {} = {} /\ (T \ G) \cap {} = {}
  BY <1>1 DEF KernelOK
<1>22. KernelOK(k2, dirs \ {pd}, T \ G, {})
  BY <1>12, <1>13, <1>14, <1>15, <1>16, <1>17, <1>18, <1>19, <1>20, <1>21 DEF KernelOK
<1>23. ASSUME NEW t \in T \ G, NEW i \in Index
       PROVE  /\ k2.table[t][i] = k.table[t][i] /\ k2.swap[<<t, i>>] = k.swap[<<t, i>>]
              /\ k.table[t][i].base # NoFrame =>
                    k2.memory[k.table[t][i].base] = k.memory[k.table[t][i].base]
  <2>1. t \in Frames /\ t \notin back /\ <<t, i>> \in Entries /\ <<t, i>> \notin EntriesOf(k, pd)
    BY <1>7 DEF Entries, EntriesOf, G
  <2>2. k2.table[t][i] = k.table[t][i] /\ k2.swap[<<t, i>>] = k.swap[<<t, i>>]
    BY <1>10, <1>12, <2>1
  <2>3. ASSUME k.table[t][i].base # NoFrame PROVE k2.memory[k.table[t][i].base] = k.memory[k.table[t][i].base]
    <3>. DEFINE f == k.table[t][i].base
    <3>1. k.table[t][i] \in Ptes
      BY <1>1, <2>1
    <3>2. f \in Frames
      BY <2>3, <3>1 DEF Ptes, Frame0
    <3>3. f \in k2.used
      BY <1>17, <2>2, <3>2
    <3>. HIDE DEF f
    <3>4. k2.memory[f] = k.memory[f]
      BY <1>11, <1>12, <3>2, <3>3
    <3>. QED
      BY <3>4 DEF f
  <2>. QED
    BY <2>2, <2>3
<1>24. SameValues(k, k2, T \ G)
  <2>. SUFFICES ASSUME NEW t \in T \ G, NEW i \in Index PROVE Value(k2, t, i) = Value(k, t, i)
    BY DEF SameValues
  <2>. QED
    BY <1>23 DEF Value, Saved
<1>25. PagesSaved(k2, T \ G)
  <2>1. ASSUME NEW f \in Frames, k2.memory[f] # 0 PROVE \E t \in T \ G, i \in Index : k2.table[t][i].base = f
    <3>1. f \notin back /\ k.memory[f] # 0
      BY <1>11, <2>1
    <3>2. PICK t \in T, i \in Index : k.table[t][i].base = f
      BY <3>1 DEF PagesSaved
    <3>3. t \notin G
      BY <1>1, <1>4, <1>9, <3>1, <3>2
    <3>. QED
      BY <1>23, <3>2, <3>3
  <2>2. ASSUME NEW t \in T \ G, NEW i \in Index, k2.table[t][i].base # NoFrame, ~k2.table[t][i].dirty
        PROVE  k2.memory[k2.table[t][i].base] = Saved(k2, t, i)
    <3>1. k.table[t][i].base # NoFrame /\ ~k.table[t][i].dirty
      BY <1>23, <2>2
    <3>2. k.memory[k.table[t][i].base] = Saved(k, t, i)
      BY <3>1 DEF PagesSaved
    <3>. QED
      BY <1>23, <3>1, <3>2 DEF Saved
  <2>3. ASSUME NEW t \in Frames \ (T \ G), NEW i \in Index PROVE Fresh(k2, t, i)
    <3>1. CASE t \in G
      <4>1. t \in back /\ <<t, i>> \in Entries /\ <<t, i>> \in EntriesOf(k, pd)
        BY <1>9, <3>1 DEF Entries, EntriesOf, G
      <4>. QED
        BY <1>8, <1>10, <1>12, <4>1 DEF Fresh
    <3>2. CASE t \notin T
      <4>1. Fresh(k, t, i) /\ <<t, i>> \in Entries
        BY <2>3, <3>2 DEF PagesSaved, Entries
      <4>2. k2.swap[<<t, i>>] = NoPage
        BY <1>10, <4>1 DEF Fresh
      <4>3. ~k2.table[t][i].dirty
        BY <1>8, <1>12, <4>1 DEF Fresh
      <4>. QED
        BY <4>2, <4>3 DEF Fresh
    <3>. QED
      BY <2>3, <3>1, <3>2
  <2>. QED
    BY <2>1, <2>2, <2>3 DEF PagesSaved
<1>26. SameContents(k, k2, dirs \ {pd})
  <2>. DEFINE rest == dirs \ {pd}
              U == T \ G
              none == {}
  <2>1. KernelOK(k2, rest, U, none) /\ NoFrame \notin U /\ SameValues(k, k2, U)
    BY <1>1, <1>22, <1>24
  <2>2. \A a \in rest : k2.directory[a] = k.directory[a]
    BY <1>7, <1>12
  <2>. HIDE DEF rest, U, none
  <2>3. \A a \in rest, d \in Dirs : k2.directory[a][d] \in U \cup {NoFrame}
    BY <2>1, TablesAre
  <2>4. SameContents(k, k2, rest)
    BY <2>1, <2>2, <2>3, ContentsKept
  <2>. QED
    BY <2>4 DEF rest
<1>. QED
  BY <1>7, <1>12, <1>22, <1>25, <1>26 DEF k2, G

\* The pages that a new process is given, one after the other.
LEMMA TestingOK ==
  ASSUME NEW k0, NEW dirs, NEW T, KernelOK(k0, dirs, T, {}), NEW t \in T,
         \A j \in 1..Testing : k0.table[t][j].base = NoFrame,
         PagesSaved(k0, T), \A i \in Index : Fresh(k0, t, i),
         NEW k \in WithTestingPages(k0, t)
  PROVE  /\ KernelOK(k, dirs, T, {}) /\ k.directory = k0.directory
         /\ PagesSaved(k, T) /\ SameValues(k0, k, T)
<1>. DEFINE After(X, i) == UNION {PageFor(j, <<t, i>>) : j \in X}
            Solves(f, n) == f = [i \in 0..n |-> IF i = 0 THEN {k0} ELSE After(f[i - 1], i)]
            steps == CHOOSE f : Solves(f, Testing)
            Good(x, i) == /\ KernelOK(x, dirs, T, {}) /\ x.directory = k0.directory
                          /\ \A j \in (i + 1)..Testing : x.table[t][j].base = NoFrame
                          /\ PagesSaved(x, T) /\ SameValues(k0, x, T) /\ \A j \in Index : Fresh(x, t, j)
<1>1. k \in steps[Testing]
  BY Zenon DEF WithTestingPages
<1>2. Testing \in Nat /\ \A i \in 1..Testing : i \in Index
  BY MmuAssumption
<1>. HIDE DEF steps, After
<1>3. ASSUME NEW n \in 1..Testing, NEW f, Solves(f, n - 1)
      PROVE  \E g : Solves(g, n)
  <2>. DEFINE g == [i \in 0..n |-> IF i = n THEN After(f[n - 1], n) ELSE f[i]]
  <2>1. \A i \in 0..(n - 1) : f[i] = IF i = 0 THEN {k0} ELSE After(f[i - 1], i)
    BY <1>3
  <2>2. \A i \in 0..n : g[i] = IF i = 0 THEN {k0} ELSE After(g[i - 1], i)
    <3>. TAKE i \in 0..n
    <3>1. CASE i = n
      <4>1. n # 0 /\ n \in 0..n /\ n - 1 \in 0..n /\ n - 1 # n
        BY <1>2
      <4>2. g[n] = After(f[n - 1], n) /\ g[n - 1] = f[n - 1]
        BY <4>1
      <4>. QED
        BY <3>1, <4>1, <4>2
    <3>2. CASE i # n /\ i # 0
      <4>1. i \in 0..(n - 1) /\ i - 1 \in 0..n /\ i - 1 # n
        BY <1>2, <3>2
      <4>. QED
        BY <2>1, <3>2, <4>1
    <3>3. CASE i # n /\ i = 0
      BY <1>2, <2>1, <3>3
    <3>. QED
      BY <3>1, <3>2, <3>3
  <2>3. g = [i \in 0..n |-> g[i]]
    OBVIOUS
  <2>. HIDE DEF g
  <2>4. Solves(g, n)
    BY <2>2, <2>3
  <2>. QED
    BY <2>4
<1>4. \E f : Solves(f, Testing)
  <2>. DEFINE P(n) == \E f : Solves(f, n)
              S == {n \in 0..Testing : P(n)}
  <2>1. Solves([i \in 0..0 |-> {k0}], 0)
    OBVIOUS
  <2>2. P(0) /\ \A n \in 1..Testing : P(n - 1) => P(n)
    <3>. HIDE DEF Solves
    <3>. QED
      BY <1>3, <2>1
  <2>. HIDE DEF P
  <2>3. 0 \in S /\ \A n \in 1..Testing : n - 1 \in S => n \in S
    BY <1>2, <2>2
  <2>4. Testing \in S
    <3>. HIDE DEF S
    <3>. QED
      BY <1>2, <2>3, UpTo
  <2>. QED
    BY <2>4 DEF P
<1>5. Solves(steps, Testing)
  <2>. HIDE DEF Solves
  <2>. QED
    BY <1>4 DEF steps
<1>6. steps[0] = {k0} /\ \A i \in 1..Testing : steps[i] = After(steps[i - 1], i)
  <2>1. \A i \in 0..Testing : steps[i] = IF i = 0 THEN {k0} ELSE After(steps[i - 1], i)
    BY <1>5
  <2>. HIDE DEF Solves
  <2>. QED
    BY <1>2, <2>1
<1>7. ASSUME NEW i \in 1..Testing, NEW x, Good(x, i - 1), NEW y \in PageFor(x, <<t, i>>)
      PROVE  Good(y, i)
  <2>1. i \in Index /\ t \in Frames /\ <<t, i>> \in Entries /\ T \subseteq Frames
    BY <1>2 DEF KernelOK, Entries
  <2>2. PICK a \in AskKernelForFrame(x, <<t, i>>) : y = Map(a.k, <<t, i>>, a.frame)
    BY DEF PageFor
  <2>4. x.table[t][i].base = NoFrame
    BY <1>2, <1>7
  <2>6. /\ KernelOK(y, dirs, T, {}) /\ y.directory = x.directory
        /\ \A s \in Frames, j \in Index : s # t \/ j # i =>
              y.table[s][j].base = IF x.table[s][j].base = a.frame THEN NoFrame ELSE x.table[s][j].base
    <3>. DEFINE e == <<t, i>>
                none == {}
    <3>1. KernelOK(x, dirs, T, none) /\ e \in Entries \cup {NoEntry} /\ (e = <<t, i>> \/ e = NoEntry) /\ i \in Index
      BY <1>7, <2>1
    <3>2. a \in AskKernelForFrame(x, e) /\ y = Map(a.k, <<t, i>>, a.frame)
      BY <2>2
    <3>. HIDE DEF e, none
    <3>3. /\ KernelOK(Map(a.k, <<t, i>>, a.frame), dirs, T, none)
          /\ Map(a.k, <<t, i>>, a.frame).directory = x.directory
          /\ \A s \in Frames, j \in Index : s # t \/ j # i =>
                Map(a.k, <<t, i>>, a.frame).table[s][j].base =
                   IF x.table[s][j].base = a.frame THEN NoFrame ELSE x.table[s][j].base
      BY <2>4, <3>1, <3>2, PageForOK
    <3>. QED
      BY <3>2, <3>3, Zenon DEF none
  <2>7. ASSUME NEW j \in (i + 1)..Testing PROVE y.table[t][j].base = NoFrame
    <3>1. j \in Index /\ j # i /\ j \in ((i - 1) + 1)..Testing
      BY <1>2
    <3>2. x.table[t][j].base = NoFrame
      BY <1>7, <3>1
    <3>. QED
      BY <2>1, <2>6, <3>1, <3>2
  <2>8. PagesSaved(y, T) /\ SameValues(x, y, T) /\ \A s \in Frames, j \in Index : Fresh(x, s, j) => Fresh(y, s, j)
    <3>. DEFINE e == <<t, i>>
                none == {}
    <3>1. KernelOK(x, dirs, T, none) /\ PagesSaved(x, T) /\ Fresh(x, t, i) /\ e \in Entries \cup {NoEntry} /\ i \in Index
      BY <1>7, <2>1
    <3>2. a \in AskKernelForFrame(x, e) /\ y = Map(a.k, <<t, i>>, a.frame)
      BY <2>2
    <3>. HIDE DEF e, none
    <3>. QED
      BY <2>4, <3>1, <3>2, MapKeeps
  <2>9. SameValues(k0, y, T) /\ \A j \in Index : Fresh(y, t, j)
    BY <1>7, <2>1, <2>8 DEF SameValues
  <2>. QED
    BY <1>7, <2>6, <2>7, <2>8, <2>9
<1>8. Good(k0, 0)
  BY <1>2 DEF SameValues
<1>. DEFINE S == {i \in 0..Testing : \A x \in steps[i] : Good(x, i)}
<1>. HIDE DEF Good
<1>9. 0 \in S
  BY <1>2, <1>6, <1>8
<1>10. \A i \in 1..Testing : i - 1 \in S => i \in S
  <2>. SUFFICES ASSUME NEW i \in 1..Testing, \A x \in steps[i - 1] : Good(x, i - 1), NEW y \in steps[i]
                PROVE  Good(y, i)
    BY <1>2
  <2>1. PICK x \in steps[i - 1] : y \in PageFor(x, <<t, i>>)
    BY <1>6 DEF After
  <2>. QED
    BY <1>7, <2>1
<1>11. Testing \in S
  <2>. HIDE DEF S
  <2>. QED
    BY <1>2, <1>9, <1>10, UpTo
<1>. QED
  BY <1>1, <1>11 DEF Good

\* A table for a place of a directory that has none.
LEMMA TabledOK ==
  ASSUME NEW k0, NEW dirs, NEW T, KernelOK(k0, dirs, T, {}), PagesSaved(k0, T), NEW pd \in dirs, NEW d \in Dirs,
         NEW k \in Tabled(k0, pd, d)
  PROVE  /\ \E T2 : KernelOK(k, dirs, T2, {}) /\ PagesSaved(k, T2)
         /\ SameContents(k0, k, dirs)
         /\ k.directory[pd][d] # NoFrame
         /\ \A a \in Frames, c \in Dirs : k0.directory[a][c] # NoFrame => k.directory[a][c] = k0.directory[a][c]
<1>1. CASE k0.directory[pd][d] # NoFrame
  BY <1>1 DEF Tabled, SameContents
<1>2. CASE k0.directory[pd][d] = NoFrame
  <2>1. PICK a \in AskKernelForFrame(k0, NoEntry) : k = Attach(a.k, pd, d, a.frame)
    BY <1>2 DEF Tabled
  <2>2. Asked(k0, a.k, a.frame, NoEntry) /\ a.frame \notin dirs \cup T \cup {}
    BY AskOK
  <2>3. KernelOK(a.k, dirs, T, {} \cup {a.frame})
    BY <2>2, HeldOK
  <2>4. a.k.directory = k0.directory /\ a.frame \in Frames /\ a.frame # NoFrame
    BY <2>2, MmuAssumption DEF Asked
  <2>5. /\ KernelOK(k, dirs, T \cup {a.frame}, ({} \cup {a.frame}) \ {a.frame})
        /\ k.directory[pd][d] = a.frame
        /\ \A b \in Frames, c \in Dirs : b # pd \/ c # d => k.directory[b][c] = a.k.directory[b][c]
    <3>. DEFINE k2 == a.k
                f == a.frame
                held == {} \cup {f}
    <3>1. pd \in dirs /\ d \in Dirs /\ KernelOK(k2, dirs, T, held) /\ f \in held /\ k2.directory[pd][d] = NoFrame /\ k = Attach(k2, pd, d, f)
      BY <1>2, <2>1, <2>3, <2>4
    <3>. HIDE DEF k2, f, held
    <3>2. KernelOK(Attach(k2, pd, d, f), dirs, T \cup {f}, held \ {f})
      BY <3>1, TableOK
    <3>3. k2 \in Kernels /\ pd \in Frames /\ f \in Frames
      BY <2>4, <3>1 DEF KernelOK, f
    <3>4. /\ k.directory[pd][d] = f
          /\ \A b \in Frames, c \in Dirs : b # pd \/ c # d => k.directory[b][c] = k2.directory[b][c]
      <4>1. /\ Attach(k2, pd, d, f).directory[pd][d] = f
            /\ \A b \in Frames, c \in Dirs : b # pd \/ c # d => Attach(k2, pd, d, f).directory[b][c] = k2.directory[b][c]
        BY <3>3, AttachIs
      <4>2. k = Attach(k2, pd, d, f)
        BY <3>1
      <4>. QED
        BY <4>1, <4>2, Zenon
    <3>5. KernelOK(k, dirs, T \cup {f}, held \ {f})
      BY <3>1, <3>2, Zenon
    <3>. QED
      BY <3>4, <3>5, Zenon DEF k2, f, held
  <2>6. ({} \cup {a.frame}) \ {a.frame} = {}
    OBVIOUS
  <2>7. KernelOK(k, dirs, T \cup {a.frame}, {})
    BY <2>5, <2>6
  <2>8. PagesSaved(k, T \cup {a.frame}) /\ SameValues(k0, k, T) /\ \A i \in Index : Value(k, a.frame, i) = 0
    <3>. DEFINE k2 == a.k
                f == a.frame
                held == {} \cup {f}
                none == {}
    <3>1. PagesSaved(k2, T) /\ SameValues(k0, k2, T)
      BY AskGives
    <3>2. KernelOK(k2, dirs, T, held) /\ k = Attach(k2, pd, d, f) /\ f \in Frames /\ f \notin T
      BY <2>1, <2>2, <2>3, <2>4
    <3>. HIDE DEF k2, f, held
    <3>3. k2 \in Kernels /\ pd \in Frames
      BY <3>2 DEF KernelOK
    <3>4. k.table = k2.table /\ k.memory = k2.memory /\ k.swap = k2.swap
      BY <3>2, <3>3, AttachIs
    <3>5. PagesSaved(k, T \cup {f}) /\ SameValues(k2, k, T) /\ \A i \in Index : Value(k, f, i) = 0
      BY <3>1, <3>2, <3>4, AttachKeeps
    <3>6. SameValues(k0, k, T)
      BY <3>1, <3>5 DEF SameValues
    <3>. QED
      BY <3>5, <3>6 DEF f
  <2>9. SameContents(k0, k, dirs)
    <3>1. dirs \subseteq Frames /\ NoFrame \notin T
      BY MmuAssumption DEF KernelOK
    <3>2. \A b \in dirs, c \in Dirs : k0.directory[b][c] \in T \cup {NoFrame}
      BY TablesAre
    <3>3. ASSUME NEW b \in dirs, NEW c \in Dirs
          PROVE  \/ k0.directory[b][c] \in T \cup {NoFrame} /\ k.directory[b][c] = k0.directory[b][c]
                 \/ k0.directory[b][c] = NoFrame /\ \A i \in Index : Value(k, k.directory[b][c], i) = 0
      <4>1. CASE b = pd /\ c = d
        BY <1>2, <2>5, <2>8, <4>1
      <4>2. CASE b # pd \/ c # d
        BY <2>4, <2>5, <3>1, <3>2, <4>2
      <4>. QED
        BY <4>1, <4>2
    <3>. QED
      BY <2>8, <3>1, <3>3, ContentsKept
  <2>. QED
    BY <1>2, <2>4, <2>5, <2>7, <2>8, <2>9
<1>. QED
  BY <1>1, <1>2

\* A page for an entry, and what the swap file has of it.
LEMMA PresentOK ==
  ASSUME NEW k0, NEW dirs, NEW T, NEW extra, KernelOK(k0, dirs, T, extra), NEW t \in T, NEW i \in Index,
         NEW k \in Present(k0, <<t, i>>)
  PROVE  /\ KernelOK(k, dirs, T, extra) /\ k.directory = k0.directory
         /\ k.table[t][i].base \in Frames
<1>1. /\ t \in Frames /\ <<t, i>> \in Entries /\ k0.table[t][i].base \in Frame0 /\ Pte(k0, <<t, i>>) = k0.table[t][i]
  BY DEF KernelOK, Kernels, Ptes, Entries, Pte
<1>2. CASE k0.table[t][i].base # NoFrame
  BY <1>1, <1>2 DEF Present, Frame0
<1>3. CASE k0.table[t][i].base = NoFrame
  <2>1. PICK a \in AskKernelForFrame(k0, NoEntry) : k = ReadPageFromDisk(Map(a.k, <<t, i>>, a.frame), <<t, i>>, a.frame)
    BY <1>1, <1>3 DEF Present
  <2>. DEFINE k1 == Map(a.k, <<t, i>>, a.frame)
              e == <<t, i>>
              f == a.frame
  <2>2. KernelOK(k1, dirs, T, extra) /\ k1.directory = k0.directory /\ k1.table[t][i].base = f /\ f \in Frames
    BY <1>3, PageForOK
  <2>3. k = ReadPageFromDisk(k1, e, f) /\ e \in Entries
    BY <1>1, <2>1
  <2>. HIDE DEF k1, e, f
  <2>4. CASE k1.swap[e] = NoPage
    BY <2>2, <2>3, <2>4 DEF ReadPageFromDisk
  <2>5. CASE k1.swap[e] # NoPage
    <3>1. k = [k1 EXCEPT !.memory[f] = k1.swap[e]]
      BY <2>3, <2>5 DEF ReadPageFromDisk
    <3>2. k1 \in Kernels /\ k1.swap[e] \in Bytes
      BY <2>2, <2>3, <2>5 DEF KernelOK, Kernels
    <3>3. k \in Kernels /\ k.used = k1.used /\ k.owner = k1.owner /\ k.directory = k1.directory /\ k.table = k1.table
      BY <2>2, <3>1, <3>2 DEF Kernels
    <3>4. KernelOK(k, dirs, T, extra)
      BY <2>2, <3>3, ContentsOK
    <3>. QED
      BY <2>2, <3>3, <3>4
  <2>. QED
    BY <2>4, <2>5
<1>. QED
  BY <1>1, <1>2, <1>3 DEF Frame0

LEMMA PresentKeeps ==
  ASSUME NEW k0, NEW dirs, NEW T, NEW extra, KernelOK(k0, dirs, T, extra), PagesSaved(k0, T),
         NEW t \in T, NEW i \in Index, NEW k \in Present(k0, <<t, i>>)
  PROVE  PagesSaved(k, T) /\ SameValues(k0, k, T)
<1>1. CASE k0.table[t][i].base # NoFrame
  BY <1>1 DEF Present, Pte, SameValues
<1>2. CASE k0.table[t][i].base = NoFrame
  <2>1. PICK a \in AskKernelForFrame(k0, NoEntry) : k = ReadPageFromDisk(Map(a.k, <<t, i>>, a.frame), <<t, i>>, a.frame)
    BY <1>2 DEF Present, Pte
  <2>. DEFINE e == NoEntry
  <2>2. e \in Entries \cup {NoEntry} /\ a \in AskKernelForFrame(k0, e)
    OBVIOUS
  <2>. HIDE DEF e
  <2>. QED
    BY <1>2, <2>1, <2>2, MapKeeps
<1>. QED
  BY <1>1, <1>2
-----------------------------------------------------------------------------
\* What the TLB says of the process whose directory is pd is what its tables say.
TlbOK(k, pd, t) ==
  \A page \in DOMAIN t : /\ page \in Dirs \X Index
                         /\ k.directory[pd][page[1]] # NoFrame
                         /\ t[page] = <<k.directory[pd][page[1]], page[2]>>

DirsOf(pds) == {pds[p] : p \in Pids} \ {NoFrame}

PidsOK ==
  /\ page_directories \in [Pids -> Frame0]
  /\ \A p, q \in Pids : page_directories[p] = page_directories[q] /\ page_directories[p] # NoFrame => p = q
  /\ curr_pid \in Pids

\* The inductive invariant.
MmuInv ==
  /\ PidsOK
  /\ \E T : KernelOK(m, DirsOf(page_directories), T, {}) /\ PagesSaved(m, T)
  /\ DOMAIN tlb # {} => page_directories[curr_pid] # NoFrame /\ TlbOK(m, page_directories[curr_pid], tlb)

LEMMA MmuInitOK == MmuInit => MmuInv
<1>. SUFFICES ASSUME MmuInit PROVE MmuInv
  OBVIOUS
<1>1. DirsOf(page_directories) = {} /\ PidsOK
  BY MmuAssumption DEF MmuInit, DirsOf, PidsOK, Frame0
<1>2. DOMAIN tlb = {}
  BY DEF MmuInit, NoTlb
<1>3. /\ m.used = {} /\ m.owner = [f \in Frames |-> NoEntry] /\ m.directory = [f \in Frames |-> NoTables]
      /\ m.table = [f \in Frames |-> NoPages]
  BY DEF MmuInit
<1>4. NoTables \in [Dirs -> Frame0] /\ (\A d \in Dirs : NoTables[d] = NoFrame)
      /\ NoPages \in [Index -> Ptes] /\ (\A i \in Index : NoPages[i].base = NoFrame)
  BY DEF NoTables, NoPages, Frame0, Ptes
<1>5. m \in Kernels
  <2>1. [f \in Frames |-> NoEntry] \in [Frames -> Entries \cup {NoEntry}]
    OBVIOUS
  <2>2. [f \in Frames |-> NoTables] \in [Frames -> [Dirs -> Frame0]] /\ [f \in Frames |-> NoPages] \in [Frames -> [Index -> Ptes]]
    BY <1>4
  <2>3. [f \in Frames |-> 0] \in [Frames -> Bytes] /\ [e \in Entries |-> NoPage] \in [Entries -> Bytes \cup {NoPage}]
    BY DEF Bytes
  <2>. QED
    BY <2>1, <2>2, <2>3 DEF MmuInit, Kernels
<1>6. KernelOK(m, {}, {}, {})
  BY <1>3, <1>4, <1>5 DEF KernelOK
<1>7. PagesSaved(m, {})
  <2>1. m.memory = [f \in Frames |-> 0] /\ m.swap = [e \in Entries |-> NoPage]
    BY DEF MmuInit
  <2>2. \A i \in Index : ~NoPages[i].dirty
    BY DEF NoPages
  <2>. QED
    BY <1>3, <2>1, <2>2 DEF PagesSaved, Fresh, Entries
<1>. QED
  BY <1>1, <1>2, <1>6, <1>7 DEF MmuInv

\* What a step may do to the directories that the TLB relies on.
LEMMA TlbKept ==
  ASSUME NEW k, NEW k2, NEW pd, NEW t, TlbOK(k, pd, t),
         \A d \in Dirs : k.directory[pd][d] # NoFrame => k2.directory[pd][d] = k.directory[pd][d]
  PROVE  TlbOK(k2, pd, t)
<1>. SUFFICES ASSUME NEW page \in DOMAIN t
              PROVE  /\ page \in Dirs \X Index
                     /\ k2.directory[pd][page[1]] # NoFrame
                     /\ t[page] = <<k2.directory[pd][page[1]], page[2]>>
  BY DEF TlbOK
<1>1. page \in Dirs \X Index /\ k.directory[pd][page[1]] # NoFrame /\ t[page] = <<k.directory[pd][page[1]], page[2]>>
  BY DEF TlbOK
<1>2. page[1] \in Dirs
  BY <1>1
<1>3. k2.directory[pd][page[1]] = k.directory[pd][page[1]]
  BY <1>1, <1>2
<1>. QED
  BY <1>1, <1>3

LEMMA AddProcessOK ==
  ASSUME MmuInv, NEW p \in Pids, AddProcess(p)
  PROVE  /\ MmuInv' /\ SameContents(m, m', DirsOf(page_directories))
         /\ \E f \in Frames : /\ page_directories' = [page_directories EXCEPT ![p] = f]
                              /\ \A d \in Dirs, i \in Index : Content(m', f, d, i) = 0
<1>. DEFINE dirs == DirsOf(page_directories)
            none == {}
<1>1. PICK T : KernelOK(m, dirs, T, none) /\ PagesSaved(m, T)
  BY DEF MmuInv
<1>2. PICK pd \in AskKernelForFrame(m, NoEntry) :
         \E a \in AskKernelForFrame(pd.k, NoEntry) :
           /\ m' \in WithTestingPages(Attach(a.k, pd.frame, 0, a.frame), a.frame)
           /\ page_directories' = [page_directories EXCEPT ![p] = pd.frame]
  BY DEF AddProcess
<1>201. PICK pt \in AskKernelForFrame(pd.k, NoEntry) :
           /\ m' \in WithTestingPages(Attach(pt.k, pd.frame, 0, pt.frame), pt.frame)
           /\ page_directories' = [page_directories EXCEPT ![p] = pd.frame]
  BY <1>2
<1>3. page_directories[p] = NoFrame /\ tlb' = tlb /\ curr_pid' = curr_pid
  BY DEF AddProcess
<1>. DEFINE k1 == pd.k
            k2 == pt.k
            f == pd.frame
            g == pt.frame
            one == none \cup {f}
            two == one \cup {g}
<1>. HIDE DEF dirs, none
<1>4. Asked(m, k1, f, NoEntry) /\ f \notin dirs \cup T \cup none
  BY <1>1, AskOK
<1>41. PagesSaved(k1, T) /\ SameValues(m, k1, T)
  BY <1>1, AskGives
<1>. HIDE DEF k1, f
<1>5. KernelOK(k1, dirs, T, one)
  BY <1>1, <1>4, HeldOK
<1>6. pt \in AskKernelForFrame(k1, NoEntry) /\ m' \in WithTestingPages(Attach(k2, f, 0, g), g)
      /\ page_directories' = [page_directories EXCEPT ![p] = f]
  BY <1>201 DEF k1, f
<1>. HIDE DEF one
<1>7. Asked(k1, k2, g, NoEntry) /\ g \notin dirs \cup T \cup one
  BY <1>5, <1>6, AskOK
<1>71. PagesSaved(k2, T) /\ SameValues(k1, k2, T)
  BY <1>5, <1>6, <1>41, AskGives
<1>. HIDE DEF k2, g
<1>8. KernelOK(k2, dirs, T, two)
  BY <1>5, <1>7, HeldOK
<1>9. f \in two /\ f \in one
  BY DEF one
<1>. HIDE DEF two
<1>10. KernelOK(k2, dirs \cup {f}, T, two \ {f})
  BY <1>8, <1>9, RootOK
<1>11. /\ g \in two \ {f} /\ (two \ {f}) \ {g} = {} /\ f \in Frames /\ g \in Frames /\ f \notin dirs /\ g \notin T
       /\ k2 \in Kernels /\ k2.directory = m.directory /\ f # g
  BY <1>4, <1>7, <1>9 DEF two, one, none, Asked
<1>12. \A d \in Dirs : k2.directory[f][d] = NoFrame
  BY <1>1, <1>11 DEF KernelOK
<1>. DEFINE k3 == Attach(k2, f, 0, g)
<1>13. KernelOK(k3, dirs \cup {f}, T \cup {g}, {})
  <2>1. KernelOK(k3, dirs \cup {f}, T \cup {g}, (two \ {f}) \ {g})
    <3>. DEFINE D == dirs \cup {f}
                E == two \ {f}
    <3>1. KernelOK(k2, D, T, E) /\ g \in E /\ f \in D /\ 0 \in Dirs /\ k2.directory[f][0] = NoFrame
      BY <1>10, <1>11, <1>12, MmuAssumption
    <3>. HIDE DEF D, E
    <3>2. KernelOK(k3, D, T \cup {g}, E \ {g})
      BY <3>1, TableOK
    <3>. QED
      BY <3>2 DEF D, E
  <2>. QED
    BY <1>11, <2>1
<1>14. /\ k3.table = k2.table /\ k3.memory = k2.memory /\ k3.swap = k2.swap /\ k3.directory[f][0] = g
       /\ \A a \in Frames, c \in Dirs : a # f \/ c # 0 => k3.directory[a][c] = k2.directory[a][c]
  <2>1. 0 \in Dirs
    BY MmuAssumption
  <2>2. k2 \in Kernels /\ f \in Frames /\ g \in Frames
    BY <1>11
  <2>3. \A d \in Dirs :
          /\ Attach(k2, f, d, g).table = k2.table /\ Attach(k2, f, d, g).memory = k2.memory
          /\ Attach(k2, f, d, g).swap = k2.swap /\ Attach(k2, f, d, g).directory[f][d] = g
          /\ \A a \in Frames, c \in Dirs : a # f \/ c # d => Attach(k2, f, d, g).directory[a][c] = k2.directory[a][c]
    BY <2>2, AttachIs
  <2>. QED
    BY <2>1, <2>3
<1>15. m' \in WithTestingPages(k3, g)
  BY <1>6
<1>. HIDE DEF k3
<1>16. \A j \in 1..Testing : k3.table[g][j].base = NoFrame
  <2>1. \A j \in Index : k2.table[g][j].base = NoFrame
    BY <1>8, <1>11 DEF KernelOK
  <2>. QED
    BY <1>14, <2>1, MmuAssumption
<1>161. PagesSaved(k3, T \cup {g}) /\ SameValues(k2, k3, T) /\ \A i \in Index : Fresh(k3, g, i) /\ Value(k3, g, i) = 0
  <2>1. g \in Frames /\ g \notin T /\ k3.table = k2.table /\ k3.memory = k2.memory /\ k3.swap = k2.swap
    BY <1>11, <1>14
  <2>. QED
    BY <1>8, <1>71, <2>1, AttachKeeps, Zenon
<1>17. /\ KernelOK(m', dirs \cup {f}, T \cup {g}, {}) /\ m'.directory = k3.directory
       /\ PagesSaved(m', T \cup {g}) /\ SameValues(k3, m', T \cup {g})
  <2>. DEFINE D == dirs \cup {f}
              U == T \cup {g}
  <2>1. KernelOK(k3, D, U, {}) /\ PagesSaved(k3, U) /\ g \in U
    BY <1>13, <1>161
  <2>. HIDE DEF D, U
  <2>2. KernelOK(m', D, U, {}) /\ m'.directory = k3.directory /\ PagesSaved(m', U) /\ SameValues(k3, m', U)
    BY <1>15, <1>16, <1>161, <2>1, TestingOK
  <2>. QED
    BY <2>2 DEF D, U
<1>18. PidsOK'
  <2>1. \A q \in Pids : page_directories[q] # f
    BY <1>11, MmuAssumption DEF dirs, DirsOf
  <2>. QED
    BY <1>3, <1>6, <1>11, <2>1 DEF MmuInv, PidsOK, Frame0
<1>19. DirsOf(page_directories') = dirs \cup {f}
  <2>1. page_directories \in [Pids -> Frame0] /\ f # NoFrame
    BY <1>11, MmuAssumption DEF MmuInv, PidsOK
  <2>. QED
    BY <1>3, <1>6, <2>1 DEF dirs, DirsOf
<1>20. ASSUME DOMAIN tlb' # {}
       PROVE  page_directories'[curr_pid'] # NoFrame /\ TlbOK(m', page_directories'[curr_pid'], tlb')
  <2>. DEFINE a == page_directories[curr_pid]
  <2>1. a # NoFrame /\ TlbOK(m, a, tlb) /\ curr_pid \in Pids /\ a \in Frames
    BY <1>3, <1>20 DEF MmuInv, PidsOK, Frame0
  <2>2. curr_pid # p /\ page_directories'[curr_pid'] = a
    BY <1>3, <1>6, <2>1 DEF MmuInv, PidsOK
  <2>3. a # f
    BY <1>11, <2>1 DEF dirs, DirsOf
  <2>4. \A d \in Dirs : m'.directory[a][d] = m.directory[a][d]
    BY <1>11, <1>14, <1>17, <2>1, <2>3
  <2>. HIDE DEF a
  <2>5. TlbOK(m', a, tlb)
    BY <2>1, <2>4, TlbKept
  <2>. QED
    BY <1>3, <2>1, <2>2, <2>5
<1>21. SameContents(m, m', dirs)
  <2>1. SameValues(m, m', T) /\ NoFrame \notin T /\ dirs \subseteq Frames
    BY <1>1, <1>41, <1>71, <1>161, <1>17, MmuAssumption DEF SameValues, KernelOK
  <2>2. \A a \in dirs, d \in Dirs : m.directory[a][d] \in T \cup {NoFrame}
    BY <1>1, TablesAre
  <2>3. \A a \in dirs, d \in Dirs : m'.directory[a][d] = m.directory[a][d]
    BY <1>11, <1>14, <1>17, <2>1
  <2>. QED
    BY <2>1, <2>2, <2>3, ContentsKept
<1>22. ASSUME NEW d \in Dirs, NEW i \in Index PROVE Content(m', f, d, i) = 0
  <2>1. CASE d = 0
    <3>1. m'.directory[f][d] = g /\ Value(m', g, i) = 0
      BY <1>14, <1>161, <1>17, <2>1 DEF SameValues
    <3>. QED
      BY <3>1 DEF Content
  <2>2. CASE d # 0
    <3>1. m'.directory[f][d] = NoFrame
      BY <1>11, <1>12, <1>14, <1>17, <2>2
    <3>. QED
      BY <3>1 DEF Content
  <2>. QED
    BY <2>1, <2>2
<1>. QED
  BY <1>6, <1>11, <1>17, <1>18, <1>19, <1>20, <1>21, <1>22 DEF MmuInv, dirs

LEMMA RemoveProcessOK ==
  ASSUME MmuInv, NEW p \in Pids, page_directories[p] # NoFrame, RemoveProcess(p)
  PROVE  MmuInv' /\ SameContents(m, m', DirsOf(page_directories) \ {page_directories[p]})
<1>. DEFINE dirs == DirsOf(page_directories)
            pd == page_directories[p]
<1>1. PICK T : KernelOK(m, dirs, T, {}) /\ PagesSaved(m, T)
  BY DEF MmuInv
<1>2. /\ m' = Removed(m, pd) /\ page_directories' = [page_directories EXCEPT ![p] = NoFrame]
      /\ tlb' = (IF curr_pid = p THEN NoTlb ELSE tlb) /\ curr_pid' = curr_pid
  BY DEF RemoveProcess
<1>3. page_directories \in [Pids -> Frame0] /\ curr_pid \in Pids
      /\ \A q, r \in Pids : page_directories[q] = page_directories[r] /\ page_directories[q] # NoFrame => q = r
  BY DEF MmuInv, PidsOK
<1>4. pd \in dirs
  BY DEF DirsOf
<1>5. /\ KernelOK(m', dirs \ {pd}, T \ Tables(m, pd), {}) /\ PagesSaved(m', T \ Tables(m, pd))
      /\ SameContents(m, m', dirs \ {pd})
      /\ \A a \in dirs \ {pd} : m'.directory[a] = m.directory[a]
  <2>. HIDE DEF dirs, pd
  <2>1. /\ KernelOK(Removed(m, pd), dirs \ {pd}, T \ Tables(m, pd), {}) /\ PagesSaved(Removed(m, pd), T \ Tables(m, pd))
        /\ SameContents(m, Removed(m, pd), dirs \ {pd})
        /\ \A a \in dirs \ {pd} : Removed(m, pd).directory[a] = m.directory[a]
    BY <1>1, <1>4, RemovedOK, Zenon
  <2>. QED
    BY <1>2, <2>1, Zenon
<1>6. PidsOK'
  BY <1>2, <1>3 DEF PidsOK, Frame0
<1>7. DirsOf(page_directories') = dirs \ {pd}
  BY <1>2, <1>3 DEF DirsOf
<1>8. ASSUME DOMAIN tlb' # {}
      PROVE  page_directories'[curr_pid'] # NoFrame /\ TlbOK(m', page_directories'[curr_pid'], tlb')
  <2>. DEFINE a == page_directories[curr_pid]
  <2>1. curr_pid # p /\ tlb' = tlb
    BY <1>2, <1>8 DEF NoTlb
  <2>2. a # NoFrame /\ TlbOK(m, a, tlb)
    BY <1>8, <2>1 DEF MmuInv
  <2>3. a \in dirs \ {pd} /\ page_directories'[curr_pid'] = a
    BY <1>2, <1>3, <2>1, <2>2 DEF DirsOf
  <2>4. \A d \in Dirs : m'.directory[a][d] = m.directory[a][d]
    BY <1>5, <2>3
  <2>. HIDE DEF a
  <2>5. TlbOK(m', a, tlb)
    BY <2>2, <2>4, TlbKept
  <2>. QED
    BY <2>1, <2>2, <2>3, <2>5
<1>9. MmuInv'
  <2>. HIDE DEF dirs
  <2>. QED
    BY <1>5, <1>6, <1>7, <1>8 DEF MmuInv
<1>. QED
  BY <1>5, <1>9

\* When all processes go, one after the other, all frames are back.
LEMMA AllRemovedOK ==
  ASSUME MmuInv PROVE \E T : KernelOK(AllRemoved, {}, T, {}) /\ PagesSaved(AllRemoved, T)
<1>. DEFINE N == Cardinality(Pids)
            Solves(f, n) == f = [i \in 0..n |-> IF i = 0 THEN m ELSE Removed(f[i - 1], page_directories[i - 1])]
            rest == CHOOSE f : Solves(f, N)
            Left(n) == {page_directories[p] : p \in {q \in Pids : q >= n}} \ {NoFrame}
            Good(k, n) == \E T : KernelOK(k, Left(n), T, {}) /\ PagesSaved(k, T)
<1>1. AllRemoved = rest[N]
  BY Zenon DEF AllRemoved
<1>2. N \in Nat /\ Pids = 0 .. N - 1 /\ Pids \subseteq Nat
  <2>1. IsFiniteSet(Pids) /\ Pids = 0 .. N - 1
    BY MmuAssumption
  <2>2. N \in Nat
    BY <2>1, FS_CardinalityType
  <2>. QED
    BY <2>1, <2>2
<1>. HIDE DEF rest, N
<1>3. ASSUME NEW n \in 1..N, NEW f, Solves(f, n - 1)
      PROVE  \E g : Solves(g, n)
  <2>. DEFINE g == [i \in 0..n |-> IF i = n THEN Removed(f[n - 1], page_directories[n - 1]) ELSE f[i]]
  <2>1. \A i \in 0..(n - 1) : f[i] = IF i = 0 THEN m ELSE Removed(f[i - 1], page_directories[i - 1])
    BY <1>3
  <2>2. \A i \in 0..n : g[i] = IF i = 0 THEN m ELSE Removed(g[i - 1], page_directories[i - 1])
    <3>. TAKE i \in 0..n
    <3>1. CASE i = n
      <4>1. n # 0 /\ n \in 0..n /\ n - 1 \in 0..n /\ n - 1 # n
        BY <1>2
      <4>2. g[n] = Removed(f[n - 1], page_directories[n - 1]) /\ g[n - 1] = f[n - 1]
        BY <4>1
      <4>. QED
        BY <3>1, <4>1, <4>2
    <3>2. CASE i # n /\ i # 0
      <4>1. i \in 0..(n - 1) /\ i - 1 \in 0..n /\ i - 1 # n
        BY <1>2, <3>2
      <4>. QED
        BY <2>1, <3>2, <4>1
    <3>3. CASE i # n /\ i = 0
      BY <1>2, <2>1, <3>3
    <3>. QED
      BY <3>1, <3>2, <3>3
  <2>3. g = [i \in 0..n |-> g[i]]
    OBVIOUS
  <2>. HIDE DEF g
  <2>4. Solves(g, n)
    BY <2>2, <2>3
  <2>. QED
    BY <2>4
<1>4. \E f : Solves(f, N)
  <2>. DEFINE P(n) == \E f : Solves(f, n)
              S == {n \in 0..N : P(n)}
  <2>1. Solves([i \in 0..0 |-> m], 0)
    OBVIOUS
  <2>2. P(0) /\ \A n \in 1..N : P(n - 1) => P(n)
    <3>. HIDE DEF Solves
    <3>. QED
      BY <1>3, <2>1
  <2>. HIDE DEF P
  <2>3. 0 \in S /\ \A n \in 1..N : n - 1 \in S => n \in S
    BY <1>2, <2>2
  <2>4. N \in S
    <3>. HIDE DEF S
    <3>. QED
      BY <1>2, <2>3, UpTo
  <2>. QED
    BY <2>4 DEF P
<1>5. Solves(rest, N)
  <2>. HIDE DEF Solves
  <2>. QED
    BY <1>4 DEF rest
<1>6. rest[0] = m /\ \A i \in 1..N : rest[i] = Removed(rest[i - 1], page_directories[i - 1])
  <2>1. \A i \in 0..N : rest[i] = IF i = 0 THEN m ELSE Removed(rest[i - 1], page_directories[i - 1])
    BY <1>5
  <2>. HIDE DEF Solves
  <2>. QED
    BY <1>2, <2>1
<1>7. ASSUME NEW n \in 1..N, NEW k, Good(k, n - 1)
      PROVE  Good(Removed(k, page_directories[n - 1]), n)
  <2>. DEFINE p == n - 1
              pd == page_directories[p]
  <2>1. p \in Pids /\ p \in Nat /\ n = p + 1
    BY <1>2
  <2>2. PICK T : KernelOK(k, Left(p), T, {}) /\ PagesSaved(k, T)
    BY <1>7
  <2>3. \A q \in Pids : q >= n <=> (q >= p /\ q # p)
    BY <1>2, <2>1
  <2>4. \A q, r \in Pids : page_directories[q] = page_directories[r] /\ page_directories[q] # NoFrame => q = r
    BY DEF MmuInv, PidsOK
  <2>. HIDE DEF p
  <2>5. Left(n) = Left(p) \ {pd}
    <3>1. ASSUME NEW q \in Pids, q >= n, page_directories[q] # NoFrame PROVE page_directories[q] \in Left(p) \ {pd}
      BY <2>1, <2>3, <2>4, <3>1
    <3>2. ASSUME NEW q \in Pids, q >= p, page_directories[q] # NoFrame, page_directories[q] # pd
          PROVE  page_directories[q] \in Left(n)
      BY <2>3, <3>2
    <3>. QED
      BY <3>1, <3>2
  <2>6. CASE pd = NoFrame
    BY <2>2, <2>5, <2>6 DEF Removed, p
  <2>7. CASE pd # NoFrame
    <3>1. pd \in Left(p)
      BY <2>1, <2>7
    <3>. HIDE DEF Left, pd
    <3>2. /\ KernelOK(Removed(k, pd), Left(p) \ {pd}, T \ Tables(k, pd), {})
          /\ PagesSaved(Removed(k, pd), T \ Tables(k, pd))
      BY <2>2, <3>1, RemovedOK
    <3>3. KernelOK(Removed(k, pd), Left(n), T \ Tables(k, pd), {}) /\ PagesSaved(Removed(k, pd), T \ Tables(k, pd))
      BY <2>5, <3>2
    <3>. QED
      BY <3>3 DEF pd, p
  <2>. QED
    BY <2>6, <2>7
<1>8. Good(m, 0)
  <2>1. Left(0) = DirsOf(page_directories)
    BY <1>2 DEF DirsOf
  <2>. QED
    BY <2>1 DEF MmuInv
<1>9. Left(N) = {}
  BY <1>2
<1>. DEFINE S == {i \in 0..N : Good(rest[i], i)}
<1>. HIDE DEF Good
<1>10. N \in S
  <2>1. 0 \in S /\ \A i \in 1..N : i - 1 \in S => i \in S
    BY <1>2, <1>6, <1>7, <1>8
  <2>. HIDE DEF S
  <2>. QED
    BY <1>2, <2>1, UpTo
<1>. QED
  BY <1>1, <1>9, <1>10 DEF Good

LEMMA DeleteMmuOK ==
  ASSUME MmuInv, DeleteMmu PROVE MmuInv'
<1>1. PICK T : KernelOK(AllRemoved, {}, T, {}) /\ PagesSaved(AllRemoved, T)
  BY AllRemovedOK
<1>2. /\ m' = AllRemoved /\ page_directories' = [p \in Pids |-> NoFrame] /\ tlb' = NoTlb /\ curr_pid' = 0
  BY DEF DeleteMmu
<1>3. PidsOK' /\ DirsOf(page_directories') = {} /\ DOMAIN tlb' = {}
  BY <1>2, MmuAssumption DEF PidsOK, DirsOf, Frame0, NoTlb
<1>. QED
  BY <1>1, <1>2, <1>3 DEF MmuInv

LEMMA FlushedOK ==
  ASSUME MmuInv, NEW p \in Pids, page_directories[p] # NoFrame
  PROVE  TlbOK(m, page_directories[p], Flushed(p))
<1>1. CASE DOMAIN Flushed(p) = {}
  BY <1>1 DEF TlbOK
<1>2. CASE DOMAIN Flushed(p) # {}
  <2>1. p = curr_pid /\ Flushed(p) = tlb
    BY <1>2 DEF Flushed, NoTlb
  <2>. QED
    BY <1>2, <2>1 DEF MmuInv
<1>. QED
  BY <1>1, <1>2

\* The entry that the TLB or the tables lead to is one of the process.
LEMMA LookedOK ==
  ASSUME MmuInv, NEW p \in Pids, page_directories[p] # NoFrame, NEW page \in Dirs \X Index,
         NEW look \in Looked(p, page)
  PROVE  /\ TlbOK(look.k, page_directories[p], look.tlb)
         /\ SameContents(m, look.k, DirsOf(page_directories))
         /\ \E T : /\ KernelOK(look.k, DirsOf(page_directories), T, {}) /\ PagesSaved(look.k, T)
                   /\ \E t \in T : /\ look.k.directory[page_directories[p]][page[1]] = t
                                   /\ look.pte = <<t, page[2]>>
<1>. DEFINE dirs == DirsOf(page_directories)
            pd == page_directories[p]
<1>1. PICK T : KernelOK(m, dirs, T, {}) /\ PagesSaved(m, T)
  BY DEF MmuInv
<1>2. TlbOK(m, pd, Flushed(p))
  BY FlushedOK
<1>3. pd \in dirs /\ pd \in Frames /\ page[1] \in Dirs /\ page[2] \in Index
  BY DEF MmuInv, PidsOK, DirsOf, Frame0
<1>4. ASSUME NEW k, NEW T2, KernelOK(k, dirs, T2, {}), k.directory[pd][page[1]] # NoFrame
      PROVE  k.directory[pd][page[1]] \in T2
  <2>1. k.directory[pd][page[1]] \in Frames
    BY <1>3, <1>4 DEF KernelOK, Kernels, Frame0
  <2>. QED
    BY <1>3, <1>4, <2>1 DEF KernelOK
<1>. HIDE DEF dirs, pd
<1>5. CASE page \in DOMAIN Flushed(p)
  <2>1. look.k = m /\ look.tlb = Flushed(p) /\ look.pte = Flushed(p)[page]
    BY <1>5 DEF Looked
  <2>2. m.directory[pd][page[1]] # NoFrame /\ Flushed(p)[page] = <<m.directory[pd][page[1]], page[2]>>
    BY <1>2, <1>5 DEF TlbOK
  <2>3. m.directory[pd][page[1]] \in T
    BY <1>1, <1>4, <2>2
  <2>4. SameContents(m, look.k, dirs)
    BY <2>1 DEF SameContents
  <2>. QED
    BY <1>1, <1>2, <1>3, <2>1, <2>2, <2>3, <2>4 DEF dirs, pd
<1>6. CASE page \notin DOMAIN Flushed(p)
  <2>1. PICK k \in Tabled(m, pd, page[1]) :
           \E t \in WithEntry(Flushed(p), page, <<k.directory[pd][page[1]], page[2]>>) :
             look = [k |-> k, tlb |-> t, pte |-> <<k.directory[pd][page[1]], page[2]>>]
    BY <1>6 DEF Looked, pd
  <2>2. /\ \E T2 : KernelOK(k, dirs, T2, {}) /\ PagesSaved(k, T2)
        /\ SameContents(m, k, dirs)
        /\ k.directory[pd][page[1]] # NoFrame
        /\ \A a \in Frames, c \in Dirs : m.directory[a][c] # NoFrame => k.directory[a][c] = m.directory[a][c]
    BY <1>1, <1>3, TabledOK
  <2>. DEFINE e == <<k.directory[pd][page[1]], page[2]>>
  <2>3. PICK T2 : KernelOK(k, dirs, T2, {}) /\ PagesSaved(k, T2)
    BY <2>2
  <2>4. k.directory[pd][page[1]] \in T2
    BY <1>4, <2>2, <2>3
  <2>5. PICK t \in WithEntry(Flushed(p), page, e) : look = [k |-> k, tlb |-> t, pte |-> e]
    BY <2>1
  <2>6. TlbOK(k, pd, Flushed(p))
    BY <1>2, <1>3, <2>2, TlbKept
  <2>7. \A q \in DOMAIN t : IF q = page THEN t[q] = e ELSE q \in DOMAIN Flushed(p) /\ t[q] = Flushed(p)[q]
    <3>. DEFINE t0 == Flushed(p)
    <3>. HIDE DEF e, t0
    <3>1. \E kept \in SUBSET DOMAIN t0 : t = [q \in kept \cup {page} |-> IF q = page THEN e ELSE t0[q]]
      <4>1. t \in WithEntry(t0, page, e)
        BY DEF t0
      <4>2. CASE Cardinality(DOMAIN t0) < TlbSize
        BY <4>1, <4>2 DEF WithEntry
      <4>3. CASE ~(Cardinality(DOMAIN t0) < TlbSize)
        <5>1. PICK r \in DOMAIN t0 : t = [q \in (DOMAIN t0 \ {r}) \cup {page} |-> IF q = page THEN e ELSE t0[q]]
          BY <4>1, <4>3 DEF WithEntry
        <5>2. DOMAIN t0 \ {r} \in SUBSET DOMAIN t0
          OBVIOUS
        <5>. QED
          BY <5>1, <5>2
      <4>. QED
        BY <4>2, <4>3
    <3>. QED
      BY <3>1 DEF t0
  <2>8. TlbOK(k, pd, t)
    BY <2>2, <2>6, <2>7 DEF TlbOK
  <2>9. look.k = k /\ look.tlb = t /\ look.pte = <<k.directory[pd][page[1]], page[2]>>
    BY <2>5
  <2>. QED
    BY <1>3, <2>2, <2>3, <2>4, <2>8, <2>9 DEF dirs, pd
<1>. QED
  BY <1>5, <1>6

LEMMA CheckOK ==
  ASSUME MmuInv, NEW p \in Pids, page_directories[p] # NoFrame, NEW page \in Dirs \X Index,
         NEW check \in PerformCheck(p, page)
  PROVE  /\ TlbOK(check.k, page_directories[p], check.tlb)
         /\ SameContents(m, check.k, DirsOf(page_directories))
         /\ \E T : /\ KernelOK(check.k, DirsOf(page_directories), T, {}) /\ PagesSaved(check.k, T)
                   /\ \E t \in T : /\ check.k.directory[page_directories[p]][page[1]] = t
                                   /\ check.pte = <<t, page[2]>>
                                   /\ check.k.table[t][page[2]].base \in Frames
<1>. DEFINE dirs == DirsOf(page_directories)
            pd == page_directories[p]
            i == page[2]
<1>1. PICK look \in Looked(p, page) : \E k \in Present(look.k, look.pte) : check = [look EXCEPT !.k = k]
  BY DEF PerformCheck
<1>2. PICK k \in Present(look.k, look.pte) : check = [look EXCEPT !.k = k]
  BY <1>1
<1>3. check.k = k /\ check.tlb = look.tlb /\ check.pte = look.pte
  <2>1. \E x, y, z : look = [k |-> x, tlb |-> y, pte |-> z]
    BY DEF Looked
  <2>. QED
    BY <1>2, <2>1
<1>4. PICK T : /\ KernelOK(look.k, dirs, T, {}) /\ PagesSaved(look.k, T)
               /\ \E t \in T : look.k.directory[pd][page[1]] = t /\ look.pte = <<t, i>>
  BY LookedOK
<1>5. PICK t \in T : look.k.directory[pd][page[1]] = t /\ look.pte = <<t, i>>
  BY <1>4
<1>6. TlbOK(look.k, pd, look.tlb) /\ SameContents(m, look.k, dirs) /\ i \in Index
  BY LookedOK
<1>. HIDE DEF dirs, pd, i
<1>. DEFINE k0 == look.k
<1>7. KernelOK(k0, dirs, T, {}) /\ PagesSaved(k0, T) /\ k \in Present(k0, <<t, i>>)
  BY <1>4, <1>5
<1>. HIDE DEF k0
<1>8. /\ KernelOK(k, dirs, T, {}) /\ k.directory = k0.directory /\ k.table[t][i].base \in Frames
      /\ PagesSaved(k, T) /\ SameValues(k0, k, T)
  <2>. DEFINE none == {}
  <2>1. KernelOK(k0, dirs, T, none) /\ i \in Index
    BY <1>6, <1>7
  <2>. HIDE DEF none
  <2>2. KernelOK(k, dirs, T, none) /\ k.directory = k0.directory /\ k.table[t][i].base \in Frames
    BY <1>7, <2>1, PresentOK
  <2>3. PagesSaved(k, T) /\ SameValues(k0, k, T)
    BY <1>7, <2>1, PresentKeeps
  <2>. QED
    BY <2>2, <2>3 DEF none
<1>9. SameContents(m, k, dirs)
  <2>1. NoFrame \notin T
    BY <1>7, MmuAssumption DEF KernelOK
  <2>2. \A a \in dirs, d \in Dirs : k0.directory[a][d] \in T \cup {NoFrame}
    BY <1>7, TablesAre
  <2>3. SameContents(k0, k, dirs)
    BY <1>8, <2>1, <2>2, ContentsKept
  <2>. QED
    BY <1>6, <2>3 DEF SameContents, k0
<1>10. TlbOK(k, pd, look.tlb)
  BY <1>6, <1>8, TlbKept DEF k0
<1>. QED
  BY <1>3, <1>5, <1>8, <1>9, <1>10 DEF dirs, pd, i, k0

LEMMA PidsStay ==
  ASSUME PidsOK, NEW p \in Pids, curr_pid' = p, page_directories' = page_directories
  PROVE  PidsOK' /\ DirsOf(page_directories') = DirsOf(page_directories)
BY DEF PidsOK, DirsOf

LEMMA ReadOK ==
  ASSUME MmuInv, NEW p \in Pids, page_directories[p] # NoFrame, NEW page \in Segments,
         ReadFromVirtualAddress(p, page)
  PROVE  /\ MmuInv' /\ SameContents(m, m', DirsOf(page_directories))
         /\ result' = Content(m, page_directories[p], page[1], page[2])
<1>. DEFINE dirs == DirsOf(page_directories)
            pd == page_directories[p]
<1>1. PICK check \in PerformCheck(p, page) :
         /\ Checked(p, check) /\ m' = check.k
         /\ result' = check.k.memory[Pte(check.k, check.pte).base]
  BY DEF ReadFromVirtualAddress
<1>2. /\ tlb' = check.tlb /\ curr_pid' = p /\ page_directories' = page_directories
      /\ page \in Dirs \X Index /\ page[1] \in Dirs /\ page[2] \in Index
  BY <1>1, MmuAssumption DEF Checked
<1>3. /\ TlbOK(m', pd, tlb') /\ SameContents(m, m', dirs)
      /\ \E T : /\ KernelOK(m', dirs, T, {}) /\ PagesSaved(m', T)
                /\ \E t \in T : /\ m'.directory[pd][page[1]] = t /\ check.pte = <<t, page[2]>>
                                /\ m'.table[t][page[2]].base \in Frames
  BY <1>1, <1>2, CheckOK
<1>4. MmuInv'
  BY <1>2, <1>3, PidsStay DEF MmuInv
<1>5. result' = Content(m, pd, page[1], page[2])
  <2>1. PICK T : /\ KernelOK(m', dirs, T, {})
                 /\ \E t \in T : /\ m'.directory[pd][page[1]] = t /\ check.pte = <<t, page[2]>>
                                 /\ m'.table[t][page[2]].base \in Frames
    BY <1>3
  <2>2. PICK t \in T : /\ m'.directory[pd][page[1]] = t /\ check.pte = <<t, page[2]>>
                       /\ m'.table[t][page[2]].base \in Frames
    BY <2>1
  <2>3. t # NoFrame /\ m'.table[t][page[2]].base # NoFrame
    BY <2>1, <2>2, MmuAssumption DEF KernelOK
  <2>4. result' = m'.memory[m'.table[t][page[2]].base]
    BY <1>1, <2>2 DEF Pte
  <2>5. Content(m', pd, page[1], page[2]) = result'
    BY <2>2, <2>3, <2>4 DEF Content, Value
  <2>6. pd \in dirs
    BY DEF DirsOf
  <2>. HIDE DEF pd, dirs
  <2>. QED
    BY <1>2, <1>3, <2>5, <2>6 DEF SameContents
<1>. QED
  BY <1>3, <1>4, <1>5

LEMMA WriteOK ==
  ASSUME MmuInv, NEW p \in Pids, page_directories[p] # NoFrame, NEW page \in Segments, NEW v \in PageValues,
         WriteToVirtualAddress(p, page, v)
  PROVE  /\ MmuInv'
         /\ \A a \in DirsOf(page_directories), d \in Dirs, i \in Index :
               Content(m', a, d, i) = IF a = page_directories[p] /\ <<d, i>> = page THEN v ELSE Content(m, a, d, i)
<1>1. PICK check \in PerformCheck(p, page) :
         /\ Checked(p, check)
         /\ m' = [check.k EXCEPT !.memory[Pte(check.k, check.pte).base] = v,
                                 !.table[check.pte[1]][check.pte[2]].dirty = TRUE]
  BY DEF WriteToVirtualAddress
<1>2. tlb' = check.tlb /\ curr_pid' = p /\ page_directories' = page_directories
      /\ page \in Dirs \X Index /\ page[1] \in Dirs /\ page[2] \in Index /\ page = <<page[1], page[2]>>
  BY <1>1, MmuAssumption DEF Checked
<1>. DEFINE k == check.k
            i == page[2]
            pd == page_directories[p]
            dirs == DirsOf(page_directories)
<1>3. TlbOK(k, pd, tlb') /\ SameContents(m, k, dirs)
  BY <1>2, CheckOK
<1>4. PICK T : /\ KernelOK(k, dirs, T, {}) /\ PagesSaved(k, T)
               /\ \E t \in T : /\ k.directory[pd][page[1]] = t /\ check.pte = <<t, i>>
                               /\ k.table[t][i].base \in Frames
  BY <1>2, CheckOK
<1>5. PICK t \in T : /\ k.directory[pd][page[1]] = t /\ check.pte = <<t, i>>
                     /\ k.table[t][i].base \in Frames
  BY <1>4
<1>. DEFINE f == k.table[t][i].base
            pte == [k.table[t][i] EXCEPT !.dirty = TRUE]
            row == [k.table[t] EXCEPT ![i] = pte]
            table == [k.table EXCEPT ![t] = row]
            memory == [k.memory EXCEPT ![f] = v]
<1>6. m' = [k EXCEPT !.memory = memory, !.table = table]
  BY <1>1, <1>5 DEF Pte
<1>61. pd \in dirs
  BY DEF DirsOf
<1>. HIDE DEF k, i, pd, dirs
<1>7. i \in Index /\ k \in Kernels /\ t \in Frames /\ k.table \in [Frames -> [Index -> Ptes]] /\ k.memory \in [Frames -> Bytes] /\ f \in Frames
  BY <1>2, <1>4, <1>5 DEF KernelOK, Kernels, i
<1>8. pte \in Ptes /\ pte.base = f /\ pte.dirty
  <2>1. k.table[t][i] \in Ptes
    BY <1>7
  <2>. QED
    BY <2>1 DEF Ptes
<1>9. memory \in [Frames -> Bytes] /\ memory[f] = v /\ \A g \in Frames : g # f => memory[g] = k.memory[g]
  BY <1>7 DEF Bytes
<1>. HIDE DEF pte
<1>10. /\ table \in [Frames -> [Index -> Ptes]] /\ table[t][i] = pte
       /\ \A s \in Frames, j \in Index : s # t \/ j # i => table[s][j] = k.table[s][j]
  BY <1>7, <1>8
<1>11. \A s \in Frames, j \in Index : table[s][j].base = k.table[s][j].base
  BY <1>8, <1>10
<1>. HIDE DEF table, memory
<1>12. m' \in Kernels /\ m'.used = k.used /\ m'.owner = k.owner /\ m'.directory = k.directory /\ m'.table = table
       /\ m'.memory = memory /\ m'.swap = k.swap
  BY <1>6, <1>7, <1>9, <1>10 DEF Kernels
<1>13. KernelOK(m', dirs, T, {})
  BY <1>4, <1>11, <1>12, ContentsOK
<1>14. TlbOK(m', pd, tlb')
  BY <1>3, <1>12, TlbKept
<1>15. ASSUME NEW s \in T, NEW j \in Index, s # t \/ j # i
       PROVE  /\ m'.table[s][j] = k.table[s][j]
              /\ k.table[s][j].base # NoFrame => m'.memory[k.table[s][j].base] = k.memory[k.table[s][j].base]
  <2>1. s \in Frames /\ k.table[s][j] \in Ptes
    BY <1>4, <1>7 DEF KernelOK
  <2>2. f # NoFrame
    BY <1>7, MmuAssumption
  <2>3. k.table[s][j].base # f
    BY <1>4, <1>7, <1>15, <2>2 DEF KernelOK
  <2>4. k.table[s][j].base # NoFrame => k.table[s][j].base \in Frames
    BY <2>1 DEF Ptes, Frame0
  <2>. QED
    BY <1>9, <1>10, <1>12, <1>15, <2>1, <2>3, <2>4
<1>16. /\ m'.table[t][i].base = f /\ m'.table[t][i].dirty /\ m'.memory[f] = v
       /\ \A s \in Frames, j \in Index : Saved(m', s, j) = Saved(k, s, j)
  BY <1>8, <1>9, <1>10, <1>12 DEF Saved
<1>17. \A s \in T, j \in Index : Value(m', s, j) = IF s = t /\ j = i THEN v ELSE Value(k, s, j)
  <2>. SUFFICES ASSUME NEW s \in T, NEW j \in Index
                PROVE  Value(m', s, j) = IF s = t /\ j = i THEN v ELSE Value(k, s, j)
    OBVIOUS
  <2>1. s \in Frames /\ f # NoFrame
    BY <1>4, <1>7, MmuAssumption DEF KernelOK
  <2>2. CASE s = t /\ j = i
    BY <1>16, <2>1, <2>2 DEF Value
  <2>3. CASE s # t \/ j # i
    BY <1>15, <1>16, <2>1, <2>3 DEF Value
  <2>. QED
    BY <2>2, <2>3
<1>18. PagesSaved(m', T)
  <2>1. ASSUME NEW g \in Frames, m'.memory[g] # 0 PROVE \E s \in T, j \in Index : m'.table[s][j].base = g
    <3>1. CASE g = f
      BY <1>7, <1>16, <3>1
    <3>2. CASE g # f
      <4>1. k.memory[g] # 0
        BY <1>9, <1>12, <2>1, <3>2
      <4>2. PICK s \in T, j \in Index : k.table[s][j].base = g
        BY <1>4, <4>1 DEF PagesSaved
      <4>3. s \in Frames
        BY <1>4 DEF KernelOK
      <4>. QED
        BY <1>11, <1>12, <4>2, <4>3
    <3>. QED
      BY <3>1, <3>2
  <2>2. ASSUME NEW s \in T, NEW j \in Index, m'.table[s][j].base # NoFrame, ~m'.table[s][j].dirty
        PROVE  m'.memory[m'.table[s][j].base] = Saved(m', s, j)
    <3>1. (s # t \/ j # i) /\ s \in Frames
      BY <1>4, <1>16, <2>2 DEF KernelOK
    <3>2. m'.table[s][j] = k.table[s][j] /\ m'.memory[m'.table[s][j].base] = k.memory[k.table[s][j].base]
      BY <1>15, <2>2, <3>1
    <3>3. k.memory[k.table[s][j].base] = Saved(k, s, j)
      BY <1>4, <2>2, <3>2 DEF PagesSaved
    <3>. QED
      BY <1>16, <3>1, <3>2, <3>3
  <2>3. ASSUME NEW s \in Frames \ T, NEW j \in Index PROVE Fresh(m', s, j)
    <3>1. Fresh(k, s, j) /\ s # t
      BY <1>4 DEF PagesSaved
    <3>. QED
      BY <1>10, <1>12, <3>1 DEF Fresh
  <2>. QED
    BY <2>1, <2>2, <2>3 DEF PagesSaved
<1>19. ASSUME NEW a \in dirs, NEW d \in Dirs, NEW j \in Index
       PROVE  Content(m', a, d, j) = IF a = pd /\ <<d, j>> = page THEN v ELSE Content(m, a, d, j)
  <2>1. Content(m, a, d, j) = Content(k, a, d, j)
    BY <1>3 DEF SameContents
  <2>2. k.directory[a][d] \in T \cup {NoFrame} /\ NoFrame \notin T
    <3>1. k.directory[a][d] \in T \cup {NoFrame}
      BY <1>4, TablesAre, Zenon
    <3>. QED
      BY <1>4, <3>1, MmuAssumption DEF KernelOK
  <2>3. (a = pd /\ <<d, j>> = page) <=> (k.directory[a][d] = t /\ j = i)
    <3>1. <<d, j>> = page <=> d = page[1] /\ j = i
      BY <1>2 DEF i
    <3>2. k.directory[a][d] = t => a = pd /\ d = page[1]
      BY <1>2, <1>4, <1>5, <1>61, <2>2 DEF KernelOK
    <3>. QED
      BY <1>5, <3>1, <3>2
  <2>4. CASE k.directory[a][d] = NoFrame
    <3>1. Content(m', a, d, j) = 0 /\ Content(k, a, d, j) = 0 /\ k.directory[a][d] # t
      BY <1>12, <2>2, <2>4 DEF Content
    <3>. QED
      BY <2>1, <2>3, <3>1
  <2>5. CASE k.directory[a][d] \in T
    <3>1. /\ Content(m', a, d, j) = Value(m', k.directory[a][d], j)
          /\ Content(k, a, d, j) = Value(k, k.directory[a][d], j)
      BY <1>12, <2>2, <2>5 DEF Content
    <3>2. Value(m', k.directory[a][d], j) = IF k.directory[a][d] = t /\ j = i THEN v ELSE Value(k, k.directory[a][d], j)
      BY <1>17, <2>5
    <3>. QED
      BY <2>1, <2>3, <3>1, <3>2
  <2>. QED
    BY <2>2, <2>4, <2>5
<1>20. MmuInv'
  BY <1>2, <1>13, <1>14, <1>18, PidsStay DEF MmuInv, dirs, pd
<1>. QED
  BY <1>19, <1>20 DEF dirs, pd

LEMMA FaultOK ==
  ASSUME MmuInv, NEW p \in Pids, page_directories[p] # NoFrame, SegmentationFault(p) PROVE MmuInv'
<1>1. tlb' = Flushed(p) /\ curr_pid' = p /\ page_directories' = page_directories /\ m' = m
  BY DEF SegmentationFault
<1>2. TlbOK(m, page_directories[p], Flushed(p))
  BY FlushedOK
<1>. QED
  BY <1>1, <1>2, PidsStay DEF MmuInv

LEMMA MmuNextOK == MmuInv /\ [MmuNext]_mmuVars => MmuInv'
<1>. SUFFICES ASSUME MmuInv, [MmuNext]_mmuVars PROVE MmuInv'
  OBVIOUS
<1>1. ASSUME NEW p \in Pids, AddProcess(p) PROVE MmuInv'
  BY <1>1, AddProcessOK
<1>2. ASSUME NEW p \in Pids, page_directories[p] # NoFrame, RemoveProcess(p) PROVE MmuInv'
  BY <1>2, RemoveProcessOK
<1>3. ASSUME NEW p \in Pids, page_directories[p] # NoFrame, SegmentationFault(p) PROVE MmuInv'
  BY <1>3, FaultOK
<1>4. ASSUME NEW p \in Pids, page_directories[p] # NoFrame, NEW page \in Segments, ReadFromVirtualAddress(p, page)
      PROVE  MmuInv'
  BY <1>4, ReadOK
<1>5. ASSUME NEW p \in Pids, page_directories[p] # NoFrame, NEW page \in Segments, NEW v \in PageValues,
             WriteToVirtualAddress(p, page, v)
      PROVE  MmuInv'
  BY <1>5, WriteOK
<1>6. CASE DeleteMmu
  BY <1>6, DeleteMmuOK
<1>7. CASE UNCHANGED mmuVars
  BY <1>7 DEF MmuInv, PidsOK, DirsOf, mmuVars
<1>. QED
  BY <1>1, <1>2, <1>3, <1>4, <1>5, <1>6, <1>7 DEF MmuNext

LEMMA ImageSize ==
  ASSUME NEW S, IsFiniteSet(S), NEW g, \A x, y \in S : g[x] = g[y] => x = y
  PROVE  IsFiniteSet({g[x] : x \in S}) /\ Cardinality({g[x] : x \in S}) = Cardinality(S)
<1>. DEFINE R == {g[x] : x \in S}
            h == [x \in S |-> g[x]]
<1>1. h \in Bijection(S, R)
  BY DEF Bijection, Injection, Surjection, IsInjective
<1>2. ExistsBijection(S, R)
  BY <1>1 DEF ExistsBijection
<1>. HIDE DEF R
<1>3. IsFiniteSet(R) /\ Cardinality(R) = Cardinality(S)
  BY <1>2, FS_Bijection
<1>. QED
  BY <1>3 DEF R

LEMMA MmuInvOwn == MmuInv => FramesAreOwn
<1>. SUFFICES ASSUME MmuInv PROVE FramesAreOwn
  OBVIOUS
<1>. DEFINE directory == {page_directories[p] : p \in Running}
            table == UNION {Tables(m, pd) : pd \in directory}
            entry == {e \in table \X Index : Pte(m, e).base # NoFrame}
            place == {at \in directory \X Dirs : m.directory[at[1]][at[2]] # NoFrame}
            page == {Pte(m, e).base : e \in entry}
<1>1. PICK T : KernelOK(m, directory, T, {})
  <2>1. directory = DirsOf(page_directories)
    BY DEF Running, DirsOf
  <2>. QED
    BY <2>1 DEF MmuInv
<1>2. /\ m \in Kernels /\ directory \subseteq Frames /\ T \subseteq Frames /\ m.used \subseteq Frames
      /\ \A t \in Frames, i \in Index : m.table[t][i].base \in Frame0
      /\ \A a \in Frames, d \in Dirs : m.directory[a][d] \in Frame0
      /\ NoFrame \notin Frames /\ IsFiniteSet(Frames) /\ IsFiniteSet(Pids)
  BY <1>1, MmuAssumption DEF KernelOK, Kernels, Ptes
<1>. HIDE DEF directory
<1>3. table = {m.directory[at[1]][at[2]] : at \in place}
  <2>1. ASSUME NEW t \in table PROVE \E at \in place : t = m.directory[at[1]][at[2]]
    <3>1. PICK a \in directory, d \in Dirs : t = m.directory[a][d] /\ t # NoFrame
      BY DEF Tables
    <3>2. <<a, d>> \in place
      BY <3>1
    <3>. QED
      BY <3>1, <3>2
  <2>2. ASSUME NEW at \in place PROVE m.directory[at[1]][at[2]] \in table
    BY DEF Tables
  <2>. QED
    BY <2>1, <2>2
<1>4. table = T
  <2>1. ASSUME NEW t \in table PROVE t \in T
    <3>1. PICK a \in directory, d \in Dirs : t = m.directory[a][d] /\ t # NoFrame
      BY DEF Tables
    <3>2. t \in Frames
      BY <1>2, <3>1 DEF Frame0
    <3>. QED
      BY <1>1, <3>1, <3>2 DEF KernelOK
  <2>2. ASSUME NEW t \in T PROVE t \in table
    <3>1. PICK a \in directory, d \in Dirs : m.directory[a][d] = t
      BY <1>1, <1>2 DEF KernelOK
    <3>. QED
      BY <1>2, <3>1 DEF Tables
  <2>. QED
    BY <2>1, <2>2
<1>5. page = {f \in Frames : \E t \in T, i \in Index : m.table[t][i].base = f}
  <2>1. ASSUME NEW e \in entry PROVE Pte(m, e).base \in Frames /\ \E t \in T, i \in Index : m.table[t][i].base = Pte(m, e).base
    <3>1. e[1] \in T /\ e[2] \in Index /\ Pte(m, e) = m.table[e[1]][e[2]] /\ Pte(m, e).base # NoFrame
      BY <1>4 DEF Pte
    <3>. QED
      BY <1>2, <3>1 DEF Frame0
  <2>2. ASSUME NEW f \in Frames, NEW t \in T, NEW i \in Index, m.table[t][i].base = f PROVE f \in page
    <3>1. <<t, i>> \in entry /\ Pte(m, <<t, i>>).base = f
      BY <1>2, <1>4, <2>2 DEF Pte
    <3>. QED
      BY <3>1
  <2>. QED
    BY <2>1, <2>2
<1>6. m.used = directory \cup table \cup page
  <2>1. \A f \in Frames : f \in m.used <=> \/ f \in directory \cup T \cup {}
                                          \/ \E t \in T, i \in Index : m.table[t][i].base = f
    BY <1>1 DEF KernelOK
  <2>. HIDE DEF page, table
  <2>. QED
    BY <1>2, <1>4, <1>5, <2>1
<1>7. directory \cap table = {} /\ (directory \cup table) \cap page = {}
  <2>1. \A t \in T, i \in Index : m.table[t][i].base \notin directory \cup T \cup {}
    BY <1>1 DEF KernelOK
  <2>2. directory \cap T = {}
    BY <1>1 DEF KernelOK
  <2>. HIDE DEF page, table
  <2>. QED
    BY <1>4, <1>5, <2>1, <2>2
<1>8. IsFiniteSet(directory) /\ Cardinality(directory) = Cardinality(Running)
  <2>1. IsFiniteSet(Running)
    BY <1>2, FS_Subset DEF Running
  <2>2. \A p, q \in Running : page_directories[p] = page_directories[q] => p = q
    BY DEF MmuInv, PidsOK, Running
  <2>. QED
    BY <2>1, <2>2, ImageSize DEF directory
<1>9. IsFiniteSet(page) /\ IsFiniteSet(table)
  <2>1. page \subseteq Frames /\ table \subseteq Frames
    BY <1>2, <1>4, <1>5
  <2>. HIDE DEF page, table
  <2>. QED
    BY <1>2, <2>1, FS_Subset
<1>10. \A d, e \in entry : Pte(m, d).base = Pte(m, e).base => d = e
  <2>. SUFFICES ASSUME NEW d \in entry, NEW e \in entry, Pte(m, d).base = Pte(m, e).base PROVE d = e
    OBVIOUS
  <2>1. /\ d = <<d[1], d[2]>> /\ e = <<e[1], e[2]>> /\ d[1] \in T /\ e[1] \in T /\ d[2] \in Index /\ e[2] \in Index
        /\ Pte(m, d) = m.table[d[1]][d[2]] /\ Pte(m, e) = m.table[e[1]][e[2]] /\ Pte(m, d).base # NoFrame
    BY <1>4 DEF Pte
  <2>2. d[1] = e[1] /\ d[2] = e[2]
    BY <1>1, <2>1 DEF KernelOK
  <2>. QED
    BY <2>1, <2>2
<1>11. \A x, y \in place : m.directory[x[1]][x[2]] = m.directory[y[1]][y[2]] => x = y
  <2>. SUFFICES ASSUME NEW x \in place, NEW y \in place, m.directory[x[1]][x[2]] = m.directory[y[1]][y[2]] PROVE x = y
    OBVIOUS
  <2>1. /\ x = <<x[1], x[2]>> /\ y = <<y[1], y[2]>> /\ x[1] \in directory /\ y[1] \in directory
        /\ x[2] \in Dirs /\ y[2] \in Dirs /\ m.directory[x[1]][x[2]] # NoFrame
    OBVIOUS
  <2>2. x[1] = y[1] /\ x[2] = y[2]
    BY <1>1, <2>1 DEF KernelOK
  <2>. QED
    BY <2>1, <2>2
<1>12. Cardinality(page) = Cardinality(entry)
  <2>. DEFINE h == [e \in entry |-> Pte(m, e).base]
  <2>1. h \in Bijection(entry, page)
    <3>1. h \in [entry -> page] /\ \A f \in page : \E e \in entry : h[e] = f
      OBVIOUS
    <3>2. \A d, e \in entry : h[d] = h[e] => d = e
      BY <1>10
    <3>. QED
      BY <3>1, <3>2 DEF Bijection, Injection, Surjection, IsInjective
  <2>2. ExistsBijection(page, entry)
    BY <2>1, Fun_ExistsBijSymmetric DEF ExistsBijection
  <2>. QED
    BY <1>9, <2>2, FS_Bijection
<1>13. Cardinality(table) = Cardinality(place)
  <2>. DEFINE h == [x \in place |-> m.directory[x[1]][x[2]]]
  <2>1. h \in Bijection(place, table)
    <3>1. h \in [place -> table] /\ \A f \in table : \E x \in place : h[x] = f
      BY <1>3
    <3>2. \A x, y \in place : h[x] = h[y] => x = y
      BY <1>11
    <3>. QED
      BY <3>1, <3>2 DEF Bijection, Injection, Surjection, IsInjective
  <2>2. ExistsBijection(table, place)
    BY <2>1, Fun_ExistsBijSymmetric DEF ExistsBijection
  <2>. QED
    BY <1>9, <2>2, FS_Bijection
<1>14. Cardinality(m.used) = Cardinality(Running) + Cardinality(entry) + Cardinality(place)
  <2>. HIDE DEF table, page
  <2>1. /\ Cardinality(directory \cup table) = Cardinality(directory) + Cardinality(table) - Cardinality(directory \cap table)
        /\ IsFiniteSet(directory \cup table)
    BY <1>8, <1>9, FS_Union
  <2>2. Cardinality((directory \cup table) \cup page)
          = Cardinality(directory \cup table) + Cardinality(page) - Cardinality((directory \cup table) \cap page)
    BY <1>9, <2>1, FS_Union
  <2>3. Cardinality({}) = 0
    BY FS_EmptySet
  <2>4. Cardinality(directory) \in Nat /\ Cardinality(table) \in Nat /\ Cardinality(page) \in Nat
    BY <1>8, <1>9, FS_CardinalityType
  <2>5. Cardinality(directory \cap table) = 0 /\ Cardinality((directory \cup table) \cap page) = 0
    BY <1>7, <2>3, Zenon
  <2>6. Cardinality(m.used) = Cardinality(directory) + Cardinality(table) + Cardinality(page)
    BY <1>6, <2>1, <2>2, <2>4, <2>5
  <2>7. Cardinality(directory) + Cardinality(table) + Cardinality(page) = Cardinality(directory) + Cardinality(page) + Cardinality(table)
    BY <2>4
  <2>. QED
    BY <1>8, <1>12, <1>13, <2>6, <2>7, Zenon
<1>. QED
  BY <1>6, <1>14, Zenon DEF FramesAreOwn, directory

\* Every frame in use has one place that names it, and none is lost
\* (mmu.c:140-247), for every number of processes and of frames, every size of
\* the tables and of the TLB, and every sequence of calls, also when the kernel
\* takes pages back in the middle of one.
THEOREM FramesCorrect == MmuSpec => []FramesAreOwn
<1>. QED
  BY MmuInitOK, MmuNextOK, MmuInvOwn, PTL DEF MmuSpec

-----------------------------------------------------------------------------
(* The mmu implements address spaces.                                         *)
Space(pds, k, p) ==
  IF pds[p] # NoFrame THEN [page \in Segments |-> Content(k, pds[p], page[1], page[2])] ELSE NoSpace

LEMMA SpacesAre ==
  Spaces = [p \in Pids |-> Space(page_directories, m, p)]
<1>1. ASSUME NEW p \in Pids
      PROVE  (IF p \in Running THEN [page \in Segments |-> PageIn(p, page)] ELSE NoSpace) = Space(page_directories, m, p)
  <2>1. p \in Running <=> page_directories[p] # NoFrame
    BY DEF Running
  <2>2. \A page \in Segments : PageIn(p, page) = Content(m, page_directories[p], page[1], page[2])
    BY DEF PageIn, Content, Value, Saved, Pte
  <2>. QED
    BY <2>1, <2>2 DEF Space
<1>. QED
  BY <1>1 DEF Spaces

LEMMA SpacesWillBe ==
  Spaces' = [p \in Pids |-> Space(page_directories', m', p)]
<1>1. ASSUME NEW p \in Pids
      PROVE  (IF p \in Running' THEN [page \in Segments |-> PageIn(p, page)'] ELSE NoSpace) = Space(page_directories', m', p)
  <2>1. p \in Running' <=> page_directories'[p] # NoFrame
    BY DEF Running
  <2>2. \A page \in Segments : PageIn(p, page)' = Content(m', page_directories'[p], page[1], page[2])
    BY DEF PageIn, Content, Value, Saved, Pte
  <2>. QED
    BY <2>1, <2>2 DEF Space
<1>. QED
  BY <1>1 DEF Spaces

LEMMA SpaceIs ==
  ASSUME MmuInv, NEW p \in Pids, page_directories[p] # NoFrame
  PROVE  Space(page_directories, m, p) # NoSpace
<1>1. PICK T : KernelOK(m, DirsOf(page_directories), T, {})
  BY DEF MmuInv
<1>2. ASSUME NEW page \in Segments PROVE Content(m, page_directories[p], page[1], page[2]) \in PageValues \cup {0}
  <2>. DEFINE t == m.directory[page_directories[p]][page[1]]
              i == page[2]
  <2>1. page_directories[p] \in Frames /\ page[1] \in Dirs /\ i \in Index
    BY MmuAssumption DEF MmuInv, PidsOK, Frame0
  <2>2. t = NoFrame \/ t \in Frames
    BY <1>1, <2>1 DEF KernelOK, Kernels, Frame0
  <2>3. ASSUME t \in Frames PROVE Value(m, t, i) \in Bytes
    <3>. HIDE DEF t, i
    <3>1. m.table[t][i] \in Ptes /\ <<t, i>> \in Entries /\ m.memory \in [Frames -> Bytes] /\ m.swap \in [Entries -> Bytes \cup {NoPage}]
      BY <1>1, <2>1, <2>3 DEF KernelOK, Kernels, Entries
    <3>2. m.table[t][i].base = NoFrame \/ m.memory[m.table[t][i].base] \in Bytes
      BY <3>1 DEF Ptes, Frame0
    <3>3. Saved(m, t, i) \in Bytes
      BY <3>1 DEF Saved, Bytes
    <3>. QED
      BY <3>2, <3>3 DEF Value
  <2>. QED
    BY <2>2, <2>3 DEF Content, Bytes
<1>3. Space(page_directories, m, p) \in [Segments -> PageValues \cup {0}]
  BY <1>2 DEF Space
<1>. QED
  BY <1>3, MmuAssumption

LEMMA SpaceKept ==
  ASSUME NEW p \in Pids, NEW dirs, SameContents(m, m', dirs), page_directories'[p] = page_directories[p],
         page_directories[p] = NoFrame \/ page_directories[p] \in dirs
  PROVE  Space(page_directories', m', p) = Space(page_directories, m, p)
<1>1. CASE page_directories[p] = NoFrame
  BY <1>1 DEF Space
<1>2. CASE page_directories[p] # NoFrame
  <2>1. \A page \in Segments : page[1] \in Dirs /\ page[2] \in Index
    BY MmuAssumption
  <2>. QED
    BY <1>2, <2>1 DEF Space, SameContents
<1>. QED
  BY <1>1, <1>2

LEMMA AddProcessComes ==
  ASSUME MmuInv, NEW p \in Pids, AddProcess(p) PROVE AS!Come(p)
<1>. DEFINE pds == page_directories
<1>1. PICK f \in Frames : /\ pds' = [pds EXCEPT ![p] = f]
                          /\ \A d \in Dirs, i \in Index : Content(m', f, d, i) = 0
  BY AddProcessOK
<1>2. SameContents(m, m', DirsOf(pds)) /\ pds[p] = NoFrame /\ result' = -1 /\ pds \in [Pids -> Frame0]
  BY AddProcessOK DEF AddProcess, MmuInv, PidsOK
<1>3. ASSUME NEW q \in Pids, q # p PROVE Space(pds', m', q) = Space(pds, m, q)
  <2>1. pds'[q] = pds[q] /\ (pds[q] = NoFrame \/ pds[q] \in DirsOf(pds))
    BY <1>1, <1>2, <1>3 DEF DirsOf
  <2>. QED
    BY <1>2, <2>1, SpaceKept
<1>4. Space(pds', m', p) = [page \in Segments |-> 0]
  <2>1. pds'[p] = f /\ f # NoFrame
    BY <1>1, <1>2, MmuAssumption
  <2>2. \A page \in Segments : Content(m', f, page[1], page[2]) = 0
    BY <1>1, MmuAssumption
  <2>. HIDE DEF pds
  <2>. QED
    BY <2>1, <2>2 DEF Space
<1>5. Space(pds, m, p) = NoSpace
  BY <1>2 DEF Space
<1>. HIDE DEF pds
<1>6. Spaces = [q \in Pids |-> Space(pds, m, q)] /\ Spaces' = [q \in Pids |-> Space(pds', m', q)]
  BY SpacesAre, SpacesWillBe DEF pds
<1>7. Spaces' = [Spaces EXCEPT ![p] = [page \in Segments |-> 0]] /\ Spaces[p] = NoSpace
  BY <1>3, <1>4, <1>5, <1>6
<1>. QED
  BY <1>2, <1>7 DEF AS!Come, AS!Silent

LEMMA RemoveProcessGoes ==
  ASSUME MmuInv, NEW p \in Pids, page_directories[p] # NoFrame, RemoveProcess(p) PROVE AS!Go({p})
<1>. DEFINE pds == page_directories
<1>1. /\ SameContents(m, m', DirsOf(pds) \ {pds[p]}) /\ pds' = [pds EXCEPT ![p] = NoFrame] /\ result' = -1
      /\ pds \in [Pids -> Frame0] /\ \A q, r \in Pids : pds[q] = pds[r] /\ pds[q] # NoFrame => q = r
  BY RemoveProcessOK DEF RemoveProcess, MmuInv, PidsOK
<1>2. ASSUME NEW q \in Pids, q # p PROVE Space(pds', m', q) = Space(pds, m, q)
  <2>1. pds'[q] = pds[q] /\ (pds[q] = NoFrame \/ pds[q] \in DirsOf(pds) \ {pds[p]})
    BY <1>1, <1>2 DEF DirsOf
  <2>. QED
    BY <1>1, <2>1, SpaceKept
<1>3. Space(pds', m', p) = NoSpace
  BY <1>1 DEF Space
<1>. HIDE DEF pds
<1>4. Spaces = [q \in Pids |-> Space(pds, m, q)] /\ Spaces' = [q \in Pids |-> Space(pds', m', q)]
  BY SpacesAre, SpacesWillBe DEF pds
<1>5. Spaces' = [q \in Pids |-> IF q \in {p} THEN NoSpace ELSE Spaces[q]]
  BY <1>2, <1>3, <1>4
<1>. QED
  BY <1>1, <1>5 DEF AS!Go, AS!Silent

LEMMA DeleteMmuGoes ==
  ASSUME MmuInv, DeleteMmu PROVE AS!Go(Pids)
<1>1. page_directories' = [p \in Pids |-> NoFrame] /\ result' = -1
  BY DEF DeleteMmu
<1>2. \A p \in Pids : Space(page_directories', m', p) = NoSpace
  BY <1>1 DEF Space
<1>3. Spaces' = [p \in Pids |-> IF p \in Pids THEN NoSpace ELSE Spaces[p]]
  BY <1>2, SpacesWillBe
<1>. QED
  BY <1>1, <1>3 DEF AS!Go, AS!Silent

LEMMA ReadLoads ==
  ASSUME MmuInv, NEW p \in Pids, page_directories[p] # NoFrame, NEW page \in Segments,
         ReadFromVirtualAddress(p, page)
  PROVE  AS!Load(p, page)
<1>. DEFINE pds == page_directories
<1>1. /\ SameContents(m, m', DirsOf(pds)) /\ pds' = pds
      /\ result' = Content(m, pds[p], page[1], page[2])
  BY ReadOK DEF ReadFromVirtualAddress, Checked
<1>2. ASSUME NEW q \in Pids PROVE Space(pds', m', q) = Space(pds, m, q)
  <2>1. pds'[q] = pds[q] /\ (pds[q] = NoFrame \/ pds[q] \in DirsOf(pds))
    BY <1>1 DEF DirsOf
  <2>. QED
    BY <1>1, <2>1, SpaceKept
<1>3. Space(pds, m, p) # NoSpace /\ Space(pds, m, p)[page] = Content(m, pds[p], page[1], page[2])
  BY SpaceIs DEF Space
<1>. HIDE DEF pds
<1>4. Spaces = [q \in Pids |-> Space(pds, m, q)] /\ Spaces' = [q \in Pids |-> Space(pds', m', q)]
  BY SpacesAre, SpacesWillBe DEF pds
<1>5. Spaces' = Spaces /\ Spaces[p] # NoSpace /\ result' = Spaces[p][page]
  BY <1>1, <1>2, <1>3, <1>4
<1>. QED
  BY <1>5 DEF AS!Load

LEMMA WriteStores ==
  ASSUME MmuInv, NEW p \in Pids, page_directories[p] # NoFrame, NEW page \in Segments, NEW v \in PageValues,
         WriteToVirtualAddress(p, page, v)
  PROVE  AS!Store(p, page, v)
<1>. DEFINE pds == page_directories
<1>1. /\ pds' = pds /\ result' = -1
      /\ \A a \in DirsOf(pds), d \in Dirs, i \in Index :
            Content(m', a, d, i) = IF a = pds[p] /\ <<d, i>> = page THEN v ELSE Content(m, a, d, i)
      /\ \A q, r \in Pids : pds[q] = pds[r] /\ pds[q] # NoFrame => q = r
  <2>1. page_directories' = page_directories /\ result' = -1
    BY DEF WriteToVirtualAddress, Checked
  <2>2. \A q, r \in Pids : page_directories[q] = page_directories[r] /\ page_directories[q] # NoFrame => q = r
    BY DEF MmuInv, PidsOK
  <2>3. \A a \in DirsOf(page_directories), d \in Dirs, i \in Index :
          Content(m', a, d, i) = IF a = page_directories[p] /\ <<d, i>> = page THEN v ELSE Content(m, a, d, i)
    BY WriteOK
  <2>. QED
    BY <2>1, <2>2, <2>3
<1>2. \A to \in Segments : to[1] \in Dirs /\ to[2] \in Index /\ to = <<to[1], to[2]>>
  BY MmuAssumption
<1>3. ASSUME NEW q \in Pids, q # p PROVE Space(pds', m', q) = Space(pds, m, q)
  <2>1. CASE pds[q] = NoFrame
    BY <1>1, <2>1 DEF Space
  <2>2. CASE pds[q] # NoFrame
    <3>1. pds[q] \in DirsOf(pds) /\ pds[q] # pds[p]
      BY <1>1, <1>3, <2>2 DEF DirsOf
    <3>2. \A to \in Segments : Content(m', pds[q], to[1], to[2]) = Content(m, pds[q], to[1], to[2])
      BY <1>1, <1>2, <3>1
    <3>. HIDE DEF pds
    <3>. QED
      BY <1>1, <2>2, <3>2 DEF Space
  <2>. QED
    BY <2>1, <2>2
<1>4. Space(pds', m', p) = [Space(pds, m, p) EXCEPT ![page] = v]
  <2>1. pds[p] \in DirsOf(pds)
    BY DEF DirsOf
  <2>2. \A to \in Segments :
          Content(m', pds[p], to[1], to[2]) = IF to = page THEN v ELSE Content(m, pds[p], to[1], to[2])
    BY <1>1, <1>2, <2>1
  <2>3. pds[p] # NoFrame
    OBVIOUS
  <2>. HIDE DEF pds
  <2>. QED
    BY <1>1, <2>2, <2>3 DEF Space
<1>5. Space(pds, m, p) # NoSpace
  BY SpaceIs
<1>. HIDE DEF pds
<1>6. Spaces = [q \in Pids |-> Space(pds, m, q)] /\ Spaces' = [q \in Pids |-> Space(pds', m', q)]
  BY SpacesAre, SpacesWillBe DEF pds
<1>7. Spaces' = [Spaces EXCEPT ![p] = [Spaces[p] EXCEPT ![page] = v]] /\ Spaces[p] # NoSpace
  BY <1>3, <1>4, <1>5, <1>6
<1>. QED
  BY <1>1, <1>7 DEF AS!Store, AS!Silent

LEMMA SpacesUnchanged ==
  ASSUME page_directories' = page_directories, m' = m PROVE Spaces' = Spaces
BY SpacesAre, SpacesWillBe

LEMMA FaultFaults ==
  ASSUME NEW p \in Pids, SegmentationFault(p) PROVE AS!Fault
  BY SpacesUnchanged DEF SegmentationFault, AS!Fault, AS!Silent

\* Each call does what is promised of it.
LEMMA MmuPromised == MmuInv => SpacesPromised
<1>. SUFFICES ASSUME MmuInv PROVE SpacesPromised
  OBVIOUS
<1>1. \A p \in Running : p \in Pids /\ page_directories[p] # NoFrame
  BY DEF Running
<1>2. DeleteMmu => AS!Go(Pids)
  BY DeleteMmuGoes
<1>3. \A p \in Pids : AddProcess(p) => AS!Come(p)
  BY AddProcessComes
<1>4. ASSUME NEW p \in Running
      PROVE  /\ RemoveProcess(p) => AS!Go({p})
             /\ SegmentationFault(p) => AS!Fault
             /\ \A page \in Segments :
                  /\ ReadFromVirtualAddress(p, page) => AS!Load(p, page)
                  /\ \A v \in PageValues : WriteToVirtualAddress(p, page, v) => AS!Store(p, page, v)
  <2>1. RemoveProcess(p) => AS!Go({p})
    BY <1>1, RemoveProcessGoes
  <2>2. SegmentationFault(p) => AS!Fault
    BY <1>1, FaultFaults
  <2>3. \A page \in Segments : ReadFromVirtualAddress(p, page) => AS!Load(p, page)
    BY <1>1, ReadLoads
  <2>4. \A page \in Segments, v \in PageValues : WriteToVirtualAddress(p, page, v) => AS!Store(p, page, v)
    BY <1>1, WriteStores
  <2>. QED
    BY <2>1, <2>2, <2>3, <2>4
<1>. QED
  BY <1>2, <1>3, <1>4 DEF SpacesPromised

LEMMA MmuSteps == MmuInv /\ [MmuNext]_mmuVars => [AS!SpacesNext]_AS!spacesVars
<1>. SUFFICES ASSUME MmuInv, [MmuNext]_mmuVars PROVE AS!SpacesNext \/ UNCHANGED AS!spacesVars
  OBVIOUS
<1>1. ASSUME NEW p \in Pids, AddProcess(p) PROVE AS!SpacesNext
  BY <1>1, AddProcessComes DEF AS!SpacesNext
<1>2. ASSUME NEW p \in Pids, page_directories[p] # NoFrame, RemoveProcess(p) PROVE AS!SpacesNext
  <2>1. AS!Go({p}) /\ {p} \in SUBSET Pids
    BY <1>2, RemoveProcessGoes
  <2>. QED
    BY <2>1 DEF AS!SpacesNext
<1>3. ASSUME NEW p \in Pids, page_directories[p] # NoFrame, SegmentationFault(p) PROVE AS!SpacesNext
  BY <1>3, FaultFaults DEF AS!SpacesNext
<1>4. ASSUME NEW p \in Pids, page_directories[p] # NoFrame, NEW page \in Segments, ReadFromVirtualAddress(p, page)
      PROVE  AS!SpacesNext
  BY <1>4, ReadLoads DEF AS!SpacesNext
<1>5. ASSUME NEW p \in Pids, page_directories[p] # NoFrame, NEW page \in Segments, NEW v \in PageValues,
             WriteToVirtualAddress(p, page, v)
      PROVE  AS!SpacesNext
  BY <1>5, WriteStores DEF AS!SpacesNext
<1>6. ASSUME DeleteMmu PROVE AS!SpacesNext
  <2>1. AS!Go(Pids) /\ Pids \in SUBSET Pids
    BY <1>6, DeleteMmuGoes
  <2>. QED
    BY <2>1 DEF AS!SpacesNext
<1>7. CASE UNCHANGED mmuVars
  BY <1>7, SpacesUnchanged DEF mmuVars, AS!spacesVars
<1>. QED
  BY <1>1, <1>2, <1>3, <1>4, <1>5, <1>6, <1>7 DEF MmuNext

LEMMA MmuStarts == MmuInit => AS!SpacesInit
<1>. SUFFICES ASSUME MmuInit PROVE AS!SpacesInit
  OBVIOUS
<1>1. page_directories = [p \in Pids |-> NoFrame] /\ result = -1
  BY DEF MmuInit
<1>2. Spaces = [p \in Pids |-> NoSpace]
  BY <1>1, SpacesAre DEF Space
<1>. QED
  BY <1>1, <1>2 DEF AS!SpacesInit

\* What a process reads from a page, through the TLB or not, is what it wrote to
\* this page last, and zero before that, whatever the kernel takes back and saves
\* in between and whatever other processes do to the frames and the TLB; every
\* write is done, and changes nothing else (mmu.c:18-126).
THEOREM MmuRefines == MmuSpec => ImplementsAddressSpaces
<1>1. MmuSpec => []MmuInv
  BY MmuInitOK, MmuNextOK, PTL DEF MmuSpec
<1>2. MmuSpec => AS!SpacesSpec
  BY <1>1, MmuStarts, MmuSteps, PTL DEF MmuSpec, AS!SpacesSpec
<1>3. MmuInv => [UNCHANGED mmuVars \/ SpacesPromised]_mmuVars
  BY MmuPromised
<1>. QED
  BY <1>1, <1>2, <1>3, PTL DEF ImplementsAddressSpaces
=============================================================================
