------------------------------ MODULE MinixFs ------------------------------
(***************************************************************************)
(* finding_filesystems/minixfs.c: files and one directory on a disk of     *)
(* data blocks.  A block holds BlockUnits units; an inode has Direct       *)
(* blocks of its own and Indirect more that an indirect block points to.   *)
(* The helpers of minixfs_utils (allocation of blocks and inodes) are      *)
(* external.  chmod, chown and the clocks are left out.                    *)
(*                                                                         *)
(* Line 235 adds the offset inside the block to a pointer to blocks, so    *)
(* that a write that starts inside a block goes to a later one             *)
(* (misplaced).  If that is no block of data the structure of the disk is  *)
(* gone (torn), and the model stops.                                       *)
(***************************************************************************)
EXTENDS Integers, Sequences, FiniteSets

CONSTANTS Names, Values, Direct, Indirect, BlockUnits, EntriesPerBlock,
          DataBlocks,    \* number of data blocks on the disk
          FileInodes,    \* inodes beside that of the directory
          WriteStarts, WriteSizes, ReadStarts,  \* offsets and lengths of the calls
          NoFile, NoBlock

ASSUME MinixFsAssumption ==
  /\ {Direct, Indirect, BlockUnits, EntriesPerBlock, DataBlocks} \subseteq Nat \ {0}
  /\ FileInodes \in Nat
  /\ WriteStarts \subseteq Nat /\ WriteSizes \subseteq Nat /\ ReadStarts \subseteq Nat
  /\ NoBlock \notin Nat /\ NoFile \notin Seq(Values \cup {0})

\* The directory can hold a name for every inode: lines 93-126 do not look.
ASSUME DirectoryAssumption == FileInodes <= (Direct + Indirect) * EntriesPerBlock

Slots == 0 .. Direct + Indirect - 1
DataBlock == 0 .. DataBlocks - 1
MaxLength == (Direct + Indirect) * BlockUnits
Root == 0

VARIABLES inode,     \* inode[i].at[k] is its k-th block; inode[i].size is in units, the directory's in entries
          data_used, \* the map of used blocks
          data,      \* the units of each block
          entries,   \* the directory: the names in it, in order; the n-th new inode is n
          inodes,    \* how many inodes have been handed out
          torn,
          misplaced, \* a write that started inside a block has been made
          answer     \* the last call's return value and what it read

minixVars == <<inode, data_used, data, entries, inodes, torn, misplaced, answer>>

\* What a call returns that reads nothing.
Returns(n) == [ret |-> n, read |-> <<>>]

disk == [inode |-> inode, data_used |-> data_used]

MinixInit ==
  /\ inode = [i \in 0..FileInodes |->
                [at |-> [k \in Slots |-> NoBlock], indirect |-> NoBlock, size |-> 0]]
  /\ data_used = {}
  /\ data = [b \in DataBlock |-> [u \in 0 .. BlockUnits - 1 |-> 0]]
  /\ entries = <<>>
  /\ inodes = 0
  /\ torn = FALSE /\ misplaced = FALSE
  /\ answer = Returns(0)
-----------------------------------------------------------------------------
Free(d) == DataBlock \ d.data_used
FirstUnused(d) == CHOOSE b \in Free(d) : \A c \in Free(d) : b <= c

\* Fault: the indirect block is not marked as used.
AddIndirectUnmarked(d, i, k) ==
  IF k < Direct \/ d.inode[i].indirect # NoBlock \/ Free(d) = {} THEN d
  ELSE [d EXCEPT !.inode[i].indirect = FirstUnused(d)]

AddIndirect(d, i, k) ==
  IF k < Direct \/ d.inode[i].indirect # NoBlock \/ Free(d) = {} THEN d
  ELSE [d EXCEPT !.inode[i].indirect = FirstUnused(d),
                 !.data_used = @ \cup {FirstUnused(d)}]

\* Slot k of inode i gets a block, and the indirect block before it, if it
\* has none and there is room.
AddBlock(d, i, k) ==
  LET e == AddIndirect(d, i, k)
  IN IF \/ e.inode[i].at[k] # NoBlock
        \/ Free(e) = {}
        \/ k >= Direct /\ e.inode[i].indirect = NoBlock THEN e
     ELSE [e EXCEPT !.inode[i].at[k] = FirstUnused(e),
                    !.data_used = @ \cup {FirstUnused(e)}]

\* minixfs_min_blockcount: blocks for the first n slots, as far as there is room.
MinBlockCount(d, i, n) ==
  LET filled[k \in 0..n] == IF k = 0 THEN d ELSE AddBlock(filled[k - 1], i, k - 1)
  IN IF n > Direct + Indirect THEN d ELSE filled[n]

HasBlocks(d, i, n) == n <= Direct + Indirect /\ \A k \in 0 .. n - 1 : d.inode[i].at[k] # NoBlock
-----------------------------------------------------------------------------
\* The inode a name has: entries are <<name, inode number>>.
Exists(f) == \E n \in DOMAIN entries : entries[n][1] = f
InodeOf(f) == (CHOOSE e \in {entries[n] : n \in DOMAIN entries} : e[1] = f)[2]

\* minixfs_create_inode_for_path for a name that does not exist: the disk
\* with a new inode and a block for its entry.  An inode that was
\* initialised stays so when there is no block for the entry.
NewInode == inodes + 1
DirSlot == Len(entries) \div EntriesPerBlock
DirDisk == AddBlock(disk, Root, DirSlot)
CanInit == inodes < FileInodes
CanEnter == CanInit /\ DirDisk.inode[Root].at[DirSlot] # NoBlock

Enter(f) == /\ entries' = IF CanEnter THEN Append(entries, <<f, NewInode>>) ELSE entries
            /\ inodes' = IF CanInit THEN NewInode ELSE inodes

CreateFile(f) ==
  /\ ~torn /\ ~Exists(f)
  /\ Enter(f)
  /\ data_used' = IF CanInit THEN DirDisk.data_used ELSE data_used
  /\ inode' = IF CanEnter THEN [DirDisk.inode EXCEPT ![Root].size = @ + 1]
              ELSE IF CanInit THEN DirDisk.inode ELSE inode
  /\ answer' = Returns(IF CanEnter THEN 0 ELSE -1)
  /\ UNCHANGED <<data, torn, misplaced>>

\* The code allows more than the slots can hold: see line 164.
MaxFileSize == (Indirect + Direct * Direct) * BlockUnits
BlocksNeeded(n) == (n + BlockUnits - 1) \div BlockUnits

\* Where unit p of a write goes that starts at off.
Target(node, off, p) ==
  LET k == p \div BlockUnits
      start == IF off > k * BlockUnits THEN off ELSE k * BlockUnits
  IN <<node.at[k] + (start % BlockUnits), p - start>>

\* The blocks that hold units of files, on disk d.
FileBlocks(d) == {d.inode[i].at[k] : i \in 1..FileInodes, k \in Slots} \ {NoBlock}

\* Fault: the end of a write is the end of the file.
NewSizeIsEnd(old, end) == end

\* The size of a file after a write that ended at end.
NewSize(old, end) == IF end > old THEN end ELSE old

\* minixfs_write of count units of value v, on disk d where f is inode i.
WriteTo(d, i, off, count, v) ==
  LET n == BlocksNeeded(off + count)
      e == MinBlockCount(d, i, n)
      aim == {Target(e.inode[i], off, p) : p \in off .. off + count - 1}
  IN /\ data_used' = e.data_used
     /\ IF HasBlocks(e, i, n)
        THEN /\ inode' = [e.inode EXCEPT ![i].size = NewSize(@, off + count)]
             /\ data' = [b \in DataBlock |-> [u \in 0 .. BlockUnits - 1 |->
                           IF <<b, u>> \in aim THEN v ELSE data[b][u]]]
             /\ torn' = (\E a \in aim : a[1] \notin FileBlocks(e))
             /\ misplaced' = (misplaced \/ off % BlockUnits # 0)
             /\ answer' = Returns(count)
        ELSE /\ inode' = e.inode
             /\ answer' = Returns(-1)
             /\ UNCHANGED <<data, torn, misplaced>>

MinixRefuse == answer' = Returns(-1) /\ UNCHANGED <<inode, data_used, data, entries, inodes, torn, misplaced>>

MinixWrite(f, off, count, v) ==
  /\ ~torn
  /\ IF off + count > MaxFileSize THEN MinixRefuse
     ELSE IF Exists(f)
     THEN WriteTo(disk, InodeOf(f), off, count, v) /\ UNCHANGED <<entries, inodes>>
     ELSE /\ Enter(f)
          /\ IF CanEnter
             THEN WriteTo([DirDisk EXCEPT !.inode[Root].size = @ + 1], NewInode, off, count, v)
             ELSE /\ answer' = Returns(-1)
                  /\ inode' = IF CanInit THEN DirDisk.inode ELSE inode
                  /\ data_used' = IF CanInit THEN DirDisk.data_used ELSE data_used
                  /\ UNCHANGED <<data, torn, misplaced>>

\* The unit of node at position p, as minixfs_read finds it.
UnitAt(node, p) == data[node.at[p \div BlockUnits]][p % BlockUnits]

MinixRead(f, off, count) ==
  /\ ~torn
  /\ IF ~Exists(f) THEN MinixRefuse
     ELSE LET node == inode[InodeOf(f)]
              end == IF off + count < node.size THEN off + count ELSE node.size
              units == IF off >= node.size THEN <<>>
                       ELSE [n \in 1 .. end - off |-> UnitAt(node, off + n - 1)]
          IN /\ answer' = [ret |-> Len(units), read |-> units]
             /\ UNCHANGED <<inode, data_used, data, entries, inodes, torn, misplaced>>

\* Reading the virtual path "info": the number of used blocks, counted in
\* the map.
VirtualRead == /\ ~torn
               /\ answer' = Returns(Cardinality(data_used))
               /\ UNCHANGED <<inode, data_used, data, entries, inodes, torn, misplaced>>

MinixNext ==
  \/ \E f \in Names :
       \/ CreateFile(f)
       \/ \E off \in WriteStarts, count \in WriteSizes, v \in Values :
            MinixWrite(f, off, count, v)
       \/ \E off \in ReadStarts : MinixRead(f, off, MaxLength)
  \/ VirtualRead

MinixSpec == MinixInit /\ [][MinixNext]_minixVars
-----------------------------------------------------------------------------
\* A file system whose blocks are where the inodes say they are.  All places
\* that name a block name a different one, and the map of used blocks (which
\* the info file counts) names the same blocks: nothing two files write to,
\* nothing lost, also after a write or a creation that ran out of room
\* half-way (minixfs.c:99-122, 182).
BlockOf(p) == inode[p[1]].at[p[2]]
Places == {p \in (0..FileInodes) \X Slots : BlockOf(p) # NoBlock}
Indirects == {i \in 0..FileInodes : inode[i].indirect # NoBlock}

BlocksAreOwn ==
  ~torn =>
    /\ \A p, q \in Places : BlockOf(p) = BlockOf(q) => p = q
    /\ \A i, j \in Indirects : inode[i].indirect = inode[j].indirect => i = j
    /\ data_used = {BlockOf(p) : p \in Places} \cup {inode[i].indirect : i \in Indirects}
    /\ Cardinality(data_used) = Cardinality(Places) + Cardinality(Indirects)

\* Reads return what was written: each call, with the file, the position and
\* the units it was made for, does what a file system of named files does
\* (minixfs.c:65-306) - as long as no write has started inside a block, which
\* line 235 sends elsewhere.
Contents == [f \in Names |->
               IF ~Exists(f) THEN NoFile
               ELSE LET node == inode[InodeOf(f)] IN [n \in 1..node.size |-> UnitAt(node, n - 1)]]

F == INSTANCE Files WITH content <- Contents,
                         Offsets <- WriteStarts \cup ReadStarts, Counts <- WriteSizes \cup {MaxLength}

FilesPromised ==
  /\ \A f \in Names :
       /\ CreateFile(f) => F!Create(f)
       /\ \A off \in WriteStarts, count \in WriteSizes, v \in Values :
            MinixWrite(f, off, count, v) => F!Write(f, off, count, v)
       /\ \A off \in ReadStarts : MinixRead(f, off, MaxLength) => F!Read(f, off, MaxLength)
  /\ VirtualRead => F!Info

ImplementsFiles ==
  F!FilesInit /\ [][UNCHANGED minixVars \/ misplaced' \/ (F!FilesNext /\ FilesPromised)]_minixVars
=============================================================================
