-------------------------------- MODULE Mmu --------------------------------
(***************************************************************************)
(* ideal_indirection/mmu.c: processes whose pages are found through a      *)
(* directory, its tables and a TLB that all of them share.  A page is      *)
(* <<index in the directory, index in the table>>; an entry of a table is  *)
(* known by its place, <<frame of the table, index>>, as a pointer is, and *)
(* holds one value per page.                                               *)
(*                                                                         *)
(* The kernel is external.  It gives out cleared frames (the code uses     *)
(* them as tables without clearing them); when none is free it takes a     *)
(* frame back that was asked for with an entry, after it has saved a dirty *)
(* page to a swap file named after that entry.                             *)
(* The assertions of the callers (an access stays inside of a page, the    *)
(* process is there) are guards; the counters of faults are left out.      *)
(***************************************************************************)
EXTENDS Integers, FiniteSets

CONSTANTS Pids, Frames,      \* both 0 .. n
          Dirs, Index,       \* places in a directory and in a table
          Testing,           \* places in table 0 that a new process gets pages for
          Segments,          \* pages in the segments; all others fault
          PageValues, TlbSize,
          NoFrame, NoEntry, NoSpace, NoPage

ASSUME MmuAssumption == /\ Pids = 0 .. Cardinality(Pids) - 1 /\ IsFiniteSet(Pids)
                        /\ 0 \in Pids /\ 0 \in Dirs
                        /\ Frames \subseteq Nat /\ IsFiniteSet(Frames) /\ NoFrame \notin Frames
                        /\ Testing \in Nat /\ 1..Testing \subseteq Index
                        /\ Segments \subseteq Dirs \X Index
                        /\ NoEntry \notin Frames \X Index
                        /\ NoPage \notin PageValues \cup {0}
                        /\ NoSpace \notin [Segments -> PageValues \cup {0}]

VARIABLES page_directories,  \* the frame of each process's directory
          tlb, curr_pid,     \* tlb: page -> place of its entry
          m,                 \* what the kernel keeps: frames in use, their entries and contents, swap
          result             \* what the last call read, or -1

mmuVars == <<page_directories, tlb, curr_pid, m, result>>

Entries == Frames \X Index
NoTables == [d \in Dirs |-> NoFrame]
NoPages == [i \in Index |-> [base |-> NoFrame, dirty |-> FALSE]]
NoTlb == [page \in {} |-> NoEntry]

MmuInit ==
  /\ page_directories = [p \in Pids |-> NoFrame]
  /\ tlb = NoTlb
  /\ curr_pid = 0
  /\ m = [used |-> {},
          owner |-> [f \in Frames |-> NoEntry],
          directory |-> [f \in Frames |-> NoTables],
          table |-> [f \in Frames |-> NoPages],
          memory |-> [f \in Frames |-> 0],
          swap |-> [e \in Entries |-> NoPage]]
  /\ result = -1
-----------------------------------------------------------------------------
\* The kernel.
Pte(k, e) == k.table[e[1]][e[2]]

\* Frame f for entry e; what is not in use is clear.
Given(k, f, e) == [k EXCEPT !.used = @ \cup {f}, !.owner[f] = e]

Evicted(k, f) ==
  LET e == k.owner[f]
  IN [k EXCEPT !.table[e[1]][e[2]].base = NoFrame,
               !.memory[f] = 0,
               !.swap[e] = IF Pte(k, e).dirty THEN k.memory[f] ELSE @]

\* return_frame_to_kernel, for frames back.
Returned(k, back) ==
  [k EXCEPT !.used = @ \ back,
            !.owner = [f \in Frames |-> IF f \in back THEN NoEntry ELSE @[f]],
            !.directory = [f \in Frames |-> IF f \in back THEN NoTables ELSE @[f]],
            !.table = [f \in Frames |-> IF f \in back THEN NoPages ELSE @[f]],
            !.memory = [f \in Frames |-> IF f \in back THEN 0 ELSE @[f]]]

Evictable(k) == {f \in k.used : k.owner[f] # NoEntry}

\* ask_kernel_for_frame(e): the states and frames it may return.
AskKernelForFrame(k, e) ==
  IF k.used # Frames
  THEN LET f == CHOOSE g \in Frames \ k.used : \A h \in Frames \ k.used : g <= h
       IN {[k |-> Given(k, f, e), frame |-> f]}
  ELSE {[k |-> Given(Evicted(k, f), f, e), frame |-> f] : f \in Evictable(k)}

Attach(k, pd, d, f) == [k EXCEPT !.directory[pd][d] = f]
Map(k, e, f) == [k EXCEPT !.table[e[1]][e[2]].base = f]
ReadPageFromDisk(k, e, f) == IF k.swap[e] = NoPage THEN k ELSE [k EXCEPT !.memory[f] = k.swap[e]]

\* tlb_add_pte: some other translation is dropped when the TLB is full.
WithEntry(t, page, e) ==
  LET add(kept) == [q \in kept \cup {page} |-> IF q = page THEN e ELSE t[q]]
  IN IF Cardinality(DOMAIN t) < TlbSize THEN {add(DOMAIN t)}
     ELSE {add(DOMAIN t \ {q}) : q \in DOMAIN t}
-----------------------------------------------------------------------------
PageFor(k, e) == {Map(a.k, e, a.frame) : a \in AskKernelForFrame(k, e)}

\* Pages for the first places of table t, one after the other.
WithTestingPages(k, t) ==
  LET steps[i \in 0..Testing] == IF i = 0 THEN {k} ELSE UNION {PageFor(j, <<t, i>>) : j \in steps[i - 1]}
  IN steps[Testing]

AddProcess(p) ==
  /\ page_directories[p] = NoFrame
  /\ \E pd \in AskKernelForFrame(m, NoEntry) :
     \E pt \in AskKernelForFrame(pd.k, NoEntry) :
       /\ m' \in WithTestingPages(Attach(pt.k, pd.frame, 0, pt.frame), pt.frame)
       /\ page_directories' = [page_directories EXCEPT ![p] = pd.frame]
  /\ result' = -1
  /\ UNCHANGED <<tlb, curr_pid>>

\* The frames process p has: its directory, its tables, its pages.
Tables(k, pd) == {k.directory[pd][d] : d \in Dirs} \ {NoFrame}
EntriesOf(k, pd) == Tables(k, pd) \X Index
Pages(k, pd) == {Pte(k, e).base : e \in EntriesOf(k, pd)} \ {NoFrame}

\* Fault: the tables are not given back.
RemovedKeepsTables(k, pd) == IF pd = NoFrame THEN k ELSE Returned(k, {pd} \cup Pages(k, pd))

Removed(k, pd) ==
  IF pd = NoFrame THEN k
  ELSE LET back == {pd} \cup Tables(k, pd) \cup Pages(k, pd)
       IN [Returned(k, back) EXCEPT
             !.swap = [e \in Entries |-> IF e \in EntriesOf(k, pd) THEN NoPage ELSE @[e]]]

RemoveProcess(p) ==
  /\ m' = Removed(m, page_directories[p])
  /\ page_directories' = [page_directories EXCEPT ![p] = NoFrame]
  /\ tlb' = IF curr_pid = p THEN NoTlb ELSE tlb
  /\ result' = -1
  /\ UNCHANGED curr_pid

\* mmu_delete, and mmu_create for the mmu after it.
AllRemoved ==
  LET rest[n \in 0..Cardinality(Pids)] ==
        IF n = 0 THEN m ELSE Removed(rest[n - 1], page_directories[n - 1])
  IN rest[Cardinality(Pids)]

DeleteMmu ==
  /\ m' = AllRemoved
  /\ page_directories' = [p \in Pids |-> NoFrame]
  /\ tlb' = NoTlb
  /\ curr_pid' = 0
  /\ result' = -1
-----------------------------------------------------------------------------
\* Fault: the TLB is not flushed when the process changes.
FlushedNever(p) == tlb

\* mmu_perform_check for a page of a segment: the TLB, the entry and the
\* kernel afterwards.  Frames for tables and for pages that fault are asked
\* for without an entry, and stay.
Flushed(p) == IF p # curr_pid THEN NoTlb ELSE tlb

Tabled(k, pd, d) ==
  IF k.directory[pd][d] # NoFrame THEN {k}
  ELSE {Attach(a.k, pd, d, a.frame) : a \in AskKernelForFrame(k, NoEntry)}

Looked(p, page) ==
  IF page \in DOMAIN Flushed(p)
  THEN {[k |-> m, tlb |-> Flushed(p), pte |-> Flushed(p)[page]]}
  ELSE UNION {LET e == <<k.directory[page_directories[p]][page[1]], page[2]>>
              IN {[k |-> k, tlb |-> t, pte |-> e] : t \in WithEntry(Flushed(p), page, e)}
              : k \in Tabled(m, page_directories[p], page[1])}

Present(k, e) ==
  IF Pte(k, e).base # NoFrame THEN {k}
  ELSE {ReadPageFromDisk(Map(a.k, e, a.frame), e, a.frame) : a \in AskKernelForFrame(k, NoEntry)}

PerformCheck(p, page) ==
  UNION {{[look EXCEPT !.k = k] : k \in Present(look.k, look.pte)} : look \in Looked(p, page)}

Checked(p, check) == /\ tlb' = check.tlb
                     /\ curr_pid' = p
                     /\ UNCHANGED page_directories

ReadFromVirtualAddress(p, page) ==
  \E check \in PerformCheck(p, page) :
    /\ Checked(p, check)
    /\ m' = check.k
    /\ result' = check.k.memory[Pte(check.k, check.pte).base]

WriteToVirtualAddress(p, page, v) ==
  \E check \in PerformCheck(p, page) :
    /\ Checked(p, check)
    /\ m' = [check.k EXCEPT !.memory[Pte(check.k, check.pte).base] = v,
                            !.table[check.pte[1]][check.pte[2]].dirty = TRUE]
    /\ result' = -1

\* An access outside of all segments faults, after the switch of process.
SegmentationFault(p) ==
  /\ tlb' = Flushed(p)
  /\ curr_pid' = p
  /\ result' = -1
  /\ UNCHANGED <<page_directories, m>>

MmuNext ==
  \/ \E p \in Pids :
       \/ AddProcess(p)
       \/ /\ page_directories[p] # NoFrame
          /\ \/ RemoveProcess(p)
             \/ SegmentationFault(p)
             \/ \E page \in Segments :
                  \/ ReadFromVirtualAddress(p, page)
                  \/ \E v \in PageValues : WriteToVirtualAddress(p, page, v)
  \/ DeleteMmu

MmuSpec == MmuInit /\ [][MmuNext]_mmuVars
-----------------------------------------------------------------------------
Running == {p \in Pids : page_directories[p] # NoFrame}

\* Every frame in use has one place that names it, a directory, a table or a
\* page of one process, and no frame is lost when processes come, fault,
\* lose pages to others and go (mmu.c:140-247).
FramesAreOwn ==
  LET directory == {page_directories[p] : p \in Running}
      table == UNION {Tables(m, pd) : pd \in directory}
      entry == {e \in table \X Index : Pte(m, e).base # NoFrame}
  IN /\ m.used = directory \cup table \cup {Pte(m, e).base : e \in entry}
     /\ Cardinality(m.used) = Cardinality(Running) + Cardinality(entry)
          + Cardinality({at \in directory \X Dirs : m.directory[at[1]][at[2]] # NoFrame})

\* The mmu implements address spaces, call by call: a read of a page by a
\* process gives what this process wrote to this page last, and a write puts
\* its value there and nowhere else, through the TLB or not, whatever other
\* processes did to the frames, the swap files and the TLB in between; only an
\* access outside of the segments does nothing (mmu.c:18-126).
PageIn(p, page) ==
  LET f == m.directory[page_directories[p]][page[1]]
      e == <<f, page[2]>>
  IN IF f = NoFrame THEN 0
     ELSE IF Pte(m, e).base # NoFrame THEN m.memory[Pte(m, e).base]
     ELSE IF m.swap[e] # NoPage THEN m.swap[e] ELSE 0

Spaces == [p \in Pids |-> IF p \in Running THEN [page \in Segments |-> PageIn(p, page)] ELSE NoSpace]

AS == INSTANCE AddressSpaces WITH space <- Spaces

SpacesPromised ==
  /\ DeleteMmu => AS!Go(Pids)
  /\ \A p \in Pids : AddProcess(p) => AS!Come(p)
  /\ \A p \in Running :
       /\ RemoveProcess(p) => AS!Go({p})
       /\ SegmentationFault(p) => AS!Fault
       /\ \A page \in Segments :
            /\ ReadFromVirtualAddress(p, page) => AS!Load(p, page)
            /\ \A v \in PageValues : WriteToVirtualAddress(p, page, v) => AS!Store(p, page, v)

ImplementsAddressSpaces == AS!SpacesSpec /\ [][UNCHANGED mmuVars \/ SpacesPromised]_mmuVars
=============================================================================
