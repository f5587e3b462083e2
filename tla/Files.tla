------------------------------- MODULE Files -------------------------------
(***************************************************************************)
(* What minixfs promises of each call, with its arguments: named files     *)
(* that hold what was last written at each position.  A call that fails    *)
(* says so and leaves all contents alone, except that a write may have     *)
(* brought its file into being.                                            *)
(***************************************************************************)
EXTENDS Integers, Sequences

CONSTANTS Names, Values, Offsets, Counts, NoFile

VARIABLES content,  \* the sequence of units each file holds, or NoFile
          answer    \* what the last call returned

Returns(n) == [ret |-> n, read |-> <<>>]

FilesInit == /\ content = [f \in Names |-> NoFile]
             /\ answer = Returns(0)

\* The file after count units of value v were written at offset off; what
\* was never written is zero.
Overlay(file, off, count, v) ==
  LET end == IF off + count > Len(file) THEN off + count ELSE Len(file)
  IN [p \in 1..end |-> IF p > off /\ p <= off + count THEN v
                       ELSE IF p <= Len(file) THEN file[p] ELSE 0]

Old(f) == IF content[f] = NoFile THEN <<>> ELSE content[f]

Refused == answer' = Returns(-1) /\ UNCHANGED content

Create(f) == /\ content[f] = NoFile
             /\ \/ /\ content' = [content EXCEPT ![f] = <<>>]
                   /\ answer' = Returns(0)
                \/ Refused

\* A write that stays inside of the file is never refused.
Write(f, off, count, v) ==
  \/ /\ content' = [content EXCEPT ![f] = Overlay(Old(f), off, count, v)]
     /\ answer' = Returns(count)
  \/ /\ off + count > Len(Old(f)) \/ content[f] = NoFile
     /\ content' \in {content, [content EXCEPT ![f] = Old(f)]}
     /\ answer' = Returns(-1)

\* The units from off on, count of them or as many as there are.
Part(file, off, count) ==
  LET end == IF off + count < Len(file) THEN off + count ELSE Len(file)
  IN SubSeq(file, off + 1, end)

Read(f, off, count) ==
  \/ /\ content[f] # NoFile
     /\ LET units == Part(content[f], off, count)
        IN answer' = [ret |-> Len(units), read |-> units]
     /\ UNCHANGED content
  \/ content[f] = NoFile /\ Refused

\* The virtual file info says something of the disk and nothing of the files.
Info == /\ answer'.ret >= 0 /\ answer' = Returns(answer'.ret)
        /\ UNCHANGED content

FilesNext == \/ \E f \in Names :
                  \/ Create(f)
                  \/ \E off \in Offsets, count \in Counts :
                       Read(f, off, count) \/ \E v \in Values : Write(f, off, count, v)
             \/ Info

FilesSpec == FilesInit /\ [][FilesNext]_<<content, answer>>
=============================================================================
