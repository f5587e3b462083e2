-------------------------------- MODULE List --------------------------------
(***************************************************************************)
(* What the vector promises of each call, with its arguments: a sequence   *)
(* of values.  Positions count from 0.                                     *)
(***************************************************************************)
EXTENDS Naturals, Sequences

CONSTANTS Elements, Default

VARIABLE list

ListInit == list = <<>>

Put(n, v) == list' = SubSeq(list, 1, n) \o <<v>> \o SubSeq(list, n + 1, Len(list))
Drop(n) == list' = SubSeq(list, 1, n) \o SubSeq(list, n + 2, Len(list))
Change(n, v) == list' = [list EXCEPT ![n + 1] = v]
\* To a length, with Default in the new places.
Extend(n) == list' = IF n <= Len(list) THEN SubSeq(list, 1, n)
                     ELSE list \o [k \in 1 .. n - Len(list) |-> Default]

ListNext == \/ \E n \in 0..Len(list), v \in Elements : Put(n, v)
            \/ \E n \in 0 .. Len(list) - 1 : Drop(n) \/ \E v \in Elements : Change(n, v)
            \/ Extend(Len(list'))

ListSpec == ListInit /\ [][ListNext]_list
=============================================================================
