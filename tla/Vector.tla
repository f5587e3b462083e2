------------------------------- MODULE Vector -------------------------------
(***************************************************************************)
(* vector/vector.c: a growing array of elements that are copied in and     *)
(* destroyed by callbacks of the user.  Each copy is a new object and has  *)
(* one slot, so that a slot is the value of its object, Null, or Dangling  *)
(* when the object has been destroyed and the pointer is still there.      *)
(* Destroying a Dangling slot breaks the heap; nothing is predicted after: *)
(* insert after erase does so at the end of the array (lines 242, 257).    *)
(* Allocation succeeds.  vector_begin, vector_get and the like only read.  *)
(***************************************************************************)
EXTENDS Integers, Sequences

CONSTANTS Elements, Default, Null, Dangling,
          InitialCapacity,
          MaxSize    \* bound: callers do not go beyond this size

ASSUME VectorAssumption ==
  /\ InitialCapacity \in Nat \ {0}
  /\ Null # Dangling
  /\ {Null, Dangling} \cap (Elements \cup {Default}) = {}

VARIABLES array,   \* slots 0 .. capacity - 1
          size, capacity,
          doubled   \* an object was destroyed twice

vectorVars == <<array, size, capacity, doubled>>

VectorInit == /\ array = [i \in 0 .. InitialCapacity - 1 |-> Default]
              /\ size = 0
              /\ capacity = InitialCapacity
              /\ doubled = FALSE
-----------------------------------------------------------------------------
\* get_new_capacity: the first power of two that is not below target.
GetNewCapacity(target) ==
  LET power[n \in Nat] == IF n < target THEN power[2 * n] ELSE n
  IN power[1]

\* vector_reserve: the array and its capacity afterwards.
Reserved(n) ==
  IF n <= capacity THEN [array |-> array, capacity |-> capacity]
  ELSE LET c == GetNewCapacity(n)
       IN [array |-> [i \in 0 .. c - 1 |-> IF i < size THEN array[i] ELSE Default],
           capacity |-> c]

\* Room for one more element (push_back and insert grow only when full).
Grown == IF size = capacity THEN Reserved(size + 1)
         ELSE [array |-> array, capacity |-> capacity]

Destroys(indices) == doubled' = (\E i \in indices : array[i] = Dangling)

Reserve(n) == /\ array' = Reserved(n).array
              /\ capacity' = Reserved(n).capacity
              /\ UNCHANGED <<size, doubled>>

Resize(n) ==
  /\ size' = n
  /\ IF n < size
     THEN /\ array' = [i \in DOMAIN array |-> IF i \in n .. size - 1 THEN Default ELSE array[i]]
          /\ Destroys(n .. size - 1)
          /\ UNCHANGED capacity
     ELSE /\ array' = [i \in DOMAIN Reserved(n).array |->
                         IF i \in size .. n - 1 THEN Default ELSE Reserved(n).array[i]]
          /\ capacity' = Reserved(n).capacity
          /\ UNCHANGED doubled

Set(p, v) == /\ array' = [array EXCEPT ![p] = v]
             /\ Destroys({p})
             /\ UNCHANGED <<size, capacity>>

PushBack(v) == /\ array' = [Grown.array EXCEPT ![size] = v]
               /\ capacity' = Grown.capacity
               /\ size' = size + 1
               /\ UNCHANGED doubled

PopBack == /\ array' = [array EXCEPT ![size - 1] = Null]
           /\ Destroys({size - 1})
           /\ size' = size - 1
           /\ UNCHANGED capacity

\* The elements from p on are copied one slot up, the last one first; each
\* slot is destroyed before it is overwritten, slot p is not.
Insert(p, v) ==
  /\ array' = [i \in DOMAIN Grown.array |->
                 CASE i = p -> v
                   [] i > p /\ i <= size -> Grown.array[i - 1]
                   [] OTHER -> Grown.array[i]]
  /\ capacity' = Grown.capacity
  /\ doubled' = (\E i \in p + 1 .. size : Grown.array[i] = Dangling)
  /\ size' = size + 1

\* Fault: the shift stops one element early.
ShiftedOneLess(p, i) == IF i >= p /\ i < size - 2 THEN array[i + 1] ELSE array[i]

Shifted(p, i) == IF i >= p /\ i < size - 1 THEN array[i + 1] ELSE array[i]

\* The last slot is destroyed and keeps its pointer.
Erase(p) ==
  /\ p < size
  /\ array' = [i \in DOMAIN array |-> IF i = size - 1 THEN Dangling ELSE Shifted(p, i)]
  /\ Destroys(p .. size - 1)
  /\ size' = size - 1
  /\ UNCHANGED capacity

\* vector_clear; vector_destroy and vector_create leave the same slots to be
\* read, none, but in an array of the first capacity.
Clear == /\ array' = [i \in DOMAIN array |-> IF i < size THEN Null ELSE array[i]]
         /\ Destroys(0 .. size - 1)
         /\ size' = 0
         /\ UNCHANGED capacity

Renew == /\ array' = [i \in 0 .. InitialCapacity - 1 |-> Default]
         /\ Destroys(0 .. size - 1)
         /\ size' = 0
         /\ capacity' = InitialCapacity

\* Callers keep to the list: only erase looks at its position, set, insert and
\* pop_back do not (lines 189, 227, 235).
VectorNext ==
  /\ ~doubled
  /\ \/ \E n \in 0..MaxSize : Reserve(n) \/ Resize(n)
     \/ \E v \in Elements :
          \/ size < MaxSize /\ (PushBack(v) \/ \E p \in 0..size : Insert(p, v))
          \/ \E p \in 0 .. size - 1 : Set(p, v)
     \/ \E p \in 0 .. size - 1 : Erase(p)
     \/ size > 0 /\ PopBack
     \/ Clear \/ Renew

VectorSpec == VectorInit /\ [][VectorNext]_vectorVars
-----------------------------------------------------------------------------
\* The vector implements a sequence: each call, with its position and its
\* value, does to the elements what it does to a list (vector.c:135-268).
Held == [n \in 1..size |-> array[n - 1]]

L == INSTANCE List WITH list <- Held

VectorPromised ==
  /\ \A n \in 0..MaxSize : (Reserve(n) => UNCHANGED Held) /\ (Resize(n) => L!Extend(n))
  /\ \A v \in Elements :
       /\ PushBack(v) => L!Put(size, v)
       /\ \A p \in 0..size : Insert(p, v) => L!Put(p, v)
       /\ \A p \in 0 .. size - 1 : Set(p, v) => L!Change(p, v)
  /\ \A p \in 0 .. size - 1 : Erase(p) => L!Drop(p)
  /\ size > 0 /\ PopBack => L!Drop(size - 1)
  /\ Clear \/ Renew => L!Extend(0)

ImplementsList == L!ListSpec /\ [][UNCHANGED vectorVars \/ VectorPromised]_vectorVars
=============================================================================
