--------------------------- MODULE ParMake_proofs ---------------------------
(* Proofs about parallel_make, for any makefile with finitely many rules and  *)
(* any number of workers: the cycle check drops exactly the goals that depend *)
(* on a cycle; the sort lists the rules that the others need, each once and   *)
(* after what it depends on; a rule's commands run at most once and after     *)
(* those of its dependencies; when the workers are done every goal is decided. *)
EXTENDS ParMake, TLAPS, FiniteSetTheorems, WellFoundedInduction
-----------------------------------------------------------------------------
(* The sort.  A search is described by how it comes about: Derived is the     *)
(* least set of pairs of a search's start and its end that contains every     *)
(* empty list and follows the loop.                                           *)

LEMMA LeastNumber == \A S \in SUBSET Nat : S # {} => \E n \in S : \A k \in S : n <= k
<1>. SUFFICES ASSUME NEW S \in SUBSET Nat, S # {} PROVE \E n \in S : \A k \in S : n <= k
  OBVIOUS
<1>1. PICK n \in S : \A k \in S : ~(<<k, n>> \in OpToRel(<, Nat))
  BY WFMin, NatLessThanWellFounded
<1>2. \A k \in S : ~(k < n)
  BY <1>1 DEF OpToRel
<1>. QED
  BY <1>2

Searches(V) == [todo : Seq(V), visited : SUBSET V, sorted : Seq(V)]
Skipped(s) == [todo |-> Tail(s.todo), visited |-> s.visited, sorted |-> s.sorted]
Below(G, s) == [todo |-> G[Head(s.todo)], visited |-> s.visited \cup {Head(s.todo)}, sorted |-> s.sorted]
Behind(s, b) == [todo |-> Tail(s.todo), visited |-> b.visited, sorted |-> Append(b.sorted, Head(s.todo))]

FromEmpty(s, a) == s.todo = <<>> /\ a = s
FromVisited(S, s, a) == s.todo # <<>> /\ Head(s.todo) \in s.visited /\ <<Skipped(s), a>> \in S
FromNew(G, V, S, s, a) == /\ s.todo # <<>> /\ Head(s.todo) \notin s.visited
                          /\ \E b \in Searches(V) : <<Below(G, s), b>> \in S /\ <<Behind(s, b), a>> \in S
Follows(G, V, S, s, a) == FromEmpty(s, a) \/ FromVisited(S, s, a) \/ FromNew(G, V, S, s, a)
Closed(G, V, S) == \A s, a \in Searches(V) : Follows(G, V, S, s, a) => <<s, a>> \in S

Derived(G, V) == {p \in Searches(V) \X Searches(V) :
                    \A S \in SUBSET (Searches(V) \X Searches(V)) : Closed(G, V, S) => p \in S}

LEMMA DerivedClosed == \A G, V : Closed(G, V, Derived(G, V))
<1>. SUFFICES ASSUME NEW G, NEW V, NEW s \in Searches(V), NEW a \in Searches(V),
                     Follows(G, V, Derived(G, V), s, a),
                     NEW S \in SUBSET (Searches(V) \X Searches(V)), Closed(G, V, S)
              PROVE  <<s, a>> \in S
  BY DEF Closed, Derived
<1>1. Derived(G, V) \subseteq S
  BY DEF Derived
<1>2. Follows(G, V, S, s, a)
  BY <1>1 DEF Follows, FromVisited, FromNew
<1>. QED
  BY <1>2 DEF Closed

\* What is true of what follows is true of all that is derived.
LEMMA DerivedLeast ==
  ASSUME NEW G, NEW V, NEW S \in SUBSET Derived(G, V),
         \A s, a \in Searches(V) : Follows(G, V, S, s, a) /\ <<s, a>> \in Derived(G, V) => <<s, a>> \in S
  PROVE  S = Derived(G, V)
<1>1. S \in SUBSET (Searches(V) \X Searches(V))
  BY DEF Derived
<1>2. Closed(G, V, S)
  <2>. SUFFICES ASSUME NEW s \in Searches(V), NEW a \in Searches(V), Follows(G, V, S, s, a)
                PROVE  <<s, a>> \in S
    BY DEF Closed
  <2>1. Follows(G, V, Derived(G, V), s, a)
    BY DEF Follows, FromVisited, FromNew
  <2>2. <<s, a>> \in Derived(G, V)
    BY <2>1, DerivedClosed DEF Closed
  <2>. QED
    BY <2>2
<1>3. Derived(G, V) \subseteq S
  <2>. HIDE DEF Closed
  <2>. QED
    BY <1>1, <1>2 DEF Derived
<1>. QED
  BY <1>3

LEMMA DerivedInverts ==
  ASSUME NEW G, NEW V, NEW s, NEW a, <<s, a>> \in Derived(G, V)
  PROVE  Follows(G, V, Derived(G, V), s, a)
<1>. DEFINE S == {p \in Derived(G, V) : Follows(G, V, Derived(G, V), p[1], p[2])}
<1>1. \A t, b \in Searches(V) : Follows(G, V, S, t, b) => Follows(G, V, Derived(G, V), t, b)
  BY DEF Follows, FromVisited, FromNew
<1>2. S = Derived(G, V)
  <2>1. \A t, b \in Searches(V) : Follows(G, V, S, t, b) /\ <<t, b>> \in Derived(G, V) => <<t, b>> \in S
    BY <1>1
  <2>. HIDE DEF S
  <2>2. S \in SUBSET Derived(G, V)
    BY DEF S
  <2>. QED
    BY <2>1, <2>2, DerivedLeast
<1>. QED
  BY <1>2

LEMMA DerivedUnique ==
  ASSUME NEW G, NEW V, NEW s, NEW a, NEW b, <<s, a>> \in Derived(G, V), <<s, b>> \in Derived(G, V)
  PROVE  a = b
<1>. DEFINE D == Derived(G, V)
            S == {p \in D : \A c : <<p[1], c>> \in D => c = p[2]}
<1>1. ASSUME NEW t \in Searches(V), NEW c \in Searches(V), Follows(G, V, S, t, c), <<t, c>> \in D
      PROVE  <<t, c>> \in S
  <2>0. \A d : <<t, d>> \in D => Follows(G, V, D, t, d)
    BY DerivedInverts
  <2>. HIDE DEF D
  <2>. SUFFICES ASSUME NEW d, <<t, d>> \in D PROVE d = c
    BY <1>1
  <2>1. Follows(G, V, D, t, d)
    BY <2>0
  <2>2. CASE FromEmpty(t, c)
    BY <2>1, <2>2 DEF Follows, FromEmpty, FromVisited, FromNew
  <2>3. CASE FromVisited(S, t, c)
    BY <2>1, <2>3 DEF Follows, FromEmpty, FromVisited, FromNew
  <2>4. CASE FromNew(G, V, S, t, c)
    <3>1. FromNew(G, V, D, t, d)
      BY <2>1, <2>4 DEF Follows, FromEmpty, FromVisited, FromNew
    <3>. QED
      BY <2>4, <3>1 DEF FromNew
  <2>. QED
    BY <1>1, <2>2, <2>3, <2>4 DEF Follows
<1>2. S = D
  <2>1. S \in SUBSET D
    OBVIOUS
  <2>. HIDE DEF S
  <2>. QED
    BY <1>1, <2>1, DerivedLeast
<1>. QED
  BY <1>2

LEMMA RangeAppend ==
  ASSUME NEW V, NEW q \in Seq(V), NEW u \in V
  PROVE  /\ Range(Append(q, u)) = Range(q) \cup {u}
         /\ IsInjective(q) /\ u \notin Range(q) => IsInjective(Append(q, u))
<1>1. /\ Len(Append(q, u)) = Len(q) + 1 /\ Append(q, u)[Len(q) + 1] = u
      /\ \A i \in 1..Len(q) : Append(q, u)[i] = q[i]
      /\ DOMAIN Append(q, u) = 1..(Len(q) + 1) /\ DOMAIN q = 1..Len(q) /\ Len(q) \in Nat
  OBVIOUS
<1>2. DOMAIN Append(q, u) = DOMAIN q \cup {Len(q) + 1} /\ Len(q) + 1 \notin DOMAIN q
  BY <1>1
<1>3. Range(Append(q, u)) = Range(q) \cup {u}
  BY <1>1, <1>2 DEF Range
<1>4. ASSUME IsInjective(q), u \notin Range(q) PROVE IsInjective(Append(q, u))
  BY <1>1, <1>2, <1>4 DEF Range, IsInjective
<1>. QED
  BY <1>3, <1>4

LEMMA RangeTail ==
  ASSUME NEW V, NEW q \in Seq(V), q # <<>>
  PROVE  /\ Head(q) \in V /\ Tail(q) \in Seq(V) /\ Head(q) = q[1] /\ Len(q) > 0
         /\ Len(Tail(q)) = Len(q) - 1 /\ \A i \in 1..(Len(q) - 1) : Tail(q)[i] = q[i + 1]
         /\ Range(q) = Range(Tail(q)) \cup {Head(q)}
<1>1. /\ Head(q) \in V /\ Tail(q) \in Seq(V) /\ Len(q) \in Nat \ {0}
      /\ Len(Tail(q)) = Len(q) - 1 /\ Head(q) = q[1]
      /\ \A i \in 1..(Len(q) - 1) : Tail(q)[i] = q[i + 1]
      /\ DOMAIN q = 1..Len(q) /\ DOMAIN Tail(q) = 1..(Len(q) - 1)
  OBVIOUS
<1>2. Range(q) \subseteq Range(Tail(q)) \cup {Head(q)}
  <2>. SUFFICES ASSUME NEW i \in 1..Len(q) PROVE q[i] \in Range(Tail(q)) \cup {Head(q)}
    BY <1>1 DEF Range
  <2>1. CASE i = 1
    BY <1>1, <2>1
  <2>2. CASE i # 1
    <3>1. i - 1 \in DOMAIN Tail(q) /\ Tail(q)[i - 1] = q[i]
      BY <1>1, <2>2
    <3>. QED
      BY <3>1 DEF Range
  <2>. QED
    BY <2>1, <2>2
<1>3. Range(Tail(q)) \cup {Head(q)} \subseteq Range(q)
  BY <1>1 DEF Range
<1>. QED
  BY <1>1, <1>2, <1>3

\* What a search does to the two sets.
Grown(s, a) == /\ a.todo = <<>>
               /\ s.visited \cup Range(s.todo) \subseteq a.visited
               /\ Range(a.sorted) = Range(s.sorted) \cup (a.visited \ s.visited)
               /\ IsInjective(s.sorted) /\ Range(s.sorted) \subseteq s.visited => IsInjective(a.sorted)

LEMMA DerivedGrows ==
  ASSUME NEW G, NEW V, G \in [V -> Seq(V)], NEW s, NEW a, <<s, a>> \in Derived(G, V)
  PROVE  Grown(s, a)
<1>. DEFINE S == {p \in Derived(G, V) : Grown(p[1], p[2])}
<1>1. ASSUME NEW t \in Searches(V), NEW c \in Searches(V), Follows(G, V, S, t, c)
      PROVE  Grown(t, c)
  <2>0. \A x, y : <<x, y>> \in S => Grown(x, y)
    OBVIOUS
  <2>. HIDE DEF S
  <2>a. /\ t.todo \in Seq(V) /\ t.visited \in SUBSET V /\ t.sorted \in Seq(V)
        /\ c.todo \in Seq(V) /\ c.visited \in SUBSET V /\ c.sorted \in Seq(V)
    BY DEF Searches
  <2>1. CASE FromEmpty(t, c)
    <3>1. Range(t.todo) = {}
      BY <2>1 DEF Range, FromEmpty
    <3>. QED
      BY <2>1, <3>1 DEF Grown, FromEmpty
  <2>2. CASE FromVisited(S, t, c)
    <3>1. Grown(Skipped(t), c)
      BY <2>0, <2>2 DEF FromVisited
    <3>2. /\ Skipped(t).todo = Tail(t.todo) /\ Skipped(t).visited = t.visited
          /\ Skipped(t).sorted = t.sorted
      BY DEF Skipped, Searches
    <3>3. Range(t.todo) = Range(Tail(t.todo)) \cup {Head(t.todo)} /\ Head(t.todo) \in t.visited
      BY <2>a, <2>2, RangeTail DEF FromVisited
    <3>. QED
      BY <3>1, <3>2, <3>3 DEF Grown
  <2>3. CASE FromNew(G, V, S, t, c)
    <3>. DEFINE u == Head(t.todo)
    <3>1. /\ u \in V /\ u \notin t.visited
          /\ Range(t.todo) = Range(Tail(t.todo)) \cup {u}
      BY <2>a, <2>3, RangeTail DEF FromNew
    <3>. HIDE DEF u
    <3>2. PICK b \in Searches(V) : Grown(Below(G, t), b) /\ Grown(Behind(t, b), c)
      BY <2>0, <2>3 DEF FromNew
    <3>3. b.visited \in SUBSET V /\ b.sorted \in Seq(V)
      BY DEF Searches
    <3>4. Below(G, t).visited = t.visited \cup {u} /\ Below(G, t).sorted = t.sorted
      BY DEF Below, Searches, u
    <3>5. /\ Behind(t, b).todo = Tail(t.todo) /\ Behind(t, b).visited = b.visited
          /\ Behind(t, b).sorted = Append(b.sorted, u)
      BY DEF Behind, u
    <3>6. /\ t.visited \cup {u} \subseteq b.visited
          /\ Range(b.sorted) = Range(t.sorted) \cup (b.visited \ (t.visited \cup {u}))
          /\ IsInjective(t.sorted) /\ Range(t.sorted) \subseteq t.visited => IsInjective(b.sorted)
      BY <3>2, <3>4 DEF Grown
    <3>7. /\ Range(Append(b.sorted, u)) = Range(b.sorted) \cup {u}
          /\ IsInjective(b.sorted) /\ u \notin Range(b.sorted) => IsInjective(Append(b.sorted, u))
      BY <3>1, <3>3, RangeAppend
    <3>8. /\ c.todo = <<>>
          /\ b.visited \cup Range(Tail(t.todo)) \subseteq c.visited
          /\ Range(c.sorted) = Range(b.sorted) \cup {u} \cup (c.visited \ b.visited)
          /\ IsInjective(Append(b.sorted, u)) /\ Range(b.sorted) \cup {u} \subseteq b.visited
                => IsInjective(c.sorted)
      BY <3>2, <3>5, <3>7 DEF Grown
    <3>9. t.visited \cup Range(t.todo) \subseteq c.visited
      BY <3>1, <3>6, <3>8
    <3>10. Range(c.sorted) = Range(t.sorted) \cup (c.visited \ t.visited)
      BY <3>1, <3>6, <3>8
    <3>11. ASSUME IsInjective(t.sorted), Range(t.sorted) \subseteq t.visited
           PROVE  IsInjective(c.sorted)
      <4>1. IsInjective(b.sorted) /\ Range(b.sorted) \cup {u} \subseteq b.visited /\ u \notin Range(b.sorted)
        BY <3>1, <3>6, <3>11
      <4>. QED
        BY <3>7, <3>8, <4>1
    <3>. QED
      BY <3>8, <3>9, <3>10, <3>11 DEF Grown
  <2>. QED
    BY <1>1, <2>1, <2>2, <2>3 DEF Follows
<1>2. S = Derived(G, V)
  <2>1. S \in SUBSET Derived(G, V)
    OBVIOUS
  <2>2. \A t, c \in Searches(V) : Follows(G, V, S, t, c) /\ <<t, c>> \in Derived(G, V) => <<t, c>> \in S
    BY <1>1
  <2>. HIDE DEF S
  <2>. QED
    BY <2>1, <2>2, DerivedLeast
<1>. QED
  BY <1>2

LEMMA SearchTypes ==
  ASSUME NEW G, NEW V, G \in [V -> Seq(V)], NEW s \in Searches(V), s.todo # <<>>
  PROVE  /\ Head(s.todo) \in V
         /\ Skipped(s) \in Searches(V) /\ Skipped(s).visited = s.visited
         /\ Len(Skipped(s).todo) = Len(s.todo) - 1 /\ Len(s.todo) \in Nat
         /\ Below(G, s) \in Searches(V) /\ Below(G, s).visited = s.visited \cup {Head(s.todo)}
         /\ \A b \in Searches(V) : /\ Behind(s, b) \in Searches(V)
                                   /\ Behind(s, b).visited = b.visited
<1>1. s.todo \in Seq(V) /\ s.visited \in SUBSET V /\ s.sorted \in Seq(V)
  BY DEF Searches
<1>2. Head(s.todo) \in V /\ Tail(s.todo) \in Seq(V) /\ Len(Tail(s.todo)) = Len(s.todo) - 1
  BY <1>1, RangeTail
<1>3. \A b \in Searches(V) : b.visited \in SUBSET V /\ Append(b.sorted, Head(s.todo)) \in Seq(V)
  BY <1>2 DEF Searches
<1>4. G[Head(s.todo)] \in Seq(V) /\ s.visited \cup {Head(s.todo)} \in SUBSET V
  BY <1>1, <1>2
<1>5. Skipped(s) \in Searches(V)
  BY <1>1, <1>2 DEF Searches, Skipped
<1>6. Below(G, s) \in Searches(V)
  BY <1>1, <1>4 DEF Searches, Below
<1>7. \A b \in Searches(V) : Behind(s, b) \in Searches(V)
  BY <1>2, <1>3 DEF Searches, Behind
<1>8. Len(s.todo) \in Nat
  BY <1>1
<1>. QED
  BY <1>2, <1>5, <1>6, <1>7, <1>8 DEF Skipped, Below, Behind

\* The number of rules left to visit.
Left(V, s) == Cardinality(V \ s.visited)

LEMMA LeftShrinks ==
  ASSUME NEW V, IsFiniteSet(V), NEW s, NEW u, s.visited \subseteq u.visited
  PROVE  /\ Left(V, s) \in Nat /\ Left(V, u) \in Nat
         /\ Left(V, u) <= Left(V, s)
         /\ \A x \in V : x \in u.visited \ s.visited => Left(V, u) < Left(V, s)
<1>1. V \ s.visited \in SUBSET V /\ V \ u.visited \in SUBSET (V \ s.visited)
  OBVIOUS
<1>2. IsFiniteSet(V \ s.visited)
  BY <1>1, FS_Subset
<1>3. IsFiniteSet(V \ u.visited) /\ Left(V, u) <= Left(V, s)
      /\ (Left(V, u) = Left(V, s) => V \ u.visited = V \ s.visited)
  BY <1>1, <1>2, FS_Subset DEF Left
<1>4. Left(V, s) \in Nat /\ Left(V, u) \in Nat
  BY <1>2, <1>3, FS_CardinalityType DEF Left
<1>5. \A x \in V : x \in u.visited \ s.visited => V \ u.visited # V \ s.visited
  OBVIOUS
<1>. QED
  BY <1>3, <1>4, <1>5

\* Every search ends: below a rule fewer rules are left to visit, behind it
\* the list is shorter.
LEMMA DerivedTotal ==
  ASSUME NEW G, NEW V, G \in [V -> Seq(V)], IsFiniteSet(V), NEW s \in Searches(V)
  PROVE  \E a \in Searches(V) : <<s, a>> \in Derived(G, V)
<1>. DEFINE D == Derived(G, V)
            Ends(t) == \E a \in Searches(V) : <<t, a>> \in D
            S == {t \in Searches(V) : ~Ends(t)}
            Lefts == {Left(V, t) : t \in S}
<1>1. \A t \in Searches(V) : Left(V, t) \in Nat /\ Len(t.todo) \in Nat
  BY LeftShrinks DEF Searches
<1>2. \A t \in Searches(V) : t \in S \/ Ends(t)
  OBVIOUS
<1>. SUFFICES ASSUME S # {} PROVE FALSE
  BY <1>2
<1>3. S \subseteq Searches(V) /\ \A t \in S : ~Ends(t)
  OBVIOUS
<1>. HIDE DEF S
<1>4. PICK n \in Lefts : \A k \in Lefts : n <= k
  <2>1. Lefts \in SUBSET Nat /\ Lefts # {}
    BY <1>1, <1>3
  <2>. HIDE DEF Lefts
  <2>. QED
    BY <2>1, LeastNumber
<1>5. n \in Nat /\ \A u \in S : n <= Left(V, u)
  BY <1>1, <1>3, <1>4
<1>. DEFINE Lens == {Len(t.todo) : t \in {r \in S : Left(V, r) = n}}
<1>6. PICK m \in Lens : \A k \in Lens : m <= k
  <2>1. Lens \in SUBSET Nat
    BY <1>1, <1>3
  <2>2. Lens # {}
    BY <1>4
  <2>. HIDE DEF Lens
  <2>. QED
    BY <2>1, <2>2, LeastNumber
<1>7. PICK t \in S : Left(V, t) = n /\ Len(t.todo) = m
  BY <1>6
<1>8. \A u \in S : Left(V, u) = n => m <= Len(u.todo)
  BY <1>6
<1>. HIDE DEF Lefts, Lens, D, Ends
<1>9. \A u \in Searches(V) : Left(V, u) < n => Ends(u)
  BY <1>1, <1>2, <1>5
<1>10. \A u \in Searches(V) : Left(V, u) = n /\ Len(u.todo) < m => Ends(u)
  BY <1>1, <1>2, <1>3, <1>7, <1>8
<1>11. t \in Searches(V) /\ ~Ends(t) /\ n \in Nat /\ m \in Nat
  BY <1>1, <1>3, <1>7
<1>12. ASSUME NEW a \in Searches(V), Follows(G, V, D, t, a) PROVE FALSE
  <2>1. <<t, a>> \in D
    BY <1>11, <1>12, DerivedClosed DEF Closed, D
  <2>. QED
    BY <1>11, <2>1 DEF Ends
<1>13. t.todo # <<>>
  BY <1>11, <1>12 DEF Follows, FromEmpty
<1>. DEFINE x == Head(t.todo)
<1>14. /\ x \in V
       /\ Skipped(t) \in Searches(V) /\ Skipped(t).visited = t.visited
       /\ Len(Skipped(t).todo) = Len(t.todo) - 1
       /\ Below(G, t) \in Searches(V) /\ Below(G, t).visited = t.visited \cup {x}
       /\ \A b \in Searches(V) : Behind(t, b) \in Searches(V) /\ Behind(t, b).visited = b.visited
  BY <1>11, <1>13, SearchTypes
<1>. HIDE DEF x
<1>15. CASE x \in t.visited
  <2>1. Left(V, Skipped(t)) = n /\ Len(Skipped(t).todo) < m
    BY <1>7, <1>11, <1>14 DEF Left
  <2>2. PICK a \in Searches(V) : <<Skipped(t), a>> \in D
    BY <1>10, <1>14, <2>1 DEF Ends
  <2>3. Follows(G, V, D, t, a)
    BY <1>13, <1>15, <2>2 DEF Follows, FromVisited, x
  <2>. QED
    BY <1>12, <2>3
<1>16. CASE x \notin t.visited
  <2>0. ASSUME NEW u \in Searches(V), t.visited \cup {x} \subseteq u.visited PROVE Ends(u)
    <3>1. Left(V, u) < n
      BY <1>7, <1>14, <1>16, <2>0, LeftShrinks
    <3>. QED
      BY <1>9, <2>0, <3>1
  <2>1. PICK b \in Searches(V) : <<Below(G, t), b>> \in D
    BY <1>14, <2>0 DEF Ends
  <2>2. Grown(Below(G, t), b)
    BY <2>1, DerivedGrows DEF D
  <2>3. t.visited \cup {x} \subseteq b.visited
    BY <1>14, <2>2 DEF Grown
  <2>4. PICK a \in Searches(V) : <<Behind(t, b), a>> \in D
    BY <1>14, <2>0, <2>3 DEF Ends
  <2>5. Follows(G, V, D, t, a)
    BY <1>13, <1>16, <2>1, <2>4 DEF Follows, FromNew, x
  <2>. QED
    BY <1>12, <2>5
<1>. QED
  BY <1>15, <1>16

LEMMA SearchIsDerived ==
  ASSUME NEW G, NEW V, G \in [V -> Seq(V)], IsFiniteSet(V), NEW s \in Searches(V)
  PROVE  <<s, TopologicalSortUtil(G)[s]>> \in Derived(G, V)
<1>. DEFINE D == Derived(G, V)
            Turn(f, t) == IF t.todo = <<>> THEN t
                          ELSE IF Head(t.todo) \in t.visited THEN f[Skipped(t)]
                          ELSE f[Behind(t, f[Below(G, t)])]
            Solves(f) == f = [t \in Searches(V) |-> Turn(f, t)]
            End(t) == CHOOSE a \in Searches(V) : <<t, a>> \in D
            found == [t \in Searches(V) |-> End(t)]
            search == CHOOSE f : Solves(f)
<1>1. TopologicalSortUtil(G) = search
  BY Zenon DEF TopologicalSortUtil, Searches, Skipped, Below, Behind
<1>2. \A t \in Searches(V) : found[t] \in Searches(V) /\ <<t, found[t]>> \in D
  BY DerivedTotal
<1>3. \A t \in Searches(V) : \A a : <<t, a>> \in D => a = found[t]
  <2>. HIDE DEF found
  <2>. QED
    BY <1>2, DerivedUnique
<1>4. \A t, a \in Searches(V) : Follows(G, V, D, t, a) => a = found[t]
  <2>. HIDE DEF found
  <2>. QED
    BY <1>3, DerivedClosed DEF Closed
<1>5. found = [t \in Searches(V) |-> found[t]]
  <2>. HIDE DEF End
  <2>. QED
    OBVIOUS
<1>. HIDE DEF D, found
<1>6. ASSUME NEW t \in Searches(V) PROVE found[t] = Turn(found, t)
  <2>1. CASE t.todo = <<>>
    <3>1. Follows(G, V, D, t, t)
      BY <2>1 DEF Follows, FromEmpty
    <3>. QED
      BY <1>4, <2>1, <3>1
  <2>2. CASE t.todo # <<>> /\ Head(t.todo) \in t.visited
    <3>1. Follows(G, V, D, t, found[Skipped(t)])
      BY <1>2, <2>2, SearchTypes DEF Follows, FromVisited
    <3>. QED
      BY <1>2, <1>4, <2>2, <3>1, SearchTypes
  <2>3. CASE t.todo # <<>> /\ Head(t.todo) \notin t.visited
    <3>. DEFINE b == found[Below(G, t)]
    <3>1. b \in Searches(V) /\ Behind(t, b) \in Searches(V)
      BY <1>2, <2>3, SearchTypes
    <3>2. Follows(G, V, D, t, found[Behind(t, b)])
      BY <1>2, <2>3, <3>1, SearchTypes DEF Follows, FromNew
    <3>. QED
      BY <1>2, <1>4, <2>3, <3>1, <3>2
  <2>. QED
    BY <2>1, <2>2, <2>3
<1>7. Solves(found)
  <2>1. [t \in Searches(V) |-> Turn(found, t)] = [t \in Searches(V) |-> found[t]]
    <3>. HIDE DEF Turn
    <3>. QED
      BY <1>6
  <2>. QED
    BY <1>5, <2>1
<1>8. Solves(search)
  <2>. HIDE DEF Solves
  <2>. QED
    BY <1>7
<1>9. \A t \in Searches(V) : search[t] = Turn(search, t)
  <2>. HIDE DEF Turn, search
  <2>. QED
    BY <1>8
<1>. HIDE DEF search, Solves
<1>. DEFINE S == {p \in D : search[p[1]] = p[2]}
<1>10. ASSUME NEW t \in Searches(V), NEW a \in Searches(V), Follows(G, V, S, t, a)
       PROVE  search[t] = a
  <2>1. \A x, y : <<x, y>> \in S => search[x] = y
    OBVIOUS
  <2>. HIDE DEF S
  <2>. QED
    BY <1>9, <1>10, <2>1 DEF Follows, FromEmpty, FromVisited, FromNew
<1>11. S = D
  <2>1. S \in SUBSET D
    OBVIOUS
  <2>2. \A t, a \in Searches(V) : Follows(G, V, S, t, a) /\ <<t, a>> \in D => <<t, a>> \in S
    BY <1>10
  <2>. HIDE DEF S
  <2>. QED
    BY <2>1, <2>2, DerivedLeast DEF D
<1>12. search[s] = found[s]
  <2>1. <<s, found[s]>> \in S
    BY <1>2, <1>11
  <2>. QED
    BY <2>1
<1>. QED
  BY <1>1, <1>2, <1>12 DEF D

\* What topological_sort makes of the goals: a list without repetitions in
\* which every goal is.
LEMMA SortLists ==
  ASSUME NEW G, NEW V, G \in [V -> Seq(V)], IsFiniteSet(V), NEW targets \in Seq(V)
  PROVE  /\ TopologicalSort(G, targets) \in Seq(V)
         /\ IsInjective(TopologicalSort(G, targets))
         /\ Range(targets) \subseteq Range(TopologicalSort(G, targets))
<1>. DEFINE s == [todo |-> targets, visited |-> {}, sorted |-> <<>>]
            a == TopologicalSortUtil(G)[s]
<1>1. s \in Searches(V)
  BY DEF Searches
<1>2. <<s, a>> \in Derived(G, V)
  <2>. HIDE DEF s
  <2>. QED
    BY <1>1, SearchIsDerived
<1>3. a \in Searches(V) /\ Grown(s, a)
  <2>. HIDE DEF s, a
  <2>. QED
    BY <1>2, DerivedGrows DEF Derived
<1>4. TopologicalSort(G, targets) = a.sorted
  BY DEF TopologicalSort
<1>. HIDE DEF a
<1>5. a.sorted \in Seq(V)
  BY <1>3 DEF Searches
<1>6. Range(targets) \subseteq a.visited /\ Range(<<>>) = {} /\ IsInjective(<<>>)
  BY <1>3 DEF Grown, Range, IsInjective
<1>7. Range(a.sorted) = a.visited /\ IsInjective(a.sorted)
  BY <1>3, <1>6 DEF Grown
<1>. QED
  BY <1>4, <1>5, <1>6, <1>7

\* Every rule of q comes after the rules it depends on.
Ordered(G, q) == \A i \in DOMAIN q : \A d \in Range(G[q[i]]) : \E j \in DOMAIN q : j < i /\ q[j] = d

LEMMA OrderedAppend ==
  ASSUME NEW V, NEW G, NEW q \in Seq(V), NEW u \in V, Ordered(G, q), Range(G[u]) \subseteq Range(q)
  PROVE  Ordered(G, Append(q, u))
<1>1. /\ DOMAIN q = 1..Len(q) /\ Len(q) \in Nat
      /\ DOMAIN Append(q, u) = 1..(Len(q) + 1)
      /\ Append(q, u)[Len(q) + 1] = u
      /\ \A i \in 1..Len(q) : Append(q, u)[i] = q[i]
  OBVIOUS
<1>. DEFINE w == Append(q, u)
<1>. SUFFICES ASSUME NEW i \in DOMAIN w, NEW d \in Range(G[w[i]])
              PROVE  \E j \in DOMAIN w : j < i /\ w[j] = d
  BY DEF Ordered
<1>. HIDE DEF w
<1>a. i \in 1..(Len(q) + 1)
  BY <1>1 DEF w
<1>2. \E j \in 1..Len(q) : j < i /\ q[j] = d
  <2>1. CASE i = Len(q) + 1
    <3>1. w[i] = u
      BY <1>1, <2>1 DEF w
    <3>2. d \in Range(q)
      BY <3>1
    <3>3. PICK j \in 1..Len(q) : q[j] = d
      BY <1>1, <3>2 DEF Range
    <3>. QED
      BY <1>1, <2>1, <3>3
  <2>2. CASE i # Len(q) + 1
    <3>1. i \in 1..Len(q)
      BY <1>1, <1>a, <2>2
    <3>2. w[i] = q[i]
      BY <1>1, <3>1 DEF w
    <3>3. d \in Range(G[q[i]])
      BY <3>2
    <3>. QED
      BY <1>1, <3>1, <3>3 DEF Ordered
  <2>. QED
    BY <2>1, <2>2
<1>. QED
  BY <1>1, <1>2 DEF w

\* The rules that a search is in the middle of; each needs all that is left
\* on the list.
Open(s) == s.visited \ Range(s.sorted)
OnTheWay(G, N, R, s) == /\ Range(s.sorted) \subseteq s.visited
                        /\ Range(s.todo) \cup Open(s) \subseteq R
                        /\ \A p \in Open(s), d \in Range(s.todo) : <<p, d>> \in N
                        /\ Ordered(G, s.sorted)

\* R holds the goals and all they depend on, and N is an order that says so.
NoCycle(G, N, R) == /\ \A v \in R : \A d \in Range(G[v]) : d \in R /\ <<v, d>> \in N
                    /\ \A x, y, z \in R : <<x, y>> \in N /\ <<y, z>> \in N => <<x, z>> \in N
                    /\ \A x \in R : <<x, x>> \notin N

LEMMA DerivedOrders ==
  ASSUME NEW G, NEW V, G \in [V -> Seq(V)], NEW R \in SUBSET V, NEW N, NoCycle(G, N, R),
         NEW s, NEW a, <<s, a>> \in Derived(G, V), OnTheWay(G, N, R, s)
  PROVE  Ordered(G, a.sorted) /\ a.visited \subseteq s.visited \cup R
<1>. DEFINE Goal(t, c) == OnTheWay(G, N, R, t) => Ordered(G, c.sorted) /\ c.visited \subseteq t.visited \cup R
            S == {p \in Derived(G, V) : Goal(p[1], p[2])}
<1>1. ASSUME NEW t \in Searches(V), NEW c \in Searches(V), Follows(G, V, S, t, c), OnTheWay(G, N, R, t)
      PROVE  Ordered(G, c.sorted) /\ c.visited \subseteq t.visited \cup R
  <2>0. \A x, y : <<x, y>> \in S => Goal(x, y) /\ <<x, y>> \in Derived(G, V)
    OBVIOUS
  <2>. HIDE DEF S
  <2>a. /\ t.todo \in Seq(V) /\ t.visited \in SUBSET V /\ t.sorted \in Seq(V)
        /\ c.todo \in Seq(V) /\ c.visited \in SUBSET V /\ c.sorted \in Seq(V)
    BY DEF Searches
  <2>1. CASE FromEmpty(t, c)
    BY <1>1, <2>1 DEF FromEmpty, OnTheWay
  <2>2. CASE FromVisited(S, t, c)
    <3>1. Skipped(t).todo = Tail(t.todo) /\ Skipped(t).visited = t.visited /\ Skipped(t).sorted = t.sorted
      BY DEF Skipped
    <3>2. Range(Tail(t.todo)) \subseteq Range(t.todo)
      BY <2>a, <2>2, RangeTail DEF FromVisited
    <3>3. OnTheWay(G, N, R, Skipped(t))
      BY <1>1, <3>1, <3>2 DEF OnTheWay, Open
    <3>4. Goal(Skipped(t), c)
      BY <2>0, <2>2 DEF FromVisited
    <3>. QED
      BY <3>1, <3>3, <3>4
  <2>3. CASE FromNew(G, V, S, t, c)
    <3>. DEFINE u == Head(t.todo)
    <3>1. u \in V /\ u \notin t.visited /\ Range(t.todo) = Range(Tail(t.todo)) \cup {u}
      BY <2>a, <2>3, RangeTail DEF FromNew
    <3>2. PICK b \in Searches(V) : <<Below(G, t), b>> \in S /\ <<Behind(t, b), c>> \in S
      BY <2>3 DEF FromNew
    <3>3. Grown(Below(G, t), b)
      BY <2>0, <3>2, DerivedGrows
    <3>4. /\ Below(G, t).visited = t.visited \cup {u} /\ Below(G, t).sorted = t.sorted
          /\ Below(G, t).todo = G[u]
          /\ Behind(t, b).todo = Tail(t.todo) /\ Behind(t, b).visited = b.visited
          /\ Behind(t, b).sorted = Append(b.sorted, u)
          /\ b.visited \in SUBSET V /\ b.sorted \in Seq(V)
      BY DEF Below, Behind, Searches
    <3>. HIDE DEF u
    <3>5. /\ Range(t.sorted) \subseteq t.visited /\ Range(t.todo) \cup Open(t) \subseteq R
          /\ (\A p \in Open(t), d \in Range(t.todo) : <<p, d>> \in N) /\ Ordered(G, t.sorted)
          /\ u \in R
      BY <1>1, <3>1 DEF OnTheWay
    <3>6. \A d \in Range(G[u]) : d \in R /\ <<u, d>> \in N /\ d \notin Open(t) /\ d # u
      BY <3>1, <3>5 DEF NoCycle
    <3>7. Open(Below(G, t)) = Open(t) \cup {u}
      BY <3>1, <3>4, <3>5 DEF Open
    <3>8. OnTheWay(G, N, R, Below(G, t))
      <4>1. \A p \in Open(t), d \in Range(G[u]) : <<p, d>> \in N
        BY <3>1, <3>5, <3>6 DEF NoCycle
      <4>. QED
        BY <3>4, <3>5, <3>6, <3>7, <4>1 DEF OnTheWay
    <3>9. Ordered(G, b.sorted) /\ b.visited \subseteq t.visited \cup {u} \cup R
      BY <2>0, <3>2, <3>4, <3>8
    <3>10. /\ Range(b.sorted) = Range(t.sorted) \cup (b.visited \ (t.visited \cup {u}))
           /\ Range(G[u]) \subseteq b.visited /\ t.visited \cup {u} \subseteq b.visited
      BY <3>3, <3>4 DEF Grown
    <3>11. Range(G[u]) \subseteq Range(b.sorted)
      BY <3>6, <3>10 DEF Open
    <3>12. Ordered(G, Append(b.sorted, u)) /\ Range(Append(b.sorted, u)) = Range(b.sorted) \cup {u}
      BY <3>1, <3>4, <3>9, <3>11, OrderedAppend, RangeAppend
    <3>13. Open(Behind(t, b)) = Open(t)
      BY <3>1, <3>4, <3>5, <3>10, <3>12 DEF Open
    <3>14. OnTheWay(G, N, R, Behind(t, b))
      BY <3>1, <3>4, <3>5, <3>10, <3>12, <3>13 DEF OnTheWay
    <3>15. Goal(Behind(t, b), c)
      BY <2>0, <3>2
    <3>. QED
      BY <3>4, <3>5, <3>9, <3>14, <3>15
  <2>. QED
    BY <1>1, <2>1, <2>2, <2>3 DEF Follows
<1>2. S = Derived(G, V)
  <2>1. S \in SUBSET Derived(G, V)
    OBVIOUS
  <2>2. \A t, c \in Searches(V) : Follows(G, V, S, t, c) /\ <<t, c>> \in Derived(G, V) => <<t, c>> \in S
    BY <1>1
  <2>. HIDE DEF S
  <2>. QED
    BY <2>1, <2>2, DerivedLeast
<1>3. <<s, a>> \in S
  BY <1>2
<1>. QED
  BY <1>3

(* topological_sort lists the goals and what they depend on, every rule once  *)
(* and after all it depends on, whatever the rest of the graph looks like     *)
(* (parmake.c:62-87).                                                         *)
THEOREM SortCorrect ==
  ASSUME NEW G, NEW V, G \in [V -> Seq(V)], IsFiniteSet(V), NEW targets \in Seq(V),
         NEW R \in SUBSET V, Range(targets) \subseteq R, NEW N, NoCycle(G, N, R)
  PROVE  LET list == TopologicalSort(G, targets)
         IN  /\ list \in Seq(R) /\ IsInjective(list) /\ Range(targets) \subseteq Range(list)
             /\ Ordered(G, list)
<1>. DEFINE s == [todo |-> targets, visited |-> {}, sorted |-> <<>>]
            a == TopologicalSortUtil(G)[s]
            list == TopologicalSort(G, targets)
<1>1. s \in Searches(V) /\ s.todo = targets /\ s.visited = {} /\ s.sorted = <<>>
  BY DEF Searches
<1>2. list = a.sorted
  BY DEF TopologicalSort
<1>3. <<s, a>> \in Derived(G, V)
  <2>. HIDE DEF s
  <2>. QED
    BY <1>1, SearchIsDerived
<1>. HIDE DEF s, a
<1>4. Grown(s, a)
  BY <1>3, DerivedGrows
<1>5. OnTheWay(G, N, R, s)
  BY <1>1 DEF OnTheWay, Open, Range, Ordered
<1>6. Ordered(G, a.sorted) /\ a.visited \subseteq R
  BY <1>1, <1>3, <1>5, DerivedOrders
<1>7. Range(<<>>) = {}
  BY DEF Range
<1>8. Range(a.sorted) \subseteq R
  BY <1>1, <1>4, <1>6, <1>7 DEF Grown
<1>9. list \in Seq(V) /\ IsInjective(list) /\ Range(targets) \subseteq Range(list)
  BY SortLists
<1>. HIDE DEF list
<1>10. list \in Seq(R)
  <2>1. \A i \in 1..Len(list) : list[i] \in R
    BY <1>2, <1>8, <1>9 DEF Range
  <2>2. Len(list) \in Nat /\ list = [i \in 1..Len(list) |-> list[i]]
    BY <1>9
  <2>3. list \in [1..Len(list) -> R]
    BY <2>1, <2>2
  <2>. QED
    BY <2>2, <2>3
<1>. QED
  BY <1>2, <1>6, <1>9, <1>10 DEF list

-----------------------------------------------------------------------------
(* Loops over a list: what the code computes position by position.            *)

\* Induction over the positions, for a set of them.
LEMMA UpTo ==
  \A n \in Nat : \A T : 0 \in T /\ (\A k \in 1..n : k - 1 \in T => k \in T) => n \in T
<1>. SUFFICES ASSUME NEW n \in Nat, NEW T, 0 \in T, \A k \in 1..n : k - 1 \in T => k \in T, n \notin T
              PROVE  FALSE
  OBVIOUS
<1>. DEFINE S == {k \in 0..n : k \notin T}
<1>1. PICK m \in S : \A k \in S : m <= k
  <2>1. S \in SUBSET Nat /\ S # {}
    OBVIOUS
  <2>. HIDE DEF S
  <2>. QED
    BY <2>1, LeastNumber
<1>2. m \in 1..n /\ m - 1 \in 0..n /\ m - 1 \notin S
  BY <1>1
<1>. QED
  BY <1>1, <1>2

(* The rules behind a rule are the least set that holds its dependencies and  *)
(* those of its members.                                                      *)
Holding(G, S) == \A w \in S : Range(G[w]) \subseteq S

LEMMA NeedsIsLeast ==
  ASSUME NEW V, IsFiniteSet(V), NEW G \in [V -> Seq(V)], NEW v \in V
  PROVE  /\ Needs(G, v) \in SUBSET V
         /\ Range(G[v]) \subseteq Needs(G, v)
         /\ Holding(G, Needs(G, v))
         /\ \A S : Range(G[v]) \subseteq S /\ Holding(G, S) => Needs(G, v) \subseteq S
<1>. DEFINE n == Cardinality(V)
            More(Q) == Q \cup UNION {Range(G[w]) : w \in Q}
            Solves(f, m) == f = [k \in 0..m |-> IF k = 0 THEN Range(G[v]) ELSE More(f[k - 1])]
            within == CHOOSE f : Solves(f, n)
<1>1. Needs(G, v) = within[n]
  BY Zenon DEF Needs
<1>2. n \in Nat /\ \A w \in V : Range(G[w]) \in SUBSET V
  BY FS_CardinalityType DEF Range
<1>. HIDE DEF More, n
<1>a. ASSUME NEW m \in 1..n, NEW f, Solves(f, m - 1) PROVE \E g : Solves(g, m)
  <2>. DEFINE g == [k \in 0..m |-> IF k = m THEN More(f[m - 1]) ELSE f[k]]
  <2>1. \A k \in 0..(m - 1) : f[k] = IF k = 0 THEN Range(G[v]) ELSE More(f[k - 1])
    BY <1>2, <1>a
  <2>2. \A k \in 0..m : g[k] = IF k = 0 THEN Range(G[v]) ELSE More(g[k - 1])
    BY <1>2, <1>a, <2>1
  <2>3. g = [k \in 0..m |-> g[k]]
    OBVIOUS
  <2>. HIDE DEF g
  <2>4. Solves(g, m)
    BY <2>2, <2>3
  <2>. QED
    BY <2>4
<1>b. \E f : Solves(f, n)
  <2>. DEFINE P(m) == \E f : Solves(f, m)
              T == {m \in 0..n : P(m)}
  <2>1. Solves([k \in 0..0 |-> Range(G[v])], 0)
    OBVIOUS
  <2>2. P(0) /\ \A m \in 1..n : P(m - 1) => P(m)
    <3>. HIDE DEF Solves
    <3>. QED
      BY <1>a, <2>1
  <2>. HIDE DEF P
  <2>3. 0 \in T /\ \A m \in 1..n : m - 1 \in T => m \in T
    BY <1>2, <2>2
  <2>. HIDE DEF T
  <2>4. n \in T
    BY <1>2, <2>3, UpTo
  <2>. QED
    BY <2>4 DEF P, T
<1>3. Solves(within, n)
  <2>. HIDE DEF Solves
  <2>. QED
    BY <1>b DEF within
<1>. HIDE DEF within
<1>4. within[0] = Range(G[v]) /\ \A k \in 1..n : within[k] = More(within[k - 1])
  BY <1>2, <1>3
<1>. USE DEF More
<1>. HIDE DEF Solves
<1>5. \A S : Range(G[v]) \subseteq S /\ Holding(G, S) => within[n] \subseteq S
  <2>. SUFFICES ASSUME NEW S, Range(G[v]) \subseteq S, Holding(G, S) PROVE within[n] \subseteq S
    OBVIOUS
  <2>. DEFINE T == {k \in 0..n : within[k] \subseteq S}
  <2>1. 0 \in T /\ \A k \in 1..n : k - 1 \in T => k \in T
    BY <1>2, <1>4 DEF Holding
  <2>. HIDE DEF T
  <2>2. n \in T
    BY <1>2, <2>1, UpTo
  <2>. QED
    BY <2>2 DEF T
<1>6. Holding(G, V)
  BY <1>2 DEF Holding
<1>7. within[n] \in SUBSET V
  BY <1>2, <1>5, <1>6
<1>8. \A k \in 0..n : within[k] \in SUBSET V /\ Range(G[v]) \subseteq within[k] /\ (Holding(G, within[k]) \/ Cardinality(within[k]) >= k + 1)
  <2>. DEFINE P(k) == /\ within[k] \in SUBSET V /\ Range(G[v]) \subseteq within[k]
                      /\ Holding(G, within[k]) \/ Cardinality(within[k]) >= k + 1
  <2>1. P(0)
    <3>1. CASE within[0] = {}
      BY <1>4, <3>1, <1>2 DEF Holding
    <3>2. CASE within[0] # {}
      <4>1. within[0] \in SUBSET V
        BY <1>2, <1>4
      <4>2. Cardinality(within[0]) \in Nat /\ Cardinality(within[0]) # 0
        BY <3>2, <4>1, FS_Subset, FS_CardinalityType, FS_EmptySet
      <4>. QED
        BY <1>4, <4>1, <4>2
    <3>. QED
      BY <3>1, <3>2
  <2>2. ASSUME NEW k \in 1..n, P(k - 1) PROVE P(k)
    <3>1. within[k] = More(within[k - 1])
      BY <1>4
    <3>2. within[k - 1] \subseteq within[k] /\ within[k] \in SUBSET V /\ Range(G[v]) \subseteq within[k]
      BY <1>2, <2>2, <3>1
    <3>3. CASE Holding(G, within[k - 1])
      <4>1. within[k] = within[k - 1]
        BY <3>1, <3>3 DEF Holding
      <4>. QED
        BY <3>2, <3>3, <4>1
    <3>4. CASE ~Holding(G, within[k - 1])
      <4>1. PICK w \in within[k - 1] : \E u \in Range(G[w]) : u \notin within[k - 1]
        BY <3>4 DEF Holding
      <4>a. PICK u \in Range(G[w]) : u \notin within[k - 1]
        BY <4>1
      <4>2. u \in within[k]
        BY <3>1, <4>1, <4>a
      <4>3. Cardinality(within[k - 1]) \in Nat /\ Cardinality(within[k - 1]) >= k
        BY <2>2, <3>4, FS_Subset, FS_CardinalityType
      <4>4. IsFiniteSet(within[k]) /\ Cardinality(within[k]) \in Nat
        BY <3>2, FS_Subset, FS_CardinalityType
      <4>5. Cardinality(within[k - 1]) < Cardinality(within[k])
        <5>1. within[k - 1] \in SUBSET within[k] /\ within[k - 1] # within[k]
          BY <3>2, <4>a, <4>2
        <5>2. /\ Cardinality(within[k - 1]) <= Cardinality(within[k])
              /\ Cardinality(within[k - 1]) = Cardinality(within[k]) => within[k - 1] = within[k]
          BY <4>4, <5>1, FS_Subset
        <5>. QED
          BY <4>3, <4>4, <5>1, <5>2
      <4>. QED
        BY <3>2, <4>3, <4>4, <4>5
    <3>. QED
      BY <3>3, <3>4
  <2>. DEFINE T == {k \in 0..n : P(k)}
  <2>. SUFFICES ASSUME NEW m \in 0..n PROVE P(m)
    OBVIOUS
  <2>. HIDE DEF P
  <2>3. 0 \in T /\ \A k \in 1..m : k - 1 \in T => k \in T
    BY <1>2, <2>1, <2>2
  <2>. HIDE DEF T
  <2>4. m \in T
    BY <1>2, <2>3, UpTo
  <2>. QED
    BY <2>4 DEF T
<1>9. Holding(G, within[n])
  <2>1. Cardinality(within[n]) <= n /\ Cardinality(within[n]) \in Nat
    BY <1>7, FS_Subset, FS_CardinalityType DEF n
  <2>. QED
    BY <1>2, <1>8, <2>1
<1>. QED
  <2>1. Range(G[v]) \subseteq within[n]
    BY <1>2, <1>8
  <2>. QED
    BY <1>1, <1>5, <1>7, <1>9, <2>1

-----------------------------------------------------------------------------
(* The search for a cycle, described in the same way: Hunted is the least set *)
(* of pairs of a search's start and its end that follows the loop.            *)

Hunts(V) == [todo : Seq(V), found : BOOLEAN, vis : SUBSET V, stack : SUBSET V]
Hit(s) == [s EXCEPT !.found = TRUE]
Passed(s) == [s EXCEPT !.todo = Tail(@)]
Inside(G, s) == [todo |-> G[Head(s.todo)], found |-> FALSE,
                 vis |-> s.vis \cup {Head(s.todo)}, stack |-> s.stack \cup {Head(s.todo)}]
Back(s, b) == [b EXCEPT !.todo = Tail(s.todo), !.stack = @ \ {Head(s.todo)}]

AtStack(s) == s.todo # <<>> /\ Head(s.todo) \in s.stack
AtVisited(s) == s.todo # <<>> /\ Head(s.todo) \notin s.stack /\ Head(s.todo) \in s.vis
AtNew(s) == s.todo # <<>> /\ Head(s.todo) \notin s.stack /\ Head(s.todo) \notin s.vis

ByEmpty(s, a) == s.todo = <<>> /\ a = s
ByStack(s, a) == AtStack(s) /\ a = Hit(s)
ByVisited(S, s, a) == AtVisited(s) /\ <<Passed(s), a>> \in S
ByFound(G, S, s, a) == AtNew(s) /\ a.found /\ <<Inside(G, s), a>> \in S
ByNew(G, V, S, s, a) == /\ AtNew(s)
                        /\ \E b \in Hunts(V) : /\ ~b.found
                                               /\ <<Inside(G, s), b>> \in S
                                               /\ <<Back(s, b), a>> \in S
Leads(G, V, S, s, a) == \/ ByEmpty(s, a) \/ ByStack(s, a) \/ ByVisited(S, s, a)
                        \/ ByFound(G, S, s, a) \/ ByNew(G, V, S, s, a)
Complete(G, V, S) == \A s, a \in Hunts(V) : Leads(G, V, S, s, a) => <<s, a>> \in S

Hunted(G, V) == {p \in Hunts(V) \X Hunts(V) :
                   \A S \in SUBSET (Hunts(V) \X Hunts(V)) : Complete(G, V, S) => p \in S}

LEMMA HuntedComplete == \A G, V : Complete(G, V, Hunted(G, V))
<1>. SUFFICES ASSUME NEW G, NEW V, NEW s \in Hunts(V), NEW a \in Hunts(V),
                     Leads(G, V, Hunted(G, V), s, a),
                     NEW S \in SUBSET (Hunts(V) \X Hunts(V)), Complete(G, V, S)
              PROVE  <<s, a>> \in S
  BY DEF Complete, Hunted
<1>1. Hunted(G, V) \subseteq S
  BY DEF Hunted
<1>2. Leads(G, V, S, s, a)
  BY <1>1 DEF Leads, ByVisited, ByFound, ByNew
<1>. QED
  BY <1>2 DEF Complete

LEMMA HuntedLeast ==
  ASSUME NEW G, NEW V, NEW S \in SUBSET Hunted(G, V),
         \A s, a \in Hunts(V) : Leads(G, V, S, s, a) /\ <<s, a>> \in Hunted(G, V) => <<s, a>> \in S
  PROVE  S = Hunted(G, V)
<1>1. S \in SUBSET (Hunts(V) \X Hunts(V))
  BY DEF Hunted
<1>2. Complete(G, V, S)
  <2>. SUFFICES ASSUME NEW s \in Hunts(V), NEW a \in Hunts(V), Leads(G, V, S, s, a)
                PROVE  <<s, a>> \in S
    BY DEF Complete
  <2>1. Leads(G, V, Hunted(G, V), s, a)
    BY DEF Leads, ByVisited, ByFound, ByNew
  <2>2. <<s, a>> \in Hunted(G, V)
    BY <2>1, HuntedComplete DEF Complete
  <2>. QED
    BY <2>2
<1>3. Hunted(G, V) \subseteq S
  <2>. HIDE DEF Complete
  <2>. QED
    BY <1>1, <1>2 DEF Hunted
<1>. QED
  BY <1>3

LEMMA HuntedInverts ==
  ASSUME NEW G, NEW V, NEW s, NEW a, <<s, a>> \in Hunted(G, V)
  PROVE  Leads(G, V, Hunted(G, V), s, a)
<1>. DEFINE S == {p \in Hunted(G, V) : Leads(G, V, Hunted(G, V), p[1], p[2])}
<1>1. \A t, b \in Hunts(V) : Leads(G, V, S, t, b) => Leads(G, V, Hunted(G, V), t, b)
  BY DEF Leads, ByVisited, ByFound, ByNew
<1>2. S = Hunted(G, V)
  <2>1. \A t, b \in Hunts(V) : Leads(G, V, S, t, b) /\ <<t, b>> \in Hunted(G, V) => <<t, b>> \in S
    BY <1>1
  <2>. HIDE DEF S
  <2>2. S \in SUBSET Hunted(G, V)
    BY DEF S
  <2>. QED
    BY <2>1, <2>2, HuntedLeast
<1>. QED
  BY <1>2

LEMMA HuntedUnique ==
  ASSUME NEW G, NEW V, NEW s, NEW a, NEW b, <<s, a>> \in Hunted(G, V), <<s, b>> \in Hunted(G, V)
  PROVE  a = b
<1>. DEFINE D == Hunted(G, V)
            S == {p \in D : \A c : <<p[1], c>> \in D => c = p[2]}
<1>1. ASSUME NEW t \in Hunts(V), NEW c \in Hunts(V), Leads(G, V, S, t, c), <<t, c>> \in D
      PROVE  <<t, c>> \in S
  <2>0. \A d : <<t, d>> \in D => Leads(G, V, D, t, d)
    BY HuntedInverts
  <2>. HIDE DEF D
  <2>. SUFFICES ASSUME NEW d, <<t, d>> \in D PROVE d = c
    BY <1>1
  <2>1. Leads(G, V, D, t, d)
    BY <2>0
  <2>. USE DEF AtStack, AtVisited, AtNew, ByEmpty, ByStack, ByVisited, ByFound, ByNew
  <2>2. CASE ByEmpty(t, c) \/ ByStack(t, c)
    BY <2>1, <2>2 DEF Leads
  <2>3. CASE ByVisited(S, t, c)
    BY <2>1, <2>3 DEF Leads
  <2>4. CASE ByFound(G, S, t, c)
    BY <2>1, <2>4 DEF Leads
  <2>5. CASE ByNew(G, V, S, t, c)
    <3>1. PICK x \in Hunts(V) : ~x.found /\ <<Inside(G, t), x>> \in S /\ <<Back(t, x), c>> \in S
      BY <2>5
    <3>2. ByNew(G, V, D, t, d) \/ ByFound(G, D, t, d)
      BY <2>1, <2>5 DEF Leads
    <3>. QED
      BY <3>1, <3>2
  <2>. QED
    BY <1>1, <2>2, <2>3, <2>4, <2>5 DEF Leads
<1>2. S = D
  <2>1. S \in SUBSET D
    OBVIOUS
  <2>. HIDE DEF S
  <2>. QED
    BY <1>1, <2>1, HuntedLeast
<1>. QED
  BY <1>2

LEMMA HuntTypes ==
  ASSUME NEW G, NEW V, G \in [V -> Seq(V)], NEW s \in Hunts(V)
  PROVE  /\ s.todo \in Seq(V) /\ s.found \in BOOLEAN /\ s.vis \in SUBSET V /\ s.stack \in SUBSET V
         /\ Len(s.todo) \in Nat
         /\ Hit(s) \in Hunts(V) /\ Hit(s).found /\ Hit(s).vis = s.vis /\ Hit(s).stack = s.stack
         /\ s.todo # <<>> =>
              LET u == Head(s.todo)
              IN  /\ u \in V /\ u \in Range(s.todo)
                  /\ Range(s.todo) = Range(Tail(s.todo)) \cup {u}
                  /\ Passed(s) \in Hunts(V) /\ Passed(s).todo = Tail(s.todo)
                  /\ Passed(s).found = s.found /\ Passed(s).vis = s.vis /\ Passed(s).stack = s.stack
                  /\ Len(Passed(s).todo) = Len(s.todo) - 1
                  /\ Inside(G, s) \in Hunts(V) /\ Inside(G, s).todo = G[u] /\ ~Inside(G, s).found
                  /\ Inside(G, s).vis = s.vis \cup {u} /\ Inside(G, s).stack = s.stack \cup {u}
                  /\ \A b \in Hunts(V) :
                       /\ Back(s, b) \in Hunts(V) /\ Back(s, b).todo = Tail(s.todo)
                       /\ Back(s, b).found = b.found
                       /\ Back(s, b).vis = b.vis /\ Back(s, b).stack = b.stack \ {u}
<1>1. /\ s.todo \in Seq(V) /\ s.found \in BOOLEAN /\ s.vis \in SUBSET V /\ s.stack \in SUBSET V
      /\ Hit(s) \in Hunts(V) /\ Hit(s).found /\ Hit(s).vis = s.vis /\ Hit(s).stack = s.stack
  BY DEF Hunts, Hit
<1>2. Len(s.todo) \in Nat
  BY <1>1
<1>3. ASSUME s.todo # <<>>, NEW u, u = Head(s.todo)
      PROVE  /\ u \in V /\ u \in Range(s.todo)
             /\ Range(s.todo) = Range(Tail(s.todo)) \cup {u}
             /\ Passed(s) \in Hunts(V) /\ Passed(s).todo = Tail(s.todo)
             /\ Passed(s).found = s.found /\ Passed(s).vis = s.vis /\ Passed(s).stack = s.stack
             /\ Len(Passed(s).todo) = Len(s.todo) - 1
             /\ Inside(G, s) \in Hunts(V) /\ Inside(G, s).todo = G[u] /\ ~Inside(G, s).found
             /\ Inside(G, s).vis = s.vis \cup {u} /\ Inside(G, s).stack = s.stack \cup {u}
             /\ \A b \in Hunts(V) :
                  /\ Back(s, b) \in Hunts(V) /\ Back(s, b).todo = Tail(s.todo)
                  /\ Back(s, b).found = b.found
                  /\ Back(s, b).vis = b.vis /\ Back(s, b).stack = b.stack \ {u}
  <2>1. /\ u \in V /\ Tail(s.todo) \in Seq(V) /\ Len(Tail(s.todo)) = Len(s.todo) - 1
        /\ Range(s.todo) = Range(Tail(s.todo)) \cup {u}
    BY <1>1, <1>3, RangeTail
  <2>2. G[u] \in Seq(V)
    BY <2>1
  <2>3. /\ Passed(s) \in Hunts(V) /\ Passed(s).todo = Tail(s.todo)
        /\ Passed(s).found = s.found /\ Passed(s).vis = s.vis /\ Passed(s).stack = s.stack
    BY <2>1 DEF Hunts, Passed
  <2>4. /\ Inside(G, s) \in Hunts(V) /\ Inside(G, s).todo = G[u] /\ ~Inside(G, s).found
        /\ Inside(G, s).vis = s.vis \cup {u} /\ Inside(G, s).stack = s.stack \cup {u}
    BY <1>1, <1>3, <2>1, <2>2 DEF Hunts, Inside
  <2>5. \A b \in Hunts(V) :
          /\ Back(s, b) \in Hunts(V) /\ Back(s, b).todo = Tail(s.todo)
          /\ Back(s, b).found = b.found
          /\ Back(s, b).vis = b.vis /\ Back(s, b).stack = b.stack \ {u}
    BY <1>3, <2>1 DEF Hunts, Back
  <2>. QED
    BY <2>1, <2>3, <2>4, <2>5
<1>. QED
  BY <1>1, <1>2, <1>3

LEMMA HuntGrows ==
  ASSUME NEW G, NEW V, G \in [V -> Seq(V)], NEW s, NEW a, <<s, a>> \in Hunted(G, V)
  PROVE  s.vis \subseteq a.vis
<1>. DEFINE S == {p \in Hunted(G, V) : p[1].vis \subseteq p[2].vis}
<1>1. ASSUME NEW t \in Hunts(V), NEW c \in Hunts(V), Leads(G, V, S, t, c)
      PROVE  t.vis \subseteq c.vis
  <2>0. \A x, y : <<x, y>> \in S => x.vis \subseteq y.vis
    OBVIOUS
  <2>. HIDE DEF S
  <2>. USE DEF AtStack, AtVisited, AtNew, ByEmpty, ByStack, ByVisited, ByFound, ByNew
  <2>1. CASE ByEmpty(t, c) \/ ByStack(t, c)
    BY <2>1, HuntTypes
  <2>2. CASE ByVisited(S, t, c)
    <3>1. Passed(t).vis = t.vis
      BY <2>2, HuntTypes
    <3>. QED
      BY <2>0, <2>2, <3>1
  <2>3. CASE ByFound(G, S, t, c)
    <3>1. Inside(G, t).vis \subseteq c.vis /\ t.vis \subseteq Inside(G, t).vis
      BY <2>0, <2>3, HuntTypes
    <3>. QED
      BY <3>1
  <2>4. CASE ByNew(G, V, S, t, c)
    <3>1. PICK b \in Hunts(V) : <<Inside(G, t), b>> \in S /\ <<Back(t, b), c>> \in S
      BY <2>4
    <3>2. Inside(G, t).vis \subseteq b.vis /\ t.vis \subseteq Inside(G, t).vis
      BY <2>0, <2>4, <3>1, HuntTypes
    <3>3. Back(t, b).vis \subseteq c.vis /\ Back(t, b).vis = b.vis
      BY <2>0, <2>4, <3>1, HuntTypes
    <3>. QED
      BY <3>2, <3>3
  <2>. QED
    BY <1>1, <2>1, <2>2, <2>3, <2>4 DEF Leads
<1>2. S = Hunted(G, V)
  <2>1. S \in SUBSET Hunted(G, V)
    OBVIOUS
  <2>2. \A t, c \in Hunts(V) : Leads(G, V, S, t, c) /\ <<t, c>> \in Hunted(G, V) => <<t, c>> \in S
    BY <1>1
  <2>. HIDE DEF S
  <2>. QED
    BY <2>1, <2>2, HuntedLeast
<1>. QED
  BY <1>2

\* The number of rules that are not visited.
Unseen(V, s) == Cardinality(V \ s.vis)

LEMMA UnseenShrinks ==
  ASSUME NEW V, IsFiniteSet(V), NEW s, NEW u, s.vis \subseteq u.vis
  PROVE  /\ Unseen(V, s) \in Nat /\ Unseen(V, u) \in Nat
         /\ Unseen(V, u) <= Unseen(V, s)
         /\ \A x \in V : x \in u.vis \ s.vis => Unseen(V, u) < Unseen(V, s)
<1>. DEFINE p == [visited |-> s.vis]
            q == [visited |-> u.vis]
<1>1. p.visited = s.vis /\ q.visited = u.vis
  OBVIOUS
<1>2. Left(V, p) = Unseen(V, s) /\ Left(V, q) = Unseen(V, u)
  BY <1>1 DEF Left, Unseen
<1>. HIDE DEF p, q
<1>. QED
  BY <1>1, <1>2, LeftShrinks

\* Every search for a cycle ends.
LEMMA HuntedTotal ==
  ASSUME NEW G, NEW V, G \in [V -> Seq(V)], IsFiniteSet(V), NEW s \in Hunts(V)
  PROVE  \E a \in Hunts(V) : <<s, a>> \in Hunted(G, V)
<1>. DEFINE D == Hunted(G, V)
            Ends(t) == \E a \in Hunts(V) : <<t, a>> \in D
            S == {t \in Hunts(V) : ~Ends(t)}
            Counts == {Unseen(V, t) : t \in S}
<1>1. \A t \in Hunts(V) : Unseen(V, t) \in Nat /\ Len(t.todo) \in Nat
  BY UnseenShrinks, HuntTypes
<1>2. \A t \in Hunts(V) : t \in S \/ Ends(t)
  OBVIOUS
<1>. SUFFICES ASSUME S # {} PROVE FALSE
  BY <1>2
<1>3. S \subseteq Hunts(V) /\ \A t \in S : ~Ends(t)
  OBVIOUS
<1>. HIDE DEF S
<1>4. PICK n \in Counts : \A k \in Counts : n <= k
  <2>1. Counts \in SUBSET Nat /\ Counts # {}
    BY <1>1, <1>3
  <2>. HIDE DEF Counts
  <2>. QED
    BY <2>1, LeastNumber
<1>5. n \in Nat /\ \A u \in S : n <= Unseen(V, u)
  BY <1>1, <1>3, <1>4
<1>. DEFINE Lens == {Len(t.todo) : t \in {r \in S : Unseen(V, r) = n}}
<1>6. PICK m \in Lens : \A k \in Lens : m <= k
  <2>1. Lens \in SUBSET Nat
    BY <1>1, <1>3
  <2>2. Lens # {}
    BY <1>4
  <2>. HIDE DEF Lens
  <2>. QED
    BY <2>1, <2>2, LeastNumber
<1>7. PICK t \in S : Unseen(V, t) = n /\ Len(t.todo) = m
  BY <1>6
<1>8. \A u \in S : Unseen(V, u) = n => m <= Len(u.todo)
  BY <1>6
<1>. HIDE DEF Counts, Lens, D, Ends
<1>9. \A u \in Hunts(V) : Unseen(V, u) < n => Ends(u)
  BY <1>1, <1>2, <1>5
<1>10. \A u \in Hunts(V) : Unseen(V, u) = n /\ Len(u.todo) < m => Ends(u)
  BY <1>1, <1>2, <1>3, <1>7, <1>8
<1>11. t \in Hunts(V) /\ ~Ends(t) /\ n \in Nat /\ m \in Nat
  BY <1>1, <1>3, <1>7
<1>12. ASSUME NEW a \in Hunts(V), Leads(G, V, D, t, a) PROVE FALSE
  <2>1. <<t, a>> \in D
    BY <1>11, <1>12, HuntedComplete DEF Complete, D
  <2>. QED
    BY <1>11, <2>1 DEF Ends
<1>13. ~ByEmpty(t, t) /\ ~ByStack(t, Hit(t)) /\ Hit(t) \in Hunts(V)
  BY <1>11, <1>12, HuntTypes DEF Leads
<1>. USE DEF AtStack, AtVisited, AtNew
<1>14. AtVisited(t) \/ AtNew(t)
  BY <1>13 DEF ByEmpty, ByStack
<1>15. CASE AtVisited(t)
  <2>1. /\ Passed(t) \in Hunts(V) /\ Passed(t).vis = t.vis
        /\ Len(Passed(t).todo) = Len(t.todo) - 1
    BY <1>11, <1>15, HuntTypes
  <2>2. Unseen(V, Passed(t)) = n /\ Len(Passed(t).todo) < m
    BY <1>7, <1>11, <2>1 DEF Unseen
  <2>3. PICK a \in Hunts(V) : <<Passed(t), a>> \in D
    BY <1>10, <2>1, <2>2 DEF Ends
  <2>4. Leads(G, V, D, t, a)
    BY <1>15, <2>3 DEF Leads, ByVisited
  <2>. QED
    BY <1>12, <2>4
<1>16. CASE AtNew(t)
  <2>. DEFINE x == Head(t.todo)
  <2>0. /\ x \in V /\ x \notin t.vis
        /\ Inside(G, t) \in Hunts(V) /\ Inside(G, t).vis = t.vis \cup {x}
        /\ \A b \in Hunts(V) : Back(t, b) \in Hunts(V) /\ Back(t, b).vis = b.vis
    BY <1>11, <1>16, HuntTypes
  <2>. HIDE DEF x
  <2>1. ASSUME NEW u \in Hunts(V), t.vis \cup {x} \subseteq u.vis PROVE Ends(u)
    <3>1. Unseen(V, u) < n
      BY <1>7, <2>0, <2>1, UnseenShrinks
    <3>. QED
      BY <1>9, <2>1, <3>1
  <2>2. PICK b \in Hunts(V) : <<Inside(G, t), b>> \in D
    BY <2>0, <2>1 DEF Ends
  <2>3. t.vis \cup {x} \subseteq b.vis
    BY <2>0, <2>2, HuntGrows DEF D
  <2>4. CASE b.found
    <3>1. Leads(G, V, D, t, b)
      BY <1>16, <2>2, <2>4 DEF Leads, ByFound
    <3>. QED
      BY <1>12, <3>1
  <2>5. CASE ~b.found
    <3>1. PICK a \in Hunts(V) : <<Back(t, b), a>> \in D
      BY <2>0, <2>1, <2>3 DEF Ends
    <3>2. Leads(G, V, D, t, a)
      BY <1>16, <2>2, <2>5, <3>1 DEF Leads, ByNew
    <3>. QED
      BY <1>12, <3>2
  <2>. QED
    BY <2>4, <2>5
<1>. QED
  BY <1>14, <1>15, <1>16

LEMMA HuntIsHunted ==
  ASSUME NEW G, NEW V, G \in [V -> Seq(V)], IsFiniteSet(V), NEW s \in Hunts(V)
  PROVE  <<s, GraphHasCycleUtil(G)[s]>> \in Hunted(G, V)
<1>. DEFINE D == Hunted(G, V)
            Turn(f, t) == IF t.todo = <<>> THEN t
                          ELSE IF Head(t.todo) \in t.stack THEN Hit(t)
                          ELSE IF Head(t.todo) \in t.vis THEN f[Passed(t)]
                          ELSE IF f[Inside(G, t)].found THEN f[Inside(G, t)]
                          ELSE f[Back(t, f[Inside(G, t)])]
            Solves(f) == f = [t \in Hunts(V) |-> Turn(f, t)]
            End(t) == CHOOSE a \in Hunts(V) : <<t, a>> \in D
            ends == [t \in Hunts(V) |-> End(t)]
            search == CHOOSE f : Solves(f)
<1>1. GraphHasCycleUtil(G) = search
  BY Zenon DEF GraphHasCycleUtil, Hunts, Hit, Passed, Inside, Back
<1>2. \A t \in Hunts(V) : ends[t] \in Hunts(V) /\ <<t, ends[t]>> \in D
  BY HuntedTotal
<1>3. \A t \in Hunts(V) : \A a : <<t, a>> \in D => a = ends[t]
  <2>. HIDE DEF ends
  <2>. QED
    BY <1>2, HuntedUnique
<1>4. \A t, a \in Hunts(V) : Leads(G, V, D, t, a) => a = ends[t]
  <2>. HIDE DEF ends
  <2>. QED
    BY <1>3, HuntedComplete DEF Complete
<1>5. ends = [t \in Hunts(V) |-> ends[t]]
  <2>. HIDE DEF End
  <2>. QED
    OBVIOUS
<1>. HIDE DEF D, ends
<1>6. ASSUME NEW t \in Hunts(V) PROVE ends[t] = Turn(ends, t)
  <2>1. CASE t.todo = <<>>
    <3>1. Leads(G, V, D, t, t)
      BY <2>1 DEF Leads, ByEmpty
    <3>. QED
      BY <1>4, <2>1, <3>1
  <2>2. CASE AtStack(t)
    <3>1. Leads(G, V, D, t, Hit(t)) /\ Hit(t) \in Hunts(V)
      BY <2>2, HuntTypes DEF Leads, ByStack
    <3>. QED
      BY <1>4, <2>2, <3>1 DEF AtStack
  <2>3. CASE AtVisited(t)
    <3>0. Passed(t) \in Hunts(V)
      BY <2>3, HuntTypes DEF AtVisited
    <3>1. Leads(G, V, D, t, ends[Passed(t)])
      BY <1>2, <2>3, <3>0 DEF Leads, ByVisited
    <3>. QED
      BY <1>2, <1>4, <2>3, <3>0, <3>1 DEF AtVisited
  <2>4. CASE AtNew(t)
    <3>. DEFINE b == ends[Inside(G, t)]
    <3>0. /\ Inside(G, t) \in Hunts(V)
          /\ \A x \in Hunts(V) : Back(t, x) \in Hunts(V)
      BY <2>4, HuntTypes DEF AtNew
    <3>1. Inside(G, t) \in Hunts(V) /\ b \in Hunts(V) /\ Back(t, b) \in Hunts(V)
      BY <1>2, <3>0
    <3>2. CASE b.found
      <4>1. Leads(G, V, D, t, b)
        BY <1>2, <2>4, <3>1, <3>2 DEF Leads, ByFound
      <4>. QED
        BY <1>4, <2>4, <3>1, <3>2, <4>1 DEF AtNew
    <3>3. CASE ~b.found
      <4>1. Leads(G, V, D, t, ends[Back(t, b)])
        BY <1>2, <2>4, <3>1, <3>3 DEF Leads, ByNew
      <4>. QED
        BY <1>2, <1>4, <2>4, <3>1, <3>3, <4>1 DEF AtNew
    <3>. QED
      BY <3>2, <3>3
  <2>. QED
    BY <2>1, <2>2, <2>3, <2>4 DEF AtStack, AtVisited, AtNew
<1>7. Solves(ends)
  <2>1. [t \in Hunts(V) |-> Turn(ends, t)] = [t \in Hunts(V) |-> ends[t]]
    <3>. HIDE DEF Turn
    <3>. QED
      BY <1>6
  <2>. QED
    BY <1>5, <2>1
<1>8. Solves(search)
  <2>. HIDE DEF Solves
  <2>. QED
    BY <1>7
<1>9. \A t \in Hunts(V) : search[t] = Turn(search, t)
  <2>. HIDE DEF Turn, search
  <2>. QED
    BY <1>8
<1>. HIDE DEF search, Solves
<1>. DEFINE S == {p \in D : search[p[1]] = p[2]}
<1>10. ASSUME NEW t \in Hunts(V), NEW a \in Hunts(V), Leads(G, V, S, t, a)
       PROVE  search[t] = a
  <2>1. \A x, y : <<x, y>> \in S => search[x] = y
    OBVIOUS
  <2>. HIDE DEF S
  <2>2. search[t] = Turn(search, t)
    BY <1>9
  <2>. USE DEF AtStack, AtVisited, AtNew, ByEmpty, ByStack, ByVisited, ByFound, ByNew
  <2>3. CASE ByEmpty(t, a) \/ ByStack(t, a)
    BY <2>2, <2>3
  <2>4. CASE ByVisited(S, t, a)
    BY <2>1, <2>2, <2>4
  <2>5. CASE ByFound(G, S, t, a)
    BY <2>1, <2>2, <2>5
  <2>6. CASE ByNew(G, V, S, t, a)
    <3>1. PICK b \in Hunts(V) : ~b.found /\ <<Inside(G, t), b>> \in S /\ <<Back(t, b), a>> \in S
      BY <2>6
    <3>2. search[Inside(G, t)] = b /\ search[Back(t, b)] = a
      BY <2>1, <3>1
    <3>. QED
      BY <2>2, <2>6, <3>1, <3>2
  <2>. QED
    BY <1>10, <2>3, <2>4, <2>5, <2>6 DEF Leads
<1>11. S = D
  <2>1. S \in SUBSET D
    OBVIOUS
  <2>2. \A t, a \in Hunts(V) : Leads(G, V, S, t, a) /\ <<t, a>> \in D => <<t, a>> \in S
    BY <1>10
  <2>. HIDE DEF S
  <2>. QED
    BY <2>1, <2>2, HuntedLeast DEF D
<1>12. search[s] = ends[s]
  <2>1. <<s, ends[s]>> \in S
    BY <1>2, <1>11
  <2>. QED
    BY <2>1
<1>. QED
  BY <1>1, <1>2, <1>12 DEF D

LEMMA NeedsOfNeeded ==
  ASSUME NEW V, IsFiniteSet(V), NEW G \in [V -> Seq(V)], NEW v \in V
  PROVE  /\ \A u \in Needs(G, v) : u \in V /\ Needs(G, u) \subseteq Needs(G, v)
         /\ \A u \in Needs(G, v) : MeetsCycle(G, u) => MeetsCycle(G, v)
         /\ \A S : /\ Holding(G, S) /\ Range(G[v]) \subseteq S
                   /\ \A u \in S : u \notin Needs(G, u)
                   => /\ v \notin S => v \notin Needs(G, v)
                      /\ ~MeetsCycle(G, v) \/ v \in Needs(G, v)
<1>. HIDE DEF Needs
<1>1. /\ Needs(G, v) \in SUBSET V /\ Holding(G, Needs(G, v))
      /\ \A S : Range(G[v]) \subseteq S /\ Holding(G, S) => Needs(G, v) \subseteq S
  BY NeedsIsLeast
<1>2. \A u \in Needs(G, v) : u \in V /\ Needs(G, u) \subseteq Needs(G, v)
  <2>. SUFFICES ASSUME NEW u \in Needs(G, v) PROVE u \in V /\ Needs(G, u) \subseteq Needs(G, v)
    OBVIOUS
  <2>1. u \in V /\ Range(G[u]) \subseteq Needs(G, v)
    BY <1>1 DEF Holding
  <2>2. \A S : Range(G[u]) \subseteq S /\ Holding(G, S) => Needs(G, u) \subseteq S
    BY <2>1, NeedsIsLeast
  <2>. QED
    BY <1>1, <2>1, <2>2
<1>3. \A u \in Needs(G, v) : MeetsCycle(G, u) => MeetsCycle(G, v)
  BY <1>2 DEF MeetsCycle
<1>4. ASSUME NEW S, Holding(G, S), Range(G[v]) \subseteq S, \A u \in S : u \notin Needs(G, u)
      PROVE  /\ v \notin S => v \notin Needs(G, v)
             /\ ~MeetsCycle(G, v) \/ v \in Needs(G, v)
  <2>1. Needs(G, v) \subseteq S
    BY <1>1, <1>4
  <2>. QED
    BY <1>4, <2>1 DEF MeetsCycle
<1>. QED
  BY <1>2, <1>3, <1>4

(* What has been visited and has left the stack depends on no cycle; what is  *)
(* in the stack is on the way to the rules of the list, or was left there by  *)
(* a search that has met a cycle (those in O).                                *)
Done(s) == s.vis \ s.stack
Settled(G, s) == /\ s.stack \subseteq s.vis
                 /\ Holding(G, Done(s))
                 /\ \A v \in Done(s) : v \notin Needs(G, v)
OnPath(G, O, s) == /\ Settled(G, s) /\ ~s.found
                   /\ \A v \in O : MeetsCycle(G, v)
                   /\ \A v \in s.stack \ O : Range(s.todo) \subseteq Needs(G, v)
Outcome(G, s, a) == /\ Settled(G, a) /\ Done(s) \subseteq Done(a)
                    /\ a.found => /\ \A v \in a.stack : MeetsCycle(G, v)
                                  /\ \E u \in Range(s.todo) : MeetsCycle(G, u)
                    /\ ~a.found => a.stack = s.stack /\ Range(s.todo) \subseteq Done(a)

LEMMA HuntFindsCycles ==
  ASSUME NEW V, IsFiniteSet(V), NEW G \in [V -> Seq(V)], NEW O,
         NEW s, NEW a, <<s, a>> \in Hunted(G, V), OnPath(G, O, s)
  PROVE  Outcome(G, s, a)
<1>. DEFINE S == {p \in Hunted(G, V) : OnPath(G, O, p[1]) => Outcome(G, p[1], p[2])}
<1>1. ASSUME NEW t \in Hunts(V), NEW c \in Hunts(V), Leads(G, V, S, t, c), OnPath(G, O, t)
      PROVE  Outcome(G, t, c)
  <2>0. \A x, y : <<x, y>> \in S /\ OnPath(G, O, x) => Outcome(G, x, y)
    OBVIOUS
  <2>. HIDE DEF S
  <2>. DEFINE u == Head(t.todo)
  <2>a. /\ t.vis \in SUBSET V /\ t.stack \in SUBSET V /\ t.todo \in Seq(V)
        /\ t.todo # <<>> => u \in V /\ u \in Range(t.todo) /\ Range(t.todo) = Range(Tail(t.todo)) \cup {u}
    <3>1. t.vis \in SUBSET V /\ t.stack \in SUBSET V /\ t.todo \in Seq(V)
      BY HuntTypes
    <3>2. ASSUME t.todo # <<>>
          PROVE  u \in V /\ u \in Range(t.todo) /\ Range(t.todo) = Range(Tail(t.todo)) \cup {u}
      BY <3>1, <3>2, RangeTail
    <3>. QED
      BY <3>1, <3>2
  <2>b. /\ t.stack \subseteq t.vis /\ Holding(G, Done(t)) /\ \A v \in Done(t) : v \notin Needs(G, v)
    BY <1>1 DEF OnPath, Settled
  <2>1. CASE ByEmpty(t, c)
    <3>1. Range(t.todo) = {}
      BY <2>1 DEF ByEmpty, Range
    <3>. QED
      BY <1>1, <2>1, <3>1 DEF ByEmpty, OnPath, Outcome
  <2>2. CASE ByStack(t, c)
    <3>1. c.found /\ c.vis = t.vis /\ c.stack = t.stack
      BY <2>2, HuntTypes DEF ByStack
    <3>2. t.todo # <<>> /\ u \in t.stack
      BY <2>2 DEF ByStack, AtStack
    <3>. HIDE DEF u
    <3>3. MeetsCycle(G, u)
      <4>1. CASE u \in O
        BY <1>1, <4>1 DEF OnPath
      <4>2. CASE u \notin O
        <5>1. u \in Needs(G, u)
          BY <1>1, <2>a, <3>2, <4>2 DEF OnPath
        <5>. QED
          BY <5>1 DEF MeetsCycle
      <4>. QED
        BY <4>1, <4>2
    <3>4. ASSUME NEW v \in c.stack PROVE MeetsCycle(G, v)
      <4>1. CASE v \in O
        BY <1>1, <4>1 DEF OnPath
      <4>2. CASE v \notin O
        <5>1. u \in Needs(G, v) /\ v \in V
          BY <1>1, <2>a, <3>1, <3>2, <3>4, <4>2 DEF OnPath
        <5>. QED
          BY <3>3, <5>1, NeedsOfNeeded
      <4>. QED
        BY <4>1, <4>2
    <3>5. Done(c) = Done(t)
      BY <3>1 DEF Done
    <3>. QED
      BY <2>a, <2>b, <3>1, <3>2, <3>3, <3>4, <3>5 DEF Outcome, Settled
  <2>3. CASE ByVisited(S, t, c)
    <3>1. t.todo # <<>> /\ u \notin t.stack /\ u \in t.vis /\ <<Passed(t), c>> \in S
      BY <2>3 DEF ByVisited, AtVisited
    <3>2. /\ Passed(t).todo = Tail(t.todo) /\ Passed(t).found = t.found
          /\ Passed(t).vis = t.vis /\ Passed(t).stack = t.stack
      BY <3>1, HuntTypes
    <3>. HIDE DEF u
    <3>3. OnPath(G, O, Passed(t))
      BY <1>1, <2>a, <3>1, <3>2 DEF OnPath, Settled, Done
    <3>4. Outcome(G, Passed(t), c)
      BY <2>0, <3>1, <3>3
    <3>5. Done(Passed(t)) = Done(t) /\ u \in Done(t)
      BY <3>1, <3>2 DEF Done
    <3>. QED
      BY <2>a, <3>1, <3>2, <3>4, <3>5 DEF Outcome
  <2>4. ASSUME AtNew(t)
        PROVE  /\ OnPath(G, O, Inside(G, t)) /\ Done(Inside(G, t)) = Done(t)
               /\ Inside(G, t).todo = G[u]
               /\ Inside(G, t).vis = t.vis \cup {u} /\ Inside(G, t).stack = t.stack \cup {u}
               /\ u \in V /\ u \notin t.vis /\ u \in Range(t.todo)
               /\ Range(t.todo) = Range(Tail(t.todo)) \cup {u}
               /\ \A b \in Hunts(V) : /\ Back(t, b).todo = Tail(t.todo) /\ Back(t, b).found = b.found
                                      /\ Back(t, b).vis = b.vis /\ Back(t, b).stack = b.stack \ {u}
    <3>1. t.todo # <<>> /\ u \notin t.stack /\ u \notin t.vis
      BY <2>4 DEF AtNew
    <3>2. /\ Inside(G, t).todo = G[u] /\ ~Inside(G, t).found
          /\ Inside(G, t).vis = t.vis \cup {u} /\ Inside(G, t).stack = t.stack \cup {u}
          /\ \A b \in Hunts(V) : /\ Back(t, b).todo = Tail(t.todo) /\ Back(t, b).found = b.found
                                 /\ Back(t, b).vis = b.vis /\ Back(t, b).stack = b.stack \ {u}
      BY <3>1, HuntTypes
    <3>. HIDE DEF u
    <3>3. Done(Inside(G, t)) = Done(t)
      BY <3>1, <3>2 DEF Done
    <3>4. Range(G[u]) \subseteq Needs(G, u)
      BY <2>a, <3>1, NeedsIsLeast
    <3>5. ASSUME NEW v \in Inside(G, t).stack \ O PROVE Range(G[u]) \subseteq Needs(G, v)
      <4>1. CASE v = u
        BY <3>4, <4>1
      <4>2. CASE v # u
        <5>1. u \in Needs(G, v) /\ v \in V
          BY <1>1, <2>a, <3>1, <3>2, <3>5, <4>2 DEF OnPath
        <5>2. Needs(G, u) \subseteq Needs(G, v)
          BY <5>1, NeedsOfNeeded
        <5>. QED
          BY <3>4, <5>2
      <4>. QED
        BY <4>1, <4>2
    <3>6. OnPath(G, O, Inside(G, t))
      BY <1>1, <2>b, <3>2, <3>3, <3>5 DEF OnPath, Settled
    <3>. QED
      BY <2>a, <3>1, <3>2, <3>3, <3>6
  <2>5. CASE ByFound(G, S, t, c)
    <3>1. AtNew(t) /\ c.found /\ <<Inside(G, t), c>> \in S
      BY <2>5 DEF ByFound
    <3>. HIDE DEF u
    <3>2. Outcome(G, Inside(G, t), c)
      BY <2>0, <2>4, <3>1
    <3>3. PICK d \in Range(G[u]) : MeetsCycle(G, d)
      BY <2>4, <3>1, <3>2 DEF Outcome
    <3>4. MeetsCycle(G, u)
      <4>1. d \in Needs(G, u) /\ u \in V
        BY <2>4, <3>1, NeedsIsLeast
      <4>. QED
        BY <3>3, <4>1, NeedsOfNeeded
    <3>. QED
      BY <2>4, <3>1, <3>2, <3>4 DEF Outcome
  <2>6. CASE ByNew(G, V, S, t, c)
    <3>1. PICK b \in Hunts(V) : ~b.found /\ <<Inside(G, t), b>> \in S /\ <<Back(t, b), c>> \in S
      BY <2>6 DEF ByNew
    <3>2. AtNew(t)
      BY <2>6 DEF ByNew
    <3>. HIDE DEF u
    <3>3. Outcome(G, Inside(G, t), b)
      BY <2>0, <2>4, <3>1, <3>2
    <3>4. /\ b.stack = t.stack \cup {u} /\ Range(G[u]) \subseteq Done(b) /\ Done(t) \subseteq Done(b)
          /\ b.stack \subseteq b.vis /\ Holding(G, Done(b)) /\ \A v \in Done(b) : v \notin Needs(G, v)
      BY <2>4, <3>1, <3>2, <3>3 DEF Outcome, Settled
    <3>5. u \in V /\ u \notin Done(b) /\ u \notin t.stack
      BY <2>4, <2>b, <3>2, <3>4 DEF Done
    <3>6. u \notin Needs(G, u)
      BY <3>4, <3>5, NeedsOfNeeded
    <3>a. /\ Back(t, b).todo = Tail(t.todo) /\ ~Back(t, b).found
          /\ Back(t, b).vis = b.vis /\ Back(t, b).stack = b.stack \ {u}
      BY <2>4, <3>1, <3>2
    <3>7. /\ Back(t, b).todo = Tail(t.todo) /\ ~Back(t, b).found
          /\ Back(t, b).vis = b.vis /\ Back(t, b).stack = t.stack
      BY <3>4, <3>5, <3>a
    <3>8. Done(Back(t, b)) = Done(b) \cup {u}
      BY <3>4, <3>5, <3>7 DEF Done
    <3>9. Settled(G, Back(t, b))
      <4>1. Holding(G, Done(b) \cup {u})
        BY <3>4 DEF Holding
      <4>. QED
        BY <3>4, <3>6, <3>7, <3>8, <4>1 DEF Settled
    <3>10. OnPath(G, O, Back(t, b))
      BY <1>1, <2>4, <3>2, <3>7, <3>9 DEF OnPath
    <3>11. Outcome(G, Back(t, b), c)
      BY <2>0, <3>1, <3>10
    <3>. QED
      BY <2>4, <3>2, <3>4, <3>7, <3>8, <3>11 DEF Outcome
  <2>. QED
    BY <1>1, <2>1, <2>2, <2>3, <2>5, <2>6 DEF Leads
<1>2. S = Hunted(G, V)
  <2>1. S \in SUBSET Hunted(G, V)
    OBVIOUS
  <2>2. \A t, c \in Hunts(V) : Leads(G, V, S, t, c) /\ <<t, c>> \in Hunted(G, V) => <<t, c>> \in S
    BY <1>1
  <2>. HIDE DEF S
  <2>. QED
    BY <2>1, <2>2, HuntedLeast
<1>. QED
  BY <1>2

\* Between two goals: what is in the stack was left there.
Between(G, V, x) == /\ x \in [vis : SUBSET V, stack : SUBSET V, kept : Seq(V)]
                    /\ Settled(G, x)
                    /\ \A v \in x.stack : MeetsCycle(G, v)
                    /\ \A v \in Range(x.kept) : ~MeetsCycle(G, v)

LEMMA GoalChecked ==
  ASSUME NEW V, IsFiniteSet(V), NEW G \in [V -> Seq(V)], NEW v \in V, NEW x, Between(G, V, x)
  PROVE  /\ Between(G, V, CheckGoal(G, x, v))
         /\ CheckGoal(G, x, v).kept = IF MeetsCycle(G, v) THEN x.kept ELSE Append(x.kept, v)
<1>1. /\ x \in [vis : SUBSET V, stack : SUBSET V, kept : Seq(V)] /\ Settled(G, x)
      /\ \A u \in x.stack : MeetsCycle(G, u)
      /\ \A u \in Range(x.kept) : ~MeetsCycle(G, u)
  BY DEF Between
<1>2. /\ Append(x.kept, v) \in Seq(V) /\ Range(Append(x.kept, v)) = Range(x.kept) \cup {v}
      /\ <<v>> \in Seq(V) /\ Range(<<v>>) = {v}
  <2>1. Append(x.kept, v) \in Seq(V) /\ Range(Append(x.kept, v)) = Range(x.kept) \cup {v}
    BY <1>1, RangeAppend
  <2>2. <<v>> \in Seq(V) /\ Range(<<v>>) = {v}
    BY DEF Range
  <2>. QED
    BY <2>1, <2>2
<1>3. ASSUME NEW S, Holding(G, S), v \in S, \A u \in S : u \notin Needs(G, u)
      PROVE  ~MeetsCycle(G, v)
  BY <1>3, NeedsOfNeeded DEF Holding
<1>4. CASE v \notin x.vis
  <2>. DEFINE s == [todo |-> <<v>>, found |-> FALSE, vis |-> x.vis, stack |-> x.stack]
              a == SearchFrom(G, v, x)
              y == [vis |-> a.vis, stack |-> a.stack,
                    kept |-> IF a.found THEN x.kept ELSE Append(x.kept, v)]
  <2>1. s \in Hunts(V)
    BY <1>1, <1>2 DEF Hunts
  <2>2. a = GraphHasCycleUtil(G)[s]
    BY DEF SearchFrom
  <2>3. /\ s.todo = <<v>> /\ s.found = FALSE /\ s.vis = x.vis /\ s.stack = x.stack
    OBVIOUS
  <2>4. CheckGoal(G, x, v) = y
    BY <1>4 DEF CheckGoal, Visit
  <2>. HIDE DEF s, a
  <2>5. <<s, a>> \in Hunted(G, V)
    BY <2>1, <2>2, HuntIsHunted
  <2>6. a \in Hunts(V)
    BY <2>5 DEF Hunted
  <2>7. OnPath(G, x.stack, s)
    BY <1>1, <2>3 DEF OnPath, Settled, Done
  <2>8. Outcome(G, s, a)
    BY <2>5, <2>7, HuntFindsCycles
  <2>9. /\ y.vis = a.vis /\ y.stack = a.stack /\ y.kept = IF a.found THEN x.kept ELSE Append(x.kept, v)
        /\ y \in [vis : SUBSET V, stack : SUBSET V, kept : Seq(V)]
    BY <1>1, <1>2, <2>6 DEF Hunts
  <2>. HIDE DEF y
  <2>10. Done(y) = Done(a)
    BY <2>9 DEF Done
  <2>11. Settled(G, y) /\ Holding(G, Done(a)) /\ \A u \in Done(a) : u \notin Needs(G, u)
    BY <2>8, <2>9, <2>10 DEF Outcome, Settled
  <2>12. CASE a.found
    <3>1. MeetsCycle(G, v) /\ \A u \in y.stack : MeetsCycle(G, u)
      BY <1>2, <2>3, <2>8, <2>9, <2>12 DEF Outcome
    <3>. QED
      BY <1>1, <2>4, <2>9, <2>11, <2>12, <3>1 DEF Between
  <2>13. CASE ~a.found
    <3>1. v \in Done(a) /\ a.stack = x.stack
      BY <1>2, <2>3, <2>8, <2>13 DEF Outcome
    <3>2. ~MeetsCycle(G, v)
      BY <1>3, <2>11, <3>1
    <3>. QED
      BY <1>1, <1>2, <2>4, <2>9, <2>11, <2>13, <3>1, <3>2 DEF Between
  <2>. QED
    BY <2>12, <2>13
<1>5. CASE v \in x.vis /\ v \in x.stack
  <2>1. CheckGoal(G, x, v) = x /\ MeetsCycle(G, v)
    BY <1>1, <1>5 DEF CheckGoal
  <2>. QED
    BY <2>1
<1>6. CASE v \in x.vis /\ v \notin x.stack
  <2>. DEFINE y == Keep(x, v)
  <2>1. CheckGoal(G, x, v) = y
    BY <1>6 DEF CheckGoal
  <2>2. /\ y.vis = x.vis /\ y.stack = x.stack /\ y.kept = Append(x.kept, v)
        /\ y \in [vis : SUBSET V, stack : SUBSET V, kept : Seq(V)]
    BY <1>1, <1>2 DEF Keep
  <2>3. ~MeetsCycle(G, v)
    BY <1>1, <1>3, <1>6 DEF Settled, Done
  <2>. HIDE DEF y
  <2>4. Settled(G, y)
    BY <1>1, <2>2 DEF Settled, Done
  <2>. QED
    BY <1>1, <1>2, <2>1, <2>2, <2>3, <2>4 DEF Between
<1>. QED
  BY <1>4, <1>5, <1>6

(* check_cycle keeps, in their order, exactly the goals that depend on no     *)
(* cycle, whatever the graph and the list of goals: the search goes over      *)
(* every rule once for all of them (parmake.c:18-60).                         *)
THEOREM CheckCorrect ==
  ASSUME NEW V, IsFiniteSet(V), NEW G \in [V -> Seq(V)], NEW list \in Seq(V)
  PROVE  LET left == CheckCycle(G, list)
         IN  /\ left = AcyclicGoals(G, list)
             /\ left \in Seq(V) /\ \A v \in Range(left) : ~MeetsCycle(G, v)
<1>. DEFINE n == Len(list)
            Nothing == [vis |-> {}, stack |-> {}, kept |-> <<>>]
            Turn(x, k) == CheckGoal(G, x, list[k])
            Solves(f, m) == f = [k \in 0..m |-> IF k = 0 THEN Nothing ELSE Turn(f[k - 1], k)]
            after == CHOOSE f : Solves(f, n)
            Sieve(q, k) == IF MeetsCycle(G, list[k]) THEN q ELSE Append(q, list[k])
            Sieves(f) == f = [k \in 0..n |-> IF k = 0 THEN <<>>
                                             ELSE IF MeetsCycle(G, list[k]) THEN f[k - 1]
                                             ELSE Append(f[k - 1], list[k])]
            upTo == CHOOSE f : Sieves(f)
<1>1. CheckCycle(G, list) = after[n].kept
  BY Zenon DEF CheckCycle
<1>2. AcyclicGoals(G, list) = upTo[n]
  BY Zenon DEF AcyclicGoals
<1>3. n \in Nat /\ \A k \in 1..n : list[k] \in V
  OBVIOUS
<1>4. ASSUME NEW x, NEW k \in 1..n, Between(G, V, x)
      PROVE  Between(G, V, Turn(x, k)) /\ Turn(x, k).kept = Sieve(x.kept, k)
  <2>. DEFINE v == list[k]
  <2>1. v \in V
    BY <1>3
  <2>. HIDE DEF v
  <2>2. /\ Between(G, V, CheckGoal(G, x, v))
        /\ CheckGoal(G, x, v).kept = IF MeetsCycle(G, v) THEN x.kept ELSE Append(x.kept, v)
    BY <1>4, <2>1, GoalChecked
  <2>. QED
    BY <2>2 DEF v
<1>5. Between(G, V, Nothing)
  BY DEF Between, Settled, Done, Holding, Range
<1>. HIDE DEF Turn, after, n, Nothing
<1>6. ASSUME NEW m \in 1..n, NEW f, Solves(f, m - 1) PROVE \E g : Solves(g, m)
  <2>. DEFINE g == [k \in 0..m |-> IF k = m THEN Turn(f[m - 1], m) ELSE f[k]]
  <2>1. \A k \in 0..(m - 1) : f[k] = IF k = 0 THEN Nothing ELSE Turn(f[k - 1], k)
    BY <1>3, <1>6
  <2>2. \A k \in 0..m : g[k] = IF k = 0 THEN Nothing ELSE Turn(g[k - 1], k)
    BY <1>3, <1>6, <2>1
  <2>3. g = [k \in 0..m |-> g[k]]
    OBVIOUS
  <2>. HIDE DEF g
  <2>4. Solves(g, m)
    BY <2>2, <2>3
  <2>. QED
    BY <2>4
<1>7. \E f : Solves(f, n)
  <2>. DEFINE P(m) == \E f : Solves(f, m)
              T == {m \in 0..n : P(m)}
  <2>1. Solves([k \in 0..0 |-> Nothing], 0)
    OBVIOUS
  <2>2. P(0) /\ \A m \in 1..n : P(m - 1) => P(m)
    <3>. HIDE DEF Solves
    <3>. QED
      BY <1>6, <2>1
  <2>. HIDE DEF P
  <2>3. 0 \in T /\ \A m \in 1..n : m - 1 \in T => m \in T
    BY <1>3, <2>2
  <2>. HIDE DEF T
  <2>4. n \in T
    BY <1>3, <2>3, UpTo
  <2>. QED
    BY <2>4 DEF P, T
<1>8. Solves(after, n)
  <2>. HIDE DEF Solves
  <2>. QED
    BY <1>7 DEF after
<1>9. after[0] = Nothing /\ \A k \in 1..n : after[k] = Turn(after[k - 1], k)
  BY <1>3, <1>8
<1>. HIDE DEF Solves
<1>10. \A m \in 0..n : Between(G, V, after[m])
  <2>. SUFFICES ASSUME NEW m \in 0..n PROVE Between(G, V, after[m])
    OBVIOUS
  <2>. DEFINE T == {k \in 0..n : Between(G, V, after[k])}
  <2>1. 0 \in T /\ \A k \in 1..m : k - 1 \in T => k \in T
    BY <1>3, <1>4, <1>5, <1>9
  <2>. HIDE DEF T
  <2>2. m \in T
    BY <1>3, <2>1, UpTo
  <2>. QED
    BY <2>2 DEF T
<1>11. Nothing.kept = <<>> /\ \A k \in 1..n : after[k].kept = Sieve(after[k - 1].kept, k)
  <2>1. Nothing.kept = <<>>
    BY DEF Nothing
  <2>2. \A k \in 1..n : k - 1 \in 0..n
    BY <1>3
  <2>. QED
    BY <1>4, <1>9, <1>10, <2>1, <2>2
<1>12. Sieves(upTo)
  <2>. DEFINE g == [k \in 0..n |-> after[k].kept]
  <2>1. \A k \in 0..n : g[k] = IF k = 0 THEN <<>> ELSE Sieve(g[k - 1], k)
    <3>1. \A k \in 0..n : g[k] = after[k].kept /\ (k # 0 => k \in 1..n /\ k - 1 \in 0..n)
      BY <1>3
    <3>. HIDE DEF g, Sieve
    <3>. QED
      BY <1>9, <1>11, <3>1
  <2>2. g = [k \in 0..n |-> g[k]]
    OBVIOUS
  <2>. HIDE DEF g
  <2>3. Sieves(g)
    BY <2>1, <2>2
  <2>. HIDE DEF Sieves
  <2>. QED
    BY <2>3
<1>13. upTo[0] = <<>> /\ \A k \in 1..n : upTo[k] = Sieve(upTo[k - 1], k)
  <2>. HIDE DEF upTo
  <2>1. ASSUME NEW k \in 0..n
        PROVE  upTo[k] = IF k = 0 THEN <<>> ELSE Sieve(upTo[k - 1], k)
    <3>1. upTo = [i \in 0..n |-> IF i = 0 THEN <<>> ELSE Sieve(upTo[i - 1], i)]
      BY <1>12
    <3>. HIDE DEF Sieve, Sieves
    <3>. QED
      BY <3>1
  <2>. HIDE DEF Sieve, Sieves
  <2>2. 0 \in 0..n /\ \A k \in 1..n : k \in 0..n /\ k # 0
    BY <1>3
  <2>. QED
    BY <2>1, <2>2
<1>. HIDE DEF upTo, Sieves, Sieve
<1>14. after[n].kept = upTo[n]
  <2>. DEFINE T == {k \in 0..n : after[k].kept = upTo[k]}
  <2>1. 0 \in T /\ \A k \in 1..n : k - 1 \in T => k \in T
    BY <1>3, <1>9, <1>11, <1>13
  <2>. HIDE DEF T
  <2>2. n \in T
    BY <1>3, <2>1, UpTo
  <2>. QED
    BY <2>2 DEF T
<1>15. after[n].kept \in Seq(V) /\ \A v \in Range(after[n].kept) : ~MeetsCycle(G, v)
  BY <1>3, <1>10 DEF Between
<1>. QED
  BY <1>1, <1>2, <1>14, <1>15

(* Where no goal depends on a cycle, topological_sort lists the goals and all *)
(* that is behind them (parmake.c:62-87).                                     *)
LEMMA SortIsOrder ==
  ASSUME NEW V, IsFiniteSet(V), NEW G \in [V -> Seq(V)], NEW targets \in Seq(V),
         \A v \in Range(targets) : ~MeetsCycle(G, v)
  PROVE  IsOrderFor(G, TopologicalSort(G, targets), targets)
<1>. DEFINE R == UNION {Needs(G, r) \cup {r} : r \in Range(targets)}
            N == {p \in V \X V : p[2] \in Needs(G, p[1])}
            list == TopologicalSort(G, targets)
<1>1. Range(targets) \subseteq V /\ Range(targets) \subseteq R
  BY DEF Range
<1>2. \A x \in R : \E r \in Range(targets) : r \in V /\ (x = r \/ x \in Needs(G, r))
  BY <1>1
<1>3. \A r \in Range(targets) : \A x : x = r \/ x \in Needs(G, r) => x \in R
  OBVIOUS
<1>4. \A x, y \in V : <<x, y>> \in N <=> y \in Needs(G, x)
  OBVIOUS
<1>. HIDE DEF R, N, list
<1>5. R \in SUBSET V
  BY <1>2, NeedsIsLeast
<1>6. NoCycle(G, N, R)
  <2>1. ASSUME NEW v \in R, NEW d \in Range(G[v]) PROVE d \in R /\ <<v, d>> \in N
    <3>1. PICK r \in Range(targets) : r \in V /\ (v = r \/ v \in Needs(G, r))
      BY <1>2
    <3>2. v \in V /\ d \in Needs(G, v) /\ d \in V
      BY <1>5, NeedsIsLeast
    <3>3. d \in Needs(G, r)
      BY <3>1, <3>2, NeedsOfNeeded
    <3>. QED
      BY <1>3, <1>4, <3>2, <3>3
  <2>2. ASSUME NEW x \in R, NEW y \in R, NEW z \in R, <<x, y>> \in N, <<y, z>> \in N
        PROVE  <<x, z>> \in N
    <3>1. x \in V /\ y \in V /\ z \in V
      BY <1>5
    <3>2. y \in Needs(G, x) /\ z \in Needs(G, y)
      BY <1>4, <2>2, <3>1
    <3>3. z \in Needs(G, x)
      BY <3>1, <3>2, NeedsOfNeeded
    <3>. QED
      BY <1>4, <3>1, <3>3
  <2>3. ASSUME NEW x \in R, <<x, x>> \in N PROVE FALSE
    <3>1. PICK r \in Range(targets) : r \in V /\ (x = r \/ x \in Needs(G, r))
      BY <1>2
    <3>2. x \in Needs(G, x)
      BY <1>4, <1>5, <2>3
    <3>3. MeetsCycle(G, r)
      BY <3>1, <3>2 DEF MeetsCycle
    <3>. QED
      BY <3>3
  <2>. QED
    BY <2>1, <2>2, <2>3 DEF NoCycle
<1>7. list \in Seq(R) /\ IsInjective(list) /\ Range(targets) \subseteq Range(list) /\ Ordered(G, list)
  BY <1>1, <1>5, <1>6, SortCorrect DEF list
<1>8. DOMAIN list = 1..Len(list) /\ Len(list) \in Nat /\ Range(list) \subseteq R
  BY <1>7 DEF Range
<1>9. Holding(G, Range(list))
  <2>. SUFFICES ASSUME NEW i \in DOMAIN list PROVE Range(G[list[i]]) \subseteq Range(list)
    BY DEF Holding, Range
  <2>1. \A d \in Range(G[list[i]]) : \E j \in DOMAIN list : list[j] = d
    BY <1>7 DEF Ordered
  <2>. QED
    BY <2>1 DEF Range
<1>10. R \subseteq Range(list)
  <2>. SUFFICES ASSUME NEW x \in R PROVE x \in Range(list)
    OBVIOUS
  <2>1. PICK r \in Range(targets) : r \in V /\ (x = r \/ x \in Needs(G, r))
    BY <1>2
  <2>2. r \in Range(list) /\ Range(G[r]) \subseteq Range(list)
    BY <1>7, <1>9 DEF Holding
  <2>3. Needs(G, r) \subseteq Range(list)
    BY <1>9, <2>1, <2>2, NeedsIsLeast
  <2>. QED
    BY <2>1, <2>2, <2>3
<1>11. \A i \in DOMAIN list : \A d \in Range(G[list[i]]) : \E j \in 1..(i - 1) : list[j] = d
  <2>. SUFFICES ASSUME NEW i \in DOMAIN list, NEW d \in Range(G[list[i]])
                PROVE  \E j \in 1..(i - 1) : list[j] = d
    OBVIOUS
  <2>1. PICK j \in DOMAIN list : j < i /\ list[j] = d
    BY <1>7 DEF Ordered
  <2>2. j \in 1..(i - 1)
    BY <1>8, <2>1
  <2>. QED
    BY <2>1, <2>2
<1>12. Range(list) = R
  BY <1>8, <1>10
<1>. QED
  BY <1>7, <1>11, <1>12 DEF IsOrderFor, R, list

-----------------------------------------------------------------------------
(* The loop that queues the rules that are ready.                             *)

\* What the second loop has made of the states and the queue after k rules.
Prepared(fs, k, x) ==
  /\ x.state \in [Rule -> {0, 1, 2}] /\ x.jobs \in Seq(Rule)
  /\ IsInjective(x.jobs)
  /\ \A r \in Range(x.jobs) : /\ x.state[r] = 2
                              /\ \E i \in 1..k : sorted[i] = r
                              /\ \A d \in Range(graph[r]) : d \in fs
  /\ \A r \in Rule : /\ x.state[r] = 2 => r \in Range(x.jobs)
                     /\ x.state[r] = 1 => r \in fs

LEMMA QueuedIsPrepared ==
  ASSUME graph \in [Rule -> Seq(Rule)], sorted \in Seq(Rule), IsInjective(sorted), NEW fs
  PROVE  Prepared(fs, Len(sorted), Queued(fs))
<1>. DEFINE n == Len(sorted)
            Start0 == [state |-> Found(fs), jobs |-> <<>>]
            Ready0(x, r) == \A d \in Range(graph[r]) : x.state[d] = 1
            Turn(x, r) == IF Ready0(x, r)
                          THEN [state |-> [x.state EXCEPT ![r] = 2], jobs |-> Append(x.jobs, r)]
                          ELSE x
            Solves(f, m) == f = [k \in 0..m |-> IF k = 0 THEN Start0 ELSE Turn(f[k - 1], sorted[k])]
            after == CHOOSE f : Solves(f, n)
<1>1. Queued(fs) = after[n]
  BY Zenon DEF Queued
<1>2. n \in Nat /\ (\A k \in 1..n : sorted[k] \in Rule) /\ DOMAIN sorted = 1..n
  OBVIOUS
<1>3. ASSUME NEW x, NEW k \in 1..n, Prepared(fs, k - 1, x) PROVE Prepared(fs, k, Turn(x, sorted[k]))
  <2>. HIDE DEF Ready0
  <2>. DEFINE r == sorted[k]
  <2>00. k \in 1..n /\ k - 1 \in 0..n /\ r \in Rule /\ DOMAIN sorted = 1..n
    BY <1>2
  <2>a. \A i, j \in 1..n : sorted[i] = sorted[j] => i = j
    BY <1>2 DEF IsInjective
  <2>0. r \in Rule /\ \A i \in 1..(k - 1) : sorted[i] # r
    <3>. HIDE DEF n
    <3>. QED
      BY <1>2, <2>00, <2>a
  <2>. HIDE DEF r
  <2>01. 1..(k - 1) \subseteq 1..k
    BY <1>2
  <2>1. /\ x.state \in [Rule -> {0, 1, 2}] /\ x.jobs \in Seq(Rule) /\ IsInjective(x.jobs)
        /\ r \notin Range(x.jobs)
        /\ \A q \in Range(x.jobs) : /\ x.state[q] = 2
                                    /\ \E i \in 1..k : sorted[i] = q
                                    /\ \A d \in Range(graph[q]) : d \in fs
        /\ \A q \in Rule : /\ x.state[q] = 2 => q \in Range(x.jobs)
                           /\ x.state[q] = 1 => q \in fs
    BY <1>3, <2>0, <2>01 DEF Prepared
  <2>. DEFINE y == [state |-> [x.state EXCEPT ![r] = 2], jobs |-> Append(x.jobs, r)]
  <2>2. CASE Ready0(x, r)
    <3>1. Turn(x, sorted[k]) = y
      BY <2>2 DEF r
    <3>2. /\ y.jobs \in Seq(Rule) /\ IsInjective(y.jobs) /\ Range(y.jobs) = Range(x.jobs) \cup {r}
      BY <2>0, <2>1, RangeAppend
    <3>3. /\ y.state \in [Rule -> {0, 1, 2}] /\ y.state[r] = 2
          /\ \A q \in Rule : q # r => y.state[q] = x.state[q]
      BY <2>0, <2>1
    <3>4. \A d \in Range(graph[r]) : d \in Rule /\ d \in fs
      <4>1. graph[r] \in Seq(Rule)
        BY <2>0
      <4>2. Range(graph[r]) \subseteq Rule
        BY <4>1 DEF Range
      <4>. QED
        BY <2>1, <2>2, <4>2 DEF Ready0
    <3>5. Range(x.jobs) \subseteq Rule
      BY <2>1 DEF Range
    <3>6. \A q \in Range(y.jobs) : /\ y.state[q] = 2
                                   /\ \E i \in 1..k : sorted[i] = q
                                   /\ \A d \in Range(graph[q]) : d \in fs
      <4>. SUFFICES ASSUME NEW q \in Range(y.jobs)
                    PROVE  /\ y.state[q] = 2
                           /\ \E i \in 1..k : sorted[i] = q
                           /\ \A d \in Range(graph[q]) : d \in fs
        OBVIOUS
      <4>. HIDE DEF y
      <4>1. CASE q = r
        <5>1. k \in 1..k /\ sorted[k] = q
          BY <2>00, <4>1 DEF r, n
        <5>. QED
          BY <3>3, <3>4, <4>1, <5>1
      <4>2. CASE q # r
        BY <2>1, <3>2, <3>3, <3>5, <4>2
      <4>. QED
        BY <4>1, <4>2
    <3>. HIDE DEF y
    <3>7. Prepared(fs, k, y)
      BY <2>1, <3>2, <3>3, <3>6 DEF Prepared
    <3>. QED
      BY <3>1, <3>7
  <2>3. CASE ~Ready0(x, r)
    <3>1. Turn(x, sorted[k]) = x
      BY <2>3 DEF r
    <3>. QED
      BY <2>1, <3>1 DEF Prepared
  <2>. QED
    BY <2>2, <2>3
<1>4. Prepared(fs, 0, Start0)
  BY DEF Prepared, Found, Range, IsInjective
<1>. HIDE DEF Turn, Start0, after, n
<1>5. ASSUME NEW m \in 1..n, NEW f, Solves(f, m - 1)
      PROVE  \E g : Solves(g, m)
  <2>. DEFINE g == [k \in 0..m |-> IF k = m THEN Turn(f[m - 1], sorted[m]) ELSE f[k]]
  <2>1. \A k \in 0..(m - 1) : f[k] = IF k = 0 THEN Start0 ELSE Turn(f[k - 1], sorted[k])
    BY <1>2, <1>5
  <2>2. \A k \in 0..m : g[k] = IF k = 0 THEN Start0 ELSE Turn(g[k - 1], sorted[k])
    BY <1>2, <1>5, <2>1
  <2>3. g = [k \in 0..m |-> g[k]]
    OBVIOUS
  <2>. HIDE DEF g
  <2>4. Solves(g, m)
    BY <2>2, <2>3
  <2>. QED
    BY <2>4
<1>6. \E f : Solves(f, n)
  <2>. DEFINE P(m) == \E f : Solves(f, m)
              T == {m \in 0..n : P(m)}
  <2>1. Solves([k \in 0..0 |-> Start0], 0)
    OBVIOUS
  <2>2. P(0) /\ \A m \in 1..n : P(m - 1) => P(m)
    <3>. HIDE DEF Solves
    <3>. QED
      BY <1>5, <2>1
  <2>. HIDE DEF P
  <2>3. 0 \in T /\ \A m \in 1..n : m - 1 \in T => m \in T
    BY <1>2, <2>2
  <2>4. n \in T
    <3>. HIDE DEF T
    <3>. QED
      BY <1>2, <2>3, UpTo
  <2>. QED
    BY <2>4 DEF P
<1>7. Solves(after, n)
  <2>. HIDE DEF Solves
  <2>. QED
    BY <1>6 DEF after
<1>8. after[0] = Start0 /\ \A k \in 1..n : after[k] = Turn(after[k - 1], sorted[k])
  BY <1>2, <1>7
<1>9. Prepared(fs, n, after[n])
  <2>. DEFINE T == {m \in 0..n : Prepared(fs, m, after[m])}
  <2>0. \A m \in 1..n : Prepared(fs, m - 1, after[m - 1]) => Prepared(fs, m, after[m])
    BY <1>3, <1>8
  <2>1. 0 \in T /\ \A m \in 1..n : m - 1 \in T => m \in T
    BY <1>2, <1>4, <1>8, <2>0
  <2>2. n \in T
    <3>. HIDE DEF T
    <3>. QED
      BY <1>2, <2>1, UpTo
  <2>. QED
    BY <2>2
<1>. QED
  BY <1>1, <1>9 DEF n

-----------------------------------------------------------------------------
(* The inductive invariant of the workers.                                    *)

TypeOK ==
  /\ phase \in {"parsed", "checked", "sorted", "making"}
  /\ graph \in [Rule -> Seq(Rule)] /\ goals \in Seq(Rule) /\ sorted \in Seq(Rule)
  /\ files \in SUBSET Rule
  /\ state \in [Rule -> {0, 1, -1, 2}]
  /\ jobs \in Seq(Rule \cup {Stop})
  /\ pc \in [Thread -> {"none", "pull", "stop", "deps", "run", "update", "scan", "done"}]
  /\ target \in [Thread -> Rule \cup {Stop}]
  /\ todo \in [Thread -> Seq(Rule)]
  /\ outcome \in [Thread -> {0, 1, -1}]
  /\ next \in [Thread -> Nat \ {0}]
  /\ runs \in [Rule -> {0, 1}]
  /\ result \in [Rule -> {0, 1, -1}]

\* What the sort leaves behind: all goals are listed, no rule twice.
ListOK == phase \in {"sorted", "making"} => /\ IsInjective(sorted)
                                            /\ Range(goals) \subseteq Range(sorted)

\* Nothing moves before the workers are there.
Quiet == phase # "making" =>
           /\ files = {} /\ jobs = <<>>
           /\ \A t \in Thread : pc[t] = "none"
           /\ \A r \in Rule : state[r] = 0 /\ runs[r] = 0 /\ result[r] = 0

\* A dependency that was made, and a rule all of whose dependencies were.
Made(d) == d \in files \/ result[d] = 1
Ready(r) == \A d \in Range(graph[r]) : Made(d)

\* Worker t has a rule in its hands that it has taken out of the queue.
Holds(t) == pc[t] \in {"deps", "run", "update"}

\* A rule is in one place of the queue or in the hands of one worker.
InQueue(r) == r \in Range(jobs)
OnePlace ==
  /\ \A i, j \in DOMAIN jobs : jobs[i] = jobs[j] /\ jobs[i] # Stop => i = j
  /\ \A t \in Thread : Holds(t) => target[t] \in Rule /\ ~InQueue(target[t])
  /\ \A t, u \in Thread : Holds(t) /\ Holds(u) /\ target[t] = target[u] => t = u

\* How far a rule in one of these places has come, and no rule gets there
\* again: its state is never 0 any more.
Queueing == \A r \in Rule : InQueue(r) => state[r] # 0 /\ runs[r] = 0 /\ Ready(r)
Hands == \A t \in Thread : Holds(t) =>
           /\ state[target[t]] # 0 /\ Ready(target[t])
           /\ pc[t] = "deps" => runs[target[t]] = 0 /\ outcome[t] # 1
           /\ pc[t] = "run" => runs[target[t]] = 1 /\ result[target[t]] = 0
           /\ pc[t] = "update" => /\ outcome[t] # 0
                                  /\ outcome[t] = 1 => Made(target[t])
States == \A r \in Rule : /\ state[r] = 0 => runs[r] = 0
                          /\ runs[r] = 0 => result[r] = 0
                          /\ state[r] = 1 => Made(r)
Waiting == \A r \in Rule : state[r] = 2 => \/ InQueue(r)
                                           \/ \E t \in Thread : Holds(t) /\ target[t] = r
Progress == Queueing /\ Hands /\ States /\ Waiting

\* Once a worker has been told to stop no goal waits behind the stop rule.
Decided == \A g \in Range(goals) : state[g] # 0
StopIsLast ==
  /\ \A i \in DOMAIN jobs : jobs[i] = Stop =>
       Decided /\ \A j \in DOMAIN jobs : jobs[j] \in Range(goals) => j < i
  /\ \A t \in Thread : pc[t] \in {"stop", "done"} =>
       Decided /\ \A g \in Range(goals) : ~InQueue(g)

WorkInv == TypeOK /\ ListOK /\ Quiet /\ OnePlace /\ Progress /\ StopIsLast

\* What does not move when a worker does.
LEMMA AtWork ==
  ASSUME WorkInv, NEW t \in Thread, pc[t] # "none", UNCHANGED main,
         pc' \in [Thread -> {"none", "pull", "stop", "deps", "run", "update", "scan", "done"}]
  PROVE  phase = "making" /\ ListOK' /\ Quiet'
<1>1. phase = "making"
  BY DEF WorkInv, Quiet
<1>. QED
  BY <1>1 DEF WorkInv, Quiet, ListOK, main

LEMMA InitWork == Init => WorkInv
<1>. SUFFICES ASSUME Init PROVE WorkInv
  OBVIOUS
<1>1. TypeOK
  BY ParMakeAssumption DEF Init, TypeOK
<1>2. jobs = <<>> /\ phase = "parsed" /\ (\A t \in Thread : pc[t] = "none")
      /\ \A r \in Rule : state[r] = 0 /\ runs[r] = 0 /\ result[r] = 0
  BY DEF Init
<1>3. ListOK /\ Quiet
  BY <1>2 DEF ListOK, Quiet, Init
<1>4. OnePlace /\ StopIsLast
  BY <1>2 DEF OnePlace, StopIsLast, Holds
<1>5. Progress
  BY <1>2 DEF Progress, Queueing, Hands, States, Waiting, Holds, InQueue, Range
<1>. QED
  BY <1>1, <1>3, <1>4, <1>5 DEF WorkInv

LEMMA CheckKeeps == WorkInv /\ Check => WorkInv'
<1>. SUFFICES ASSUME WorkInv, Check PROVE WorkInv'
  OBVIOUS
<1>1. goals' \in Seq(Rule)
  BY CheckCorrect, ParMakeAssumption DEF Check, WorkInv, TypeOK
<1>2. TypeOK'
  BY <1>1 DEF Check, WorkInv, TypeOK, workers
<1>3. ListOK' /\ Quiet'
  BY DEF Check, WorkInv, ListOK, Quiet, workers
<1>4. OnePlace' /\ StopIsLast'
  BY DEF Check, WorkInv, OnePlace, StopIsLast, Quiet, Holds, InQueue, workers
<1>5. Progress'
  BY DEF Check, WorkInv, Progress, Queueing, Hands, States, Waiting, Holds, InQueue, Ready, Made, workers
<1>. QED
  BY <1>2, <1>3, <1>4, <1>5 DEF WorkInv

LEMMA SortKeeps == WorkInv /\ Sort => WorkInv'
<1>. SUFFICES ASSUME WorkInv, Sort PROVE WorkInv'
  OBVIOUS
<1>1. sorted' \in Seq(Rule) /\ IsInjective(sorted') /\ Range(goals) \subseteq Range(sorted')
  BY SortLists, ParMakeAssumption DEF Sort, WorkInv, TypeOK
<1>2. TypeOK'
  BY <1>1 DEF Sort, WorkInv, TypeOK, workers
<1>3. ListOK' /\ Quiet'
  BY <1>1 DEF Sort, WorkInv, ListOK, Quiet, workers
<1>4. OnePlace' /\ StopIsLast'
  BY DEF Sort, WorkInv, OnePlace, StopIsLast, Quiet, Holds, InQueue, workers
<1>5. Progress'
  BY DEF Sort, WorkInv, Progress, Queueing, Hands, States, Waiting, Holds, InQueue, Ready, Made, workers
<1>. QED
  BY <1>2, <1>3, <1>4, <1>5 DEF WorkInv

LEMMA StartKeeps == WorkInv /\ Start => WorkInv'
<1>. SUFFICES ASSUME WorkInv, Start PROVE WorkInv'
  OBVIOUS
<1>1. /\ graph \in [Rule -> Seq(Rule)] /\ goals \in Seq(Rule)
      /\ sorted \in Seq(Rule) /\ IsInjective(sorted) /\ Range(goals) \subseteq Range(sorted)
      /\ \A r \in Rule : runs[r] = 0 /\ result[r] = 0
  BY DEF Start, WorkInv, TypeOK, ListOK, Quiet
<1>. DEFINE q == Queued(files')
<1>2. Prepared(files', Len(sorted), q)
  BY <1>1, QueuedIsPrepared
<1>. HIDE DEF q
<1>3. /\ q.state \in [Rule -> {0, 1, 2}] /\ q.jobs \in Seq(Rule) /\ IsInjective(q.jobs)
      /\ \A r \in Range(q.jobs) : q.state[r] = 2 /\ \A d \in Range(graph[r]) : d \in files'
      /\ \A r \in Rule : /\ q.state[r] = 2 => r \in Range(q.jobs)
                         /\ q.state[r] = 1 => r \in files'
  BY <1>2 DEF Prepared
<1>4. /\ state' = q.state /\ files' \in SUBSET Rule
      /\ jobs' = IF sorted = <<>> THEN <<Stop>> ELSE q.jobs
      /\ phase' = "making" /\ pc' = [t \in Thread |-> "pull"]
      /\ UNCHANGED <<graph, goals, sorted, lock, target, todo, outcome, next, runs, result>>
  BY DEF Start, q
<1>5. TypeOK'
  <2>1. jobs' \in Seq(Rule \cup {Stop})
    <3>1. Seq(Rule) \subseteq Seq(Rule \cup {Stop})
      OBVIOUS
    <3>2. <<Stop>> \in Seq(Rule \cup {Stop})
      OBVIOUS
    <3>. QED
      BY <1>3, <1>4, <3>1, <3>2
  <2>2. pc' \in [Thread -> {"none", "pull", "stop", "deps", "run", "update", "scan", "done"}]
    BY <1>4
  <2>3. state' \in [Rule -> {0, 1, -1, 2}]
    BY <1>3, <1>4
  <2>. QED
    BY <1>4, <2>1, <2>2, <2>3 DEF WorkInv, TypeOK
<1>6. ListOK' /\ Quiet'
  BY <1>1, <1>4 DEF ListOK, Quiet
<1>7. sorted = <<>> => Range(goals) = {} /\ Range(q.jobs) = {}
  <2>. SUFFICES ASSUME sorted = <<>> PROVE Range(goals) = {} /\ Range(q.jobs) = {}
    OBVIOUS
  <2>1. Len(sorted) = 0 /\ Range(sorted) = {}
    BY DEF Range
  <2>. QED
    BY <1>1, <1>2, <2>1 DEF Prepared
<1>8. \A t \in Thread : pc'[t] = "pull"
  BY <1>4
<1>9. \A r \in Rule : InQueue(r)' => r \in Range(q.jobs)
  BY <1>4, ParMakeAssumption DEF InQueue, Range
<1>10. \A r \in Rule : r \in Range(q.jobs) => InQueue(r)'
  BY <1>4, <1>7 DEF InQueue
<1>11. OnePlace'
  <2>1. \A i, j \in DOMAIN jobs' : jobs'[i] = jobs'[j] /\ jobs'[i] # Stop => i = j
    BY <1>3, <1>4 DEF IsInjective
  <2>. QED
    BY <1>8, <2>1 DEF OnePlace, Holds
<1>12. Progress'
  <2>1. \A r \in Rule : InQueue(r)' => state'[r] # 0 /\ runs'[r] = 0 /\ Ready(r)'
    BY <1>1, <1>3, <1>4, <1>9 DEF Ready, Made
  <2>2. \A r \in Rule : /\ state'[r] = 0 => runs'[r] = 0
                        /\ runs'[r] = 0 => result'[r] = 0
                        /\ state'[r] = 1 => Made(r)'
                        /\ state'[r] = 2 => InQueue(r)'
    BY <1>1, <1>3, <1>4, <1>10 DEF Made
  <2>. QED
    BY <1>8, <2>1, <2>2 DEF Progress, Queueing, Hands, States, Waiting, Holds
<1>13. StopIsLast'
  <2>1. CASE sorted = <<>>
    <3>1. Range(goals') = {}
      BY <1>4, <1>7, <2>1
    <3>. QED
      BY <1>8, <3>1 DEF StopIsLast, Decided
  <2>2. CASE sorted # <<>>
    <3>1. \A i \in DOMAIN jobs' : jobs'[i] # Stop
      BY <1>3, <1>4, <2>2, ParMakeAssumption
    <3>. QED
      BY <1>8, <3>1 DEF StopIsLast
  <2>. QED
    BY <2>1, <2>2
<1>. QED
  BY <1>5, <1>6, <1>11, <1>12, <1>13 DEF WorkInv

\* What the queue holds after a rule or the stop rule is taken or put.
LEMMA Taken ==
  ASSUME TypeOK, jobs # <<>>
  PROVE  /\ Head(jobs) \in Rule \cup {Stop} /\ Tail(jobs) \in Seq(Rule \cup {Stop})
         /\ jobs[1] = Head(jobs) /\ 1 \in DOMAIN jobs
         /\ \A i \in DOMAIN Tail(jobs) : i + 1 \in DOMAIN jobs /\ Tail(jobs)[i] = jobs[i + 1]
                                         /\ i \in Nat \ {0}
         /\ Range(jobs) = Range(Tail(jobs)) \cup {Head(jobs)}
<1>1. jobs \in Seq(Rule \cup {Stop})
  BY DEF TypeOK
<1>2. DOMAIN jobs = 1..Len(jobs) /\ DOMAIN Tail(jobs) = 1..(Len(jobs) - 1) /\ Len(jobs) \in Nat
  BY <1>1
<1>3. /\ Head(jobs) \in Rule \cup {Stop} /\ Tail(jobs) \in Seq(Rule \cup {Stop}) /\ Head(jobs) = jobs[1]
      /\ Len(jobs) > 0
      /\ \A i \in 1..(Len(jobs) - 1) : Tail(jobs)[i] = jobs[i + 1]
      /\ Range(jobs) = Range(Tail(jobs)) \cup {Head(jobs)}
  BY <1>1, RangeTail
<1>. QED
  BY <1>2, <1>3

LEMMA PutAtEnd ==
  ASSUME TypeOK, NEW r \in Rule \cup {Stop}
  PROVE  /\ Append(jobs, r) \in Seq(Rule \cup {Stop})
         /\ Range(Append(jobs, r)) = Range(jobs) \cup {r}
         /\ \E n \in Nat : /\ DOMAIN Append(jobs, r) = DOMAIN jobs \cup {n}
                           /\ Append(jobs, r)[n] = r
                           /\ \A i \in DOMAIN jobs : i \in Nat /\ i < n /\ Append(jobs, r)[i] = jobs[i]
<1>1. jobs \in Seq(Rule \cup {Stop})
  BY DEF TypeOK
<1>2. /\ Append(jobs, r) \in Seq(Rule \cup {Stop}) /\ Len(jobs) \in Nat
      /\ DOMAIN jobs = 1..Len(jobs) /\ DOMAIN Append(jobs, r) = 1..(Len(jobs) + 1)
      /\ Append(jobs, r)[Len(jobs) + 1] = r
      /\ \A i \in 1..Len(jobs) : Append(jobs, r)[i] = jobs[i]
  BY <1>1
<1>3. Range(Append(jobs, r)) = Range(jobs) \cup {r}
  BY <1>1, RangeAppend
<1>4. DOMAIN Append(jobs, r) = DOMAIN jobs \cup {Len(jobs) + 1}
  BY <1>2
<1>. QED
  BY <1>2, <1>3, <1>4

\* A rule taken from the queue is in it no longer.
LEMMA PullKeeps ==
  ASSUME WorkInv, NEW t \in Thread, Pull(t)
  PROVE  WorkInv'
<1>. DEFINE r == Head(jobs)
<1>0. TypeOK /\ ListOK /\ Quiet /\ OnePlace /\ Progress /\ StopIsLast
  BY DEF WorkInv
<1>1. /\ r \in Rule \cup {Stop} /\ Tail(jobs) \in Seq(Rule \cup {Stop})
      /\ jobs[1] = r /\ 1 \in DOMAIN jobs
      /\ \A i \in DOMAIN Tail(jobs) : i + 1 \in DOMAIN jobs /\ Tail(jobs)[i] = jobs[i + 1] /\ i \in Nat \ {0}
      /\ Range(jobs) = Range(Tail(jobs)) \cup {r}
  BY <1>0, Taken DEF Pull
<1>. HIDE DEF r
<1>2. /\ pc[t] = "pull" /\ jobs' = Tail(jobs)
      /\ target' = [target EXCEPT ![t] = r]
      /\ todo' = [todo EXCEPT ![t] = IF r = Stop THEN <<>> ELSE graph[r]]
      /\ outcome' = [outcome EXCEPT ![t] = 0]
      /\ pc' = [pc EXCEPT ![t] = IF r = Stop THEN "stop" ELSE "deps"]
      /\ UNCHANGED <<main, files, state, lock, next, runs, result>>
  BY DEF Pull, Goto, r
<1>3. /\ pc'[t] = IF r = Stop THEN "stop" ELSE "deps"
      /\ target'[t] = r /\ outcome'[t] = 0
      /\ \A u \in Thread : u # t => pc'[u] = pc[u] /\ target'[u] = target[u] /\ outcome'[u] = outcome[u]
  BY <1>0, <1>2 DEF TypeOK
<1>4. TypeOK'
  <2>1. todo' \in [Thread -> Seq(Rule)]
    BY <1>0, <1>1, <1>2 DEF TypeOK
  <2>2. pc' \in [Thread -> {"none", "pull", "stop", "deps", "run", "update", "scan", "done"}]
    BY <1>0, <1>2 DEF TypeOK
  <2>. QED
    BY <1>0, <1>1, <1>2, <2>1, <2>2 DEF TypeOK, main
<1>5. ListOK' /\ Quiet'
  BY <1>2, <1>4, AtWork DEF TypeOK
<1>6. \A q \in Rule : InQueue(q)' => InQueue(q)
  BY <1>1, <1>2 DEF InQueue
<1>7. \A i \in DOMAIN jobs' : i + 1 \in DOMAIN jobs /\ jobs'[i] = jobs[i + 1] /\ i \in Nat \ {0}
  BY <1>1, <1>2
<1>8. \A i \in DOMAIN jobs' : jobs'[i] = r => r = Stop
  <2>. SUFFICES ASSUME NEW i \in DOMAIN jobs', jobs'[i] = r, r # Stop PROVE FALSE
    OBVIOUS
  <2>1. i + 1 = 1
    BY <1>0, <1>1, <1>7 DEF OnePlace
  <2>. QED
    BY <1>7, <2>1
<1>9. r \in Rule => r \notin Range(jobs')
  BY <1>8, ParMakeAssumption DEF Range
<1>10. \A u \in Thread : Holds(u) /\ u # t => target[u] \notin Range(jobs') /\ target[u] # r
  BY <1>0, <1>1, <1>6 DEF OnePlace, InQueue
<1>11. OnePlace'
  <2>1. \A i, j \in DOMAIN jobs' : jobs'[i] = jobs'[j] /\ jobs'[i] # Stop => i = j
    <3>. SUFFICES ASSUME NEW i \in DOMAIN jobs', NEW j \in DOMAIN jobs',
                         jobs'[i] = jobs'[j], jobs'[i] # Stop
                  PROVE  i = j
      OBVIOUS
    <3>1. i + 1 = j + 1
      BY <1>0, <1>7 DEF OnePlace
    <3>. QED
      BY <1>7, <3>1
  <2>2. \A u \in Thread : Holds(u)' => target'[u] \in Rule /\ ~InQueue(target[u])'
    BY <1>0, <1>1, <1>3, <1>9, <1>10 DEF OnePlace, Holds, InQueue
  <2>3. \A u, v \in Thread : Holds(u)' /\ Holds(v)' /\ target'[u] = target'[v] => u = v
    BY <1>0, <1>3, <1>10 DEF OnePlace, Holds
  <2>. QED
    BY <2>1, <2>2, <2>3 DEF OnePlace, InQueue
<1>12. r \in Rule => state[r] # 0 /\ runs[r] = 0 /\ Ready(r) /\ pc'[t] = "deps"
  BY <1>0, <1>1, <1>3, ParMakeAssumption DEF Progress, Queueing, Hands, States, Waiting, InQueue
<1>13. \A q \in Rule : Ready(q)' = Ready(q) /\ Made(q)' = Made(q)
  BY <1>2 DEF Ready, Made, main
<1>14. Progress'
  <2>1. \A u \in Thread : Holds(u)' /\ u # t => Holds(u) /\ target[u] \in Rule
    BY <1>0, <1>3 DEF OnePlace, Holds
  <2>2. Holds(t)' => r \in Rule
    BY <1>1, <1>3 DEF Holds
  <2>3. Hands'
    <3>. SUFFICES ASSUME NEW u \in Thread, Holds(u)'
                  PROVE  /\ state'[target'[u]] # 0 /\ Ready(target[u])'
                         /\ pc'[u] = "deps" => runs'[target'[u]] = 0 /\ outcome'[u] # 1
                         /\ pc'[u] = "run" => runs'[target'[u]] = 1 /\ result'[target'[u]] = 0
                         /\ pc'[u] = "update" => /\ outcome'[u] # 0
                                                 /\ outcome'[u] = 1 => Made(target[u])'
      BY DEF Hands
    <3>1. CASE u = t
      BY <1>2, <1>3, <1>12, <1>13, <2>2, <3>1
    <3>2. CASE u # t
      BY <1>0, <1>2, <1>3, <1>13, <2>1, <3>2 DEF Progress, Hands
    <3>. QED
      BY <3>1, <3>2
  <2>4. Queueing'
    BY <1>0, <1>2, <1>6, <1>13 DEF Progress, Queueing
  <2>5. States'
    BY <1>0, <1>2, <1>13 DEF Progress, States
  <2>6. Waiting'
    <3>. SUFFICES ASSUME NEW q \in Rule, state'[q] = 2
                  PROVE  InQueue(q)' \/ \E u \in Thread : Holds(u)' /\ target'[u] = q
      BY DEF Waiting
    <3>1. state[q] = 2 => InQueue(q) \/ \E u \in Thread : Holds(u) /\ target[u] = q
      BY <1>0 DEF Progress, Waiting
    <3>2. InQueue(q) => InQueue(q)' \/ (Holds(t)' /\ target'[t] = q)
      BY <1>1, <1>2, <1>3, ParMakeAssumption DEF InQueue, Holds
    <3>3. \A u \in Thread : Holds(u) => Holds(u)' /\ target'[u] = target[u]
      BY <1>2, <1>3 DEF Holds
    <3>. QED
      BY <1>2, <3>1, <3>2, <3>3
  <2>. QED
    BY <2>3, <2>4, <2>5, <2>6 DEF Progress
<1>15. StopIsLast'
  <2>0. Range(goals) \subseteq Rule /\ Decided' = Decided /\ goals' = goals
    BY <1>0, <1>2 DEF TypeOK, Range, Decided, main
  <2>1. \A i \in DOMAIN jobs' : jobs'[i] = Stop =>
           Decided' /\ \A j \in DOMAIN jobs' : jobs'[j] \in Range(goals) => j < i
    <3>. SUFFICES ASSUME NEW i \in DOMAIN jobs', jobs'[i] = Stop
                  PROVE  Decided /\ \A j \in DOMAIN jobs' : jobs'[j] \in Range(goals) => j < i
      BY <2>0
    <3>1. Decided /\ \A j \in DOMAIN jobs' : jobs'[j] \in Range(goals) => j + 1 < i + 1
      BY <1>0, <1>7 DEF StopIsLast
    <3>. QED
      BY <1>7, <3>1
  <2>2. r = Stop => Decided /\ \A g \in Range(goals) : ~InQueue(g)'
    <3>. SUFFICES ASSUME r = Stop PROVE Decided /\ \A g \in Range(goals) : ~InQueue(g)'
      OBVIOUS
    <3>1. Decided /\ \A j \in DOMAIN jobs : jobs[j] \in Range(goals) => j < 1
      BY <1>0, <1>1 DEF StopIsLast
    <3>2. \A j \in DOMAIN jobs' : jobs'[j] \notin Range(goals)
      BY <1>7, <3>1
    <3>. QED
      BY <3>1, <3>2 DEF InQueue, Range
  <2>3. \A u \in Thread : pc'[u] \in {"stop", "done"} =>
           Decided' /\ \A g \in Range(goals) : ~InQueue(g)'
    BY <1>0, <1>3, <1>6, <2>0, <2>2 DEF StopIsLast
  <2>. QED
    BY <2>0, <2>1, <2>3 DEF StopIsLast, InQueue
<1>. QED
  BY <1>4, <1>5, <1>11, <1>14, <1>15 DEF WorkInv

\* The stop rule put at the end of the queue disturbs nobody.
LEMMA StopPut ==
  ASSUME WorkInv, jobs' = Append(jobs, Stop), UNCHANGED goals
  PROVE  /\ jobs' \in Seq(Rule \cup {Stop})
         /\ \A q \in Rule : InQueue(q)' = InQueue(q)
         /\ \A i, j \in DOMAIN jobs' : jobs'[i] = jobs'[j] /\ jobs'[i] # Stop => i = j
         /\ Decided => \A i \in DOMAIN jobs' : jobs'[i] = Stop =>
                          \A j \in DOMAIN jobs' : jobs'[j] \in Range(goals) => j < i
<1>0. TypeOK /\ OnePlace /\ StopIsLast
  BY DEF WorkInv
<1>1. /\ jobs' \in Seq(Rule \cup {Stop}) /\ Range(jobs') = Range(jobs) \cup {Stop}
      /\ \E n \in Nat : /\ DOMAIN jobs' = DOMAIN jobs \cup {n} /\ jobs'[n] = Stop
                        /\ \A i \in DOMAIN jobs : i \in Nat /\ i < n /\ jobs'[i] = jobs[i]
  BY <1>0, PutAtEnd
<1>2. PICK n \in Nat : /\ DOMAIN jobs' = DOMAIN jobs \cup {n} /\ jobs'[n] = Stop
                       /\ \A i \in DOMAIN jobs : i \in Nat /\ i < n /\ jobs'[i] = jobs[i]
  BY <1>1
<1>3. \A q \in Rule : InQueue(q)' = InQueue(q)
  BY <1>1, ParMakeAssumption DEF InQueue
<1>4. \A i, j \in DOMAIN jobs' : jobs'[i] = jobs'[j] /\ jobs'[i] # Stop => i = j
  BY <1>0, <1>2 DEF OnePlace
<1>5. Range(goals) \subseteq Rule
  BY <1>0 DEF TypeOK, Range
<1>6. \A i \in DOMAIN jobs' : jobs'[i] = Stop =>
         \A j \in DOMAIN jobs' : jobs'[j] \in Range(goals) => j < i
  BY <1>0, <1>2, <1>5, ParMakeAssumption DEF StopIsLast
<1>. QED
  BY <1>1, <1>3, <1>4, <1>6

\* Nor does a step in which no rule changes hands.
LEMMA Unmoved ==
  ASSUME WorkInv, UNCHANGED <<graph, files, state, target, outcome, runs, result>>,
         \A u \in Thread : Holds(u)' = Holds(u) /\ (Holds(u) => pc'[u] = pc[u]),
         \A q \in Rule : InQueue(q)' = InQueue(q),
         \A i, j \in DOMAIN jobs' : jobs'[i] = jobs'[j] /\ jobs'[i] # Stop => i = j
  PROVE  OnePlace' /\ Progress'
<1>0. TypeOK /\ OnePlace /\ Progress
  BY DEF WorkInv
<1>1. \A u \in Thread : Holds(u)' => pc'[u] = pc[u] /\ target[u] \in Rule
  BY <1>0 DEF OnePlace
<1>2. OnePlace'
  BY <1>0 DEF OnePlace, InQueue
<1>3. Hands'
  BY <1>0, <1>1 DEF Progress, Hands, Ready, Made
<1>4. Queueing'
  BY <1>0 DEF Progress, Queueing, Ready, Made
<1>5. States'
  BY <1>0 DEF Progress, States, Made
<1>6. Waiting'
  BY <1>0 DEF Progress, Waiting
<1>. QED
  BY <1>2, <1>3, <1>4, <1>5, <1>6 DEF Progress

LEMMA PassOnStopKeeps ==
  ASSUME WorkInv, NEW t \in Thread, PassOnStop(t)
  PROVE  WorkInv'
<1>0. TypeOK /\ ListOK /\ Quiet /\ OnePlace /\ Progress /\ StopIsLast
  BY DEF WorkInv
<1>1. /\ pc[t] = "stop" /\ jobs' = Append(jobs, Stop) /\ pc' = [pc EXCEPT ![t] = "done"]
      /\ UNCHANGED <<main, files, state, lock, target, todo, outcome, next, runs, result>>
  BY DEF PassOnStop, Goto
<1>2. pc'[t] = "done" /\ \A u \in Thread : u # t => pc'[u] = pc[u]
  BY <1>0, <1>1 DEF TypeOK
<1>3. UNCHANGED <<goals, graph>>
  BY <1>1 DEF main
<1>4. /\ jobs' \in Seq(Rule \cup {Stop})
      /\ \A q \in Rule : InQueue(q)' = InQueue(q)
      /\ \A i, j \in DOMAIN jobs' : jobs'[i] = jobs'[j] /\ jobs'[i] # Stop => i = j
      /\ Decided => \A i \in DOMAIN jobs' : jobs'[i] = Stop =>
                       \A j \in DOMAIN jobs' : jobs'[j] \in Range(goals) => j < i
  BY <1>1, <1>3, StopPut
<1>5. TypeOK'
  BY <1>0, <1>1, <1>4 DEF TypeOK, main
<1>6. ListOK' /\ Quiet'
  BY <1>1, <1>5, AtWork DEF TypeOK
<1>7. \A u \in Thread : Holds(u)' = Holds(u)
  BY <1>1, <1>2 DEF Holds
<1>8. OnePlace' /\ Progress'
  <2>1. \A u \in Thread : Holds(u) => pc'[u] = pc[u]
    BY <1>1, <1>2 DEF Holds
  <2>. QED
    BY <1>1, <1>3, <1>4, <1>7, <2>1, Unmoved
<1>9. StopIsLast'
  <2>1. Decided' = Decided /\ Range(goals) \subseteq Rule
    BY <1>0, <1>1, <1>3 DEF Decided, TypeOK, Range
  <2>2. Decided /\ \A g \in Range(goals) : ~InQueue(g)
    BY <1>0, <1>1 DEF StopIsLast
  <2>3. \A g \in Range(goals') : ~InQueue(g)'
    BY <1>3, <1>4, <2>1, <2>2
  <2>. QED
    BY <1>3, <1>4, <2>1, <2>2, <2>3 DEF StopIsLast
<1>. QED
  BY <1>5, <1>6, <1>8, <1>9 DEF WorkInv

LEMMA EndScanKeeps ==
  ASSUME WorkInv, NEW t \in Thread, EndScan(t)
  PROVE  WorkInv'
<1>0. TypeOK /\ ListOK /\ Quiet /\ OnePlace /\ Progress /\ StopIsLast
  BY DEF WorkInv
<1>1. /\ pc[t] = "scan" /\ jobs' = IF Decided THEN Append(jobs, Stop) ELSE jobs
      /\ pc' = [pc EXCEPT ![t] = "pull"]
      /\ UNCHANGED <<main, files, state, target, todo, outcome, next, runs, result>>
  BY DEF EndScan, Goto, Decided
<1>2. pc'[t] = "pull" /\ \A u \in Thread : u # t => pc'[u] = pc[u]
  BY <1>0, <1>1 DEF TypeOK
<1>3. UNCHANGED <<goals, graph>>
  BY <1>1 DEF main
<1>4. /\ jobs' \in Seq(Rule \cup {Stop})
      /\ \A q \in Rule : InQueue(q)' = InQueue(q)
      /\ \A i, j \in DOMAIN jobs' : jobs'[i] = jobs'[j] /\ jobs'[i] # Stop => i = j
      /\ \A i \in DOMAIN jobs' : jobs'[i] = Stop =>
            Decided /\ \A j \in DOMAIN jobs' : jobs'[j] \in Range(goals) => j < i
  <2>1. CASE Decided
    BY <1>1, <1>3, <2>1, StopPut
  <2>2. CASE ~Decided
    BY <1>0, <1>1, <2>2 DEF TypeOK, OnePlace, StopIsLast, InQueue
  <2>. QED
    BY <2>1, <2>2
<1>5. TypeOK'
  BY <1>0, <1>1, <1>4 DEF TypeOK, main
<1>6. ListOK' /\ Quiet'
  BY <1>1, <1>5, AtWork DEF TypeOK
<1>7. \A u \in Thread : Holds(u)' = Holds(u)
  BY <1>1, <1>2 DEF Holds
<1>8. OnePlace' /\ Progress'
  <2>1. \A u \in Thread : Holds(u) => pc'[u] = pc[u]
    BY <1>1, <1>2 DEF Holds
  <2>. QED
    BY <1>1, <1>3, <1>4, <1>7, <2>1, Unmoved
<1>9. StopIsLast'
  <2>1. Decided' = Decided /\ Range(goals) \subseteq Rule
    BY <1>0, <1>1, <1>3 DEF Decided, TypeOK, Range
  <2>2. \A u \in Thread : pc'[u] \in {"stop", "done"} => Decided /\ \A g \in Range(goals) : ~InQueue(g)
    BY <1>0, <1>2 DEF StopIsLast
  <2>3. \A u \in Thread : pc'[u] \in {"stop", "done"} => \A g \in Range(goals') : ~InQueue(g)'
    BY <1>3, <1>4, <2>1, <2>2
  <2>. QED
    BY <1>3, <1>4, <2>1, <2>2, <2>3 DEF StopIsLast
<1>. QED
  BY <1>5, <1>6, <1>8, <1>9 DEF WorkInv

\* A step that leaves the queue and the decisions alone, and nobody is stopped.
LEMMA StopSame ==
  ASSUME WorkInv, UNCHANGED <<jobs, goals>>,
         \A r \in Rule : state[r] # 0 => state'[r] # 0,
         \A u \in Thread : pc'[u] \in {"stop", "done"} => pc[u] \in {"stop", "done"}
  PROVE  StopIsLast'
<1>0. TypeOK /\ StopIsLast
  BY DEF WorkInv
<1>1. Range(goals) \subseteq Rule
  BY <1>0 DEF TypeOK, Range
<1>2. Decided => Decided'
  BY <1>1 DEF Decided
<1>. QED
  BY <1>0, <1>2 DEF StopIsLast, InQueue

LEMMA ReadDepKeeps ==
  ASSUME WorkInv, NEW t \in Thread, ReadDep(t)
  PROVE  WorkInv'
<1>0. TypeOK /\ ListOK /\ Quiet /\ OnePlace /\ Progress /\ StopIsLast
  BY DEF WorkInv
<1>1. /\ pc[t] = "deps" /\ todo[t] # <<>>
      /\ outcome' \in {outcome, [outcome EXCEPT ![t] = -1]}
      /\ todo' \in {[todo EXCEPT ![t] = <<>>], [todo EXCEPT ![t] = Tail(@)]}
      /\ UNCHANGED <<main, files, state, jobs, lock, pc, target, next, runs, result>>
  BY DEF ReadDep
<1>2. TypeOK'
  <2>1. todo[t] \in Seq(Rule) /\ Tail(todo[t]) \in Seq(Rule) /\ <<>> \in Seq(Rule)
    BY <1>0, <1>1, RangeTail DEF TypeOK
  <2>2. todo' \in [Thread -> Seq(Rule)]
    BY <1>0, <1>1, <2>1 DEF TypeOK
  <2>3. outcome' \in [Thread -> {0, 1, -1}]
    BY <1>0, <1>1 DEF TypeOK
  <2>. QED
    BY <1>0, <1>1, <2>2, <2>3 DEF TypeOK, main
<1>3. ListOK' /\ Quiet'
  BY <1>1, <1>2, AtWork DEF TypeOK
<1>4. outcome'[t] \in {outcome[t], -1} /\ \A u \in Thread : u # t => outcome'[u] = outcome[u]
  BY <1>0, <1>1 DEF TypeOK
<1>5. UNCHANGED <<goals, graph>> /\ \A u \in Thread : Holds(u)' = Holds(u)
  BY <1>1 DEF main, Holds
<1>6. OnePlace'
  BY <1>0, <1>1 DEF OnePlace, InQueue, Holds
<1>7. Progress'
  <2>1. Hands'
    BY <1>0, <1>1, <1>4, <1>5 DEF Progress, Hands, Ready, Made
  <2>2. Queueing' /\ States' /\ Waiting'
    BY <1>0, <1>1, <1>5 DEF Progress, Queueing, States, Waiting, InQueue, Ready, Made
  <2>. QED
    BY <2>1, <2>2 DEF Progress
<1>8. StopIsLast'
  BY <1>1, <1>5, StopSame
<1>. QED
  BY <1>2, <1>3, <1>6, <1>7, <1>8 DEF WorkInv

\* A rule made in the meantime is laid down; the commands of any other start
\* here, and never before.
LEMMA ReadOwnKeeps ==
  ASSUME WorkInv, NEW t \in Thread, ReadOwn(t)
  PROVE  WorkInv'
<1>0. TypeOK /\ ListOK /\ Quiet /\ OnePlace /\ Progress /\ StopIsLast
  BY DEF WorkInv
<1>. DEFINE r == target[t]
<1>1. /\ pc[t] = "deps"
      /\ pc' = [pc EXCEPT ![t] = IF state[r] = 1 THEN "pull" ELSE IF outcome[t] = 0 THEN "run" ELSE "update"]
      /\ runs' = IF state[r] # 1 /\ outcome[t] = 0 THEN [runs EXCEPT ![r] = @ + 1] ELSE runs
      /\ UNCHANGED <<main, files, state, jobs, lock, target, todo, outcome, next, result>>
  BY DEF ReadOwn, Goto
<1>2. r \in Rule /\ Holds(t) /\ ~InQueue(r) /\ state[r] # 0 /\ runs[r] = 0 /\ result[r] = 0 /\ Ready(r)
  <2>1. Holds(t)
    BY <1>1 DEF Holds
  <2>2. r \in Rule /\ ~InQueue(r)
    BY <1>0, <2>1 DEF OnePlace
  <2>. QED
    BY <1>0, <1>1, <2>1, <2>2 DEF Progress, Hands, States
<1>. HIDE DEF r
<1>3. /\ pc'[t] = IF state[r] = 1 THEN "pull" ELSE IF outcome[t] = 0 THEN "run" ELSE "update"
      /\ \A u \in Thread : u # t => pc'[u] = pc[u]
  BY <1>0, <1>1 DEF TypeOK
<1>4. /\ \A q \in Rule : q # r => runs'[q] = runs[q]
      /\ runs'[r] = IF state[r] # 1 /\ outcome[t] = 0 THEN 1 ELSE 0
      /\ runs' \in [Rule -> {0, 1}]
  BY <1>0, <1>1, <1>2 DEF TypeOK
<1>5. TypeOK'
  <2>1. pc' \in [Thread -> {"none", "pull", "stop", "deps", "run", "update", "scan", "done"}]
    BY <1>0, <1>1 DEF TypeOK
  <2>. QED
    BY <1>0, <1>1, <1>4, <2>1 DEF TypeOK, main
<1>6. ListOK' /\ Quiet'
  BY <1>1, <1>5, AtWork DEF TypeOK
<1>7. UNCHANGED <<goals, graph>> /\ (\A u \in Thread : Holds(u)' => Holds(u))
      /\ \A u \in Thread : u # t => Holds(u)' = Holds(u)
  BY <1>1, <1>2, <1>3 DEF main, Holds
<1>8. OnePlace'
  BY <1>0, <1>1, <1>7 DEF OnePlace, InQueue
<1>9. target[t] = r /\ \A u \in Thread : u # t /\ Holds(u) => target[u] # r
  BY <1>0, <1>2 DEF OnePlace, r
<1>10. Hands'
  <2>. SUFFICES ASSUME NEW u \in Thread, Holds(u)'
                PROVE  /\ state'[target'[u]] # 0 /\ Ready(target[u])'
                       /\ pc'[u] = "deps" => runs'[target'[u]] = 0 /\ outcome'[u] # 1
                       /\ pc'[u] = "run" => runs'[target'[u]] = 1 /\ result'[target'[u]] = 0
                       /\ pc'[u] = "update" => /\ outcome'[u] # 0
                                               /\ outcome'[u] = 1 => Made(target[u])'
    BY DEF Hands
  <2>1. target'[u] = target[u] /\ target[u] \in Rule /\ outcome'[u] = outcome[u]
    BY <1>0, <1>1, <1>7 DEF OnePlace
  <2>2. state'[target'[u]] # 0 /\ Ready(target[u])'
    BY <1>0, <1>1, <1>7 DEF Progress, Hands, Ready, Made
  <2>3. CASE u = t
    <3>1. outcome[t] \in {0, -1}
      BY <1>0, <1>1, <1>2 DEF TypeOK, Progress, Hands
    <3>. QED
      BY <1>1, <1>2, <1>3, <1>4, <1>9, <2>1, <2>2, <2>3, <3>1
  <2>4. CASE u # t
    <3>1. Holds(u) /\ target[u] # r /\ pc'[u] = pc[u]
      BY <1>3, <1>7, <1>9, <2>4
    <3>. QED
      BY <1>0, <1>1, <1>4, <2>1, <2>2, <3>1 DEF Progress, Hands, Made
  <2>. QED
    BY <2>3, <2>4
<1>11. Queueing'
  BY <1>0, <1>1, <1>2, <1>4, <1>7 DEF Progress, Queueing, InQueue, Ready, Made
<1>12. States'
  BY <1>0, <1>1, <1>2, <1>4 DEF Progress, States, Made
<1>13. Waiting'
  <2>. SUFFICES ASSUME NEW q \in Rule, state[q] = 2
                PROVE  InQueue(q) \/ \E u \in Thread : Holds(u)' /\ target[u] = q
    BY <1>1 DEF Waiting, InQueue
  <2>1. InQueue(q) \/ \E u \in Thread : Holds(u) /\ target[u] = q
    BY <1>0 DEF Progress, Waiting
  <2>2. q = r => Holds(t)'
    BY <1>3 DEF Holds
  <2>. QED
    BY <1>7, <1>9, <2>1, <2>2
<1>14. StopIsLast'
  <2>1. \A u \in Thread : pc'[u] \in {"stop", "done"} => pc[u] \in {"stop", "done"}
    BY <1>3
  <2>. QED
    BY <1>1, <1>7, <2>1, StopSame
<1>. QED
  BY <1>5, <1>6, <1>8, <1>10, <1>11, <1>12, <1>13, <1>14 DEF WorkInv, Progress

LEMMA CreateFileKeeps ==
  ASSUME WorkInv, NEW t \in Thread, CreateFile(t)
  PROVE  WorkInv'
<1>0. TypeOK /\ ListOK /\ Quiet /\ OnePlace /\ Progress /\ StopIsLast
  BY DEF WorkInv
<1>1. /\ pc[t] = "run" /\ files' = files \cup {target[t]}
      /\ UNCHANGED <<main, state, jobs, lock, pc, target, todo, outcome, next, runs, result>>
  BY DEF CreateFile, workers
<1>2. target[t] \in Rule
  BY <1>0, <1>1 DEF OnePlace, Holds
<1>3. TypeOK'
  BY <1>0, <1>1, <1>2 DEF TypeOK, main
<1>4. ListOK' /\ Quiet'
  BY <1>1, <1>3, AtWork DEF TypeOK
<1>5. UNCHANGED <<goals, graph>> /\ \A u \in Thread : Holds(u)' = Holds(u)
  BY <1>1 DEF main, Holds
<1>6. OnePlace'
  BY <1>0, <1>1 DEF OnePlace, InQueue, Holds
<1>7. Hands'
  BY <1>0, <1>1, <1>5 DEF Progress, Hands, Ready, Made
<1>8. Queueing' /\ States' /\ Waiting'
  BY <1>0, <1>1, <1>5 DEF Progress, Queueing, States, Waiting, InQueue, Ready, Made
<1>9. StopIsLast'
  BY <1>1, <1>5, StopSame
<1>. QED
  BY <1>3, <1>4, <1>6, <1>7, <1>8, <1>9 DEF WorkInv, Progress

LEMMA EndCommandsKeeps ==
  ASSUME WorkInv, NEW t \in Thread, NEW s \in {1, -1}, EndCommands(t, s)
  PROVE  WorkInv'
<1>0. TypeOK /\ ListOK /\ Quiet /\ OnePlace /\ Progress /\ StopIsLast
  BY DEF WorkInv
<1>. DEFINE r == target[t]
<1>1. /\ pc[t] = "run" /\ outcome' = [outcome EXCEPT ![t] = s]
      /\ result' = [result EXCEPT ![r] = s] /\ pc' = [pc EXCEPT ![t] = "update"]
      /\ UNCHANGED <<main, files, state, jobs, lock, target, todo, next, runs>>
  BY DEF EndCommands, Goto
<1>2. r \in Rule /\ Holds(t) /\ ~InQueue(r) /\ state[r] # 0 /\ runs[r] = 1 /\ result[r] = 0
  <2>1. Holds(t)
    BY <1>1 DEF Holds
  <2>2. r \in Rule /\ ~InQueue(r)
    BY <1>0, <2>1 DEF OnePlace
  <2>. QED
    BY <1>0, <1>1, <2>1, <2>2 DEF Progress, Hands
<1>. HIDE DEF r
<1>3. /\ pc'[t] = "update" /\ outcome'[t] = s
      /\ \A u \in Thread : u # t => pc'[u] = pc[u] /\ outcome'[u] = outcome[u]
  BY <1>0, <1>1 DEF TypeOK
<1>4. result'[r] = s /\ \A q \in Rule : q # r => result'[q] = result[q]
  BY <1>0, <1>1, <1>2 DEF TypeOK
<1>5. TypeOK'
  BY <1>0, <1>1 DEF TypeOK, main
<1>6. ListOK' /\ Quiet'
  BY <1>1, <1>5, AtWork DEF TypeOK
<1>7. UNCHANGED <<goals, graph>> /\ (\A u \in Thread : Holds(u)' = Holds(u))
  BY <1>1, <1>2, <1>3 DEF main, Holds
<1>8. OnePlace'
  BY <1>0, <1>1, <1>7 DEF OnePlace, InQueue
<1>9. target[t] = r /\ \A u \in Thread : u # t /\ Holds(u) => target[u] # r
  BY <1>0, <1>2 DEF OnePlace, r
<1>10. \A q \in Rule : (Made(q) => Made(q)') /\ (Ready(q) => Ready(q)')
  <2>1. \A q \in Rule : Made(q) => Made(q)'
    BY <1>1, <1>2, <1>4 DEF Made
  <2>2. \A q \in Rule : Range(graph[q]) \subseteq Rule
    BY <1>0 DEF TypeOK, Range
  <2>. QED
    BY <1>7, <2>1, <2>2 DEF Ready
<1>11. Hands'
  <2>. SUFFICES ASSUME NEW u \in Thread, Holds(u)'
                PROVE  /\ state'[target'[u]] # 0 /\ Ready(target[u])'
                       /\ pc'[u] = "deps" => runs'[target'[u]] = 0 /\ outcome'[u] # 1
                       /\ pc'[u] = "run" => runs'[target'[u]] = 1 /\ result'[target'[u]] = 0
                       /\ pc'[u] = "update" => /\ outcome'[u] # 0
                                               /\ outcome'[u] = 1 => Made(target[u])'
    BY DEF Hands
  <2>1. Holds(u) /\ target'[u] = target[u] /\ target[u] \in Rule
    BY <1>0, <1>1, <1>7 DEF OnePlace
  <2>2. state'[target'[u]] # 0 /\ Ready(target[u])'
    BY <1>0, <1>1, <1>10, <2>1 DEF Progress, Hands
  <2>3. CASE u = t
    BY <1>3, <1>4, <1>9, <2>1, <2>2, <2>3 DEF Made
  <2>4. CASE u # t
    BY <1>0, <1>1, <1>3, <1>4, <1>9, <1>10, <2>1, <2>2, <2>4 DEF Progress, Hands
  <2>. QED
    BY <2>3, <2>4
<1>12. Queueing'
  BY <1>0, <1>1, <1>10 DEF Progress, Queueing, InQueue
<1>13. States'
  BY <1>0, <1>1, <1>2, <1>4, <1>10 DEF Progress, States
<1>14. Waiting'
  BY <1>0, <1>1, <1>7 DEF Progress, Waiting, InQueue
<1>15. StopIsLast'
  BY <1>1, <1>3, <1>7, StopSame
<1>. QED
  BY <1>5, <1>6, <1>8, <1>11, <1>12, <1>13, <1>14, <1>15 DEF WorkInv, Progress

\* The state that a rule gets after its commands, or without them, is final.
LEMMA UpdateKeeps ==
  ASSUME WorkInv, NEW t \in Thread, Update(t)
  PROVE  WorkInv'
<1>0. TypeOK /\ ListOK /\ Quiet /\ OnePlace /\ Progress /\ StopIsLast
  BY DEF WorkInv
<1>. DEFINE r == target[t]
<1>1. /\ pc[t] = "update" /\ lock' = t /\ state' = [state EXCEPT ![r] = outcome[t]]
      /\ next' = [next EXCEPT ![t] = 1] /\ pc' = [pc EXCEPT ![t] = "scan"]
      /\ UNCHANGED <<main, files, jobs, target, todo, outcome, runs, result>>
  BY DEF Update, Goto
<1>2. /\ r \in Rule /\ Holds(t) /\ ~InQueue(r)
      /\ outcome[t] # 0 /\ (outcome[t] = 1 => Made(r)) /\ outcome[t] \in {1, -1}
  <2>1. Holds(t)
    BY <1>1 DEF Holds
  <2>2. r \in Rule /\ ~InQueue(r)
    BY <1>0, <2>1 DEF OnePlace
  <2>. QED
    BY <1>0, <1>1, <2>1, <2>2 DEF Progress, Hands, TypeOK
<1>. HIDE DEF r
<1>3. pc'[t] = "scan" /\ \A u \in Thread : u # t => pc'[u] = pc[u]
  BY <1>0, <1>1 DEF TypeOK
<1>4. state'[r] = outcome[t] /\ \A q \in Rule : q # r => state'[q] = state[q]
  BY <1>0, <1>1, <1>2 DEF TypeOK
<1>5. TypeOK'
  <2>1. state' \in [Rule -> {0, 1, -1, 2}]
    BY <1>0, <1>1, <1>2 DEF TypeOK
  <2>. QED
    BY <1>0, <1>1, <2>1 DEF TypeOK, main
<1>6. ListOK' /\ Quiet'
  BY <1>1, <1>5, AtWork DEF TypeOK
<1>7. /\ UNCHANGED <<goals, graph>> /\ ~Holds(t)'
      /\ \A u \in Thread : u # t => Holds(u)' = Holds(u)
  BY <1>1, <1>3 DEF main, Holds
<1>8. OnePlace'
  BY <1>0, <1>1, <1>7 DEF OnePlace, InQueue
<1>9. target[t] = r /\ \A u \in Thread : u # t /\ Holds(u) => target[u] # r
  BY <1>0, <1>2 DEF OnePlace, r
<1>10. Hands'
  <2>. SUFFICES ASSUME NEW u \in Thread, Holds(u)'
                PROVE  /\ state'[target'[u]] # 0 /\ Ready(target[u])'
                       /\ pc'[u] = "deps" => runs'[target'[u]] = 0 /\ outcome'[u] # 1
                       /\ pc'[u] = "run" => runs'[target'[u]] = 1 /\ result'[target'[u]] = 0
                       /\ pc'[u] = "update" => /\ outcome'[u] # 0
                                               /\ outcome'[u] = 1 => Made(target[u])'
    BY DEF Hands
  <2>1. u # t /\ Holds(u) /\ target'[u] = target[u] /\ target[u] \in Rule /\ target[u] # r
    BY <1>0, <1>1, <1>7, <1>9 DEF OnePlace
  <2>. QED
    BY <1>0, <1>1, <1>3, <1>4, <1>7, <2>1 DEF Progress, Hands, Ready, Made
<1>11. Queueing'
  BY <1>0, <1>1, <1>2, <1>4, <1>7 DEF Progress, Queueing, InQueue, Ready, Made
<1>12. States'
  BY <1>0, <1>1, <1>2, <1>4 DEF Progress, States, Made
<1>13. Waiting'
  BY <1>0, <1>1, <1>2, <1>4, <1>7, <1>9 DEF Progress, Waiting, InQueue
<1>14. StopIsLast'
  <2>1. \A q \in Rule : state[q] # 0 => state'[q] # 0
    BY <1>2, <1>4
  <2>. QED
    BY <1>1, <1>3, <1>7, <2>1, StopSame
<1>. QED
  BY <1>5, <1>6, <1>8, <1>10, <1>11, <1>12, <1>13, <1>14 DEF WorkInv, Progress

\* What the scan may make of a rule.
LEMMA LookedIs ==
  ASSUME WorkInv, NEW r \in Rule
  PROVE  /\ Looked(r) \in {0, 1, -1, 2}
         /\ state[r] # 0 => Looked(r) \in {1, state[r]}
         /\ Looked(r) = 1 => Made(r)
         /\ state[r] = 0 /\ Looked(r) = 2 => Ready(r)
<1>0. TypeOK /\ Progress
  BY DEF WorkInv
<1>1. graph[r] \in Seq(Rule) /\ state[r] \in {0, 1, -1, 2}
  BY <1>0 DEF TypeOK
<1>2. r \notin files /\ state[r] = 0 /\ Looked(r) = 2 => \A i \in DOMAIN graph[r] : state[graph[r][i]] = 1
  BY DEF Looked
<1>3. state[r] = 0 /\ Looked(r) = 2 => Ready(r)
  <2>. SUFFICES ASSUME state[r] = 0, Looked(r) = 2 PROVE Ready(r)
    OBVIOUS
  <2>1. r \notin files
    BY DEF Looked
  <2>2. \A d \in Range(graph[r]) : d \in Rule /\ state[d] = 1
    BY <1>1, <1>2, <2>1 DEF Range
  <2>. QED
    BY <1>0, <2>2 DEF Ready, Progress, States
<1>4. Looked(r) = 1 => Made(r)
  BY <1>0 DEF Looked, Made, Progress, States
<1>. QED
  BY <1>1, <1>3, <1>4 DEF Looked

\* A rule that becomes ready is put into the queue, once; its state tells
\* every later scan.
LEMMA ScanKeeps ==
  ASSUME WorkInv, NEW t \in Thread, Scan(t)
  PROVE  WorkInv'
<1>0. TypeOK /\ ListOK /\ Quiet /\ OnePlace /\ Progress /\ StopIsLast
  BY DEF WorkInv
<1>. DEFINE r == sorted[next[t]]
            put == state[r] = 0 /\ Looked(r) = 2
<1>1. /\ pc[t] = "scan" /\ next[t] <= Len(sorted)
      /\ state' = [state EXCEPT ![r] = Looked(r)]
      /\ jobs' = IF put THEN Append(jobs, r) ELSE jobs
      /\ next' = [next EXCEPT ![t] = @ + 1]
      /\ UNCHANGED <<main, files, lock, pc, target, todo, outcome, runs, result>>
  BY DEF Scan
<1>2. r \in Rule
  <2>1. next[t] \in 1..Len(sorted)
    BY <1>0, <1>1 DEF TypeOK
  <2>. QED
    BY <1>0, <2>1 DEF TypeOK
<1>. HIDE DEF r
<1>3. /\ Looked(r) \in {0, 1, -1, 2}
      /\ state[r] # 0 => Looked(r) \in {1, state[r]}
      /\ Looked(r) = 1 => Made(r)
      /\ put => Ready(r)
  BY <1>2, LookedIs
<1>4. state'[r] = Looked(r) /\ \A q \in Rule : q # r => state'[q] = state[q]
  BY <1>0, <1>1, <1>2 DEF TypeOK
<1>5. \A q \in Rule : state[q] # 0 => state'[q] # 0
  BY <1>3, <1>4
<1>6. put => ~InQueue(r) /\ runs[r] = 0 /\ \A u \in Thread : Holds(u) => target[u] # r
  BY <1>0, <1>2 DEF Progress, Queueing, Hands, States
<1>7. /\ jobs' \in Seq(Rule \cup {Stop})
      /\ \A q \in Rule : InQueue(q)' <=> InQueue(q) \/ (put /\ q = r)
      /\ \A i, j \in DOMAIN jobs' : jobs'[i] = jobs'[j] /\ jobs'[i] # Stop => i = j
      /\ \A i \in DOMAIN jobs' : jobs'[i] = Stop =>
           Decided /\ \A j \in DOMAIN jobs' : jobs'[j] \in Range(goals) => j < i
  <2>1. CASE ~put
    BY <1>0, <1>1, <2>1 DEF TypeOK, InQueue, OnePlace, StopIsLast
  <2>2. CASE put
    <3>1. /\ jobs' \in Seq(Rule \cup {Stop}) /\ Range(jobs') = Range(jobs) \cup {r}
          /\ \E n \in Nat : /\ DOMAIN jobs' = DOMAIN jobs \cup {n} /\ jobs'[n] = r
                            /\ \A i \in DOMAIN jobs : i \in Nat /\ i < n /\ jobs'[i] = jobs[i]
      BY <1>0, <1>1, <1>2, <2>2, PutAtEnd
    <3>2. PICK n \in Nat : /\ DOMAIN jobs' = DOMAIN jobs \cup {n} /\ jobs'[n] = r
                           /\ \A i \in DOMAIN jobs : i \in Nat /\ i < n /\ jobs'[i] = jobs[i]
      BY <3>1
    <3>3. \A q \in Rule : InQueue(q)' <=> InQueue(q) \/ (put /\ q = r)
      BY <2>2, <3>1 DEF InQueue
    <3>4. \A i \in DOMAIN jobs : jobs[i] # r
      BY <1>6, <2>2 DEF InQueue, Range
    <3>5. \A i, j \in DOMAIN jobs' : jobs'[i] = jobs'[j] /\ jobs'[i] # Stop => i = j
      BY <1>0, <3>2, <3>4 DEF OnePlace
    <3>6. Decided => r \notin Range(goals)
      BY <2>2 DEF Decided
    <3>7. \A i \in DOMAIN jobs' : jobs'[i] = Stop =>
            Decided /\ \A j \in DOMAIN jobs' : jobs'[j] \in Range(goals) => j < i
      BY <1>0, <1>2, <3>2, <3>6, ParMakeAssumption DEF StopIsLast
    <3>. QED
      BY <3>1, <3>3, <3>5, <3>7
  <2>. HIDE DEF put
  <2>. QED
    BY <2>1, <2>2
<1>8. TypeOK'
  <2>1. state' \in [Rule -> {0, 1, -1, 2}]
    BY <1>0, <1>1, <1>2, <1>3 DEF TypeOK
  <2>2. next' \in [Thread -> Nat \ {0}]
    BY <1>0, <1>1 DEF TypeOK
  <2>. QED
    BY <1>0, <1>1, <1>7, <2>1, <2>2 DEF TypeOK, main
<1>9. ListOK' /\ Quiet'
  BY <1>1, <1>8, AtWork DEF TypeOK
<1>10. UNCHANGED <<goals, graph>> /\ \A u \in Thread : Holds(u)' = Holds(u)
  BY <1>1 DEF main, Holds
<1>11. \A u \in Thread : Holds(u) => target[u] \in Rule /\ target[u] \notin Range(jobs')
  BY <1>0, <1>6, <1>7 DEF OnePlace, InQueue
<1>12. OnePlace'
  BY <1>0, <1>1, <1>7, <1>10, <1>11 DEF OnePlace, InQueue
<1>. HIDE DEF put
<1>13. Hands'
  <2>. SUFFICES ASSUME NEW u \in Thread, Holds(u)'
                PROVE  /\ state'[target'[u]] # 0 /\ Ready(target[u])'
                       /\ pc'[u] = "deps" => runs'[target'[u]] = 0 /\ outcome'[u] # 1
                       /\ pc'[u] = "run" => runs'[target'[u]] = 1 /\ result'[target'[u]] = 0
                       /\ pc'[u] = "update" => /\ outcome'[u] # 0
                                               /\ outcome'[u] = 1 => Made(target[u])'
    BY DEF Hands
  <2>1. Holds(u) /\ target'[u] = target[u] /\ target[u] \in Rule
    BY <1>1, <1>10, <1>11
  <2>. QED
    BY <1>0, <1>1, <1>5, <1>10, <2>1 DEF Progress, Hands, Ready, Made
<1>14. Queueing'
  <2>. SUFFICES ASSUME NEW q \in Rule, InQueue(q)' PROVE state'[q] # 0 /\ runs'[q] = 0 /\ Ready(q)'
    BY DEF Queueing
  <2>1. Ready(q)' = Ready(q) /\ runs' = runs
    BY <1>1, <1>10 DEF Ready, Made
  <2>2. CASE InQueue(q)
    BY <1>0, <1>5, <2>1, <2>2 DEF Progress, Queueing
  <2>3. CASE put /\ q = r
    BY <1>3, <1>4, <1>6, <2>1, <2>3 DEF put
  <2>. QED
    BY <1>7, <2>2, <2>3
<1>15. States'
  <2>1. \A q \in Rule : Made(q)' = Made(q)
    BY <1>1 DEF Made
  <2>. QED
    BY <1>0, <1>1, <1>2, <1>3, <1>4, <1>5, <2>1 DEF Progress, States
<1>16. Waiting'
  <2>. SUFFICES ASSUME NEW q \in Rule, state'[q] = 2
                PROVE  InQueue(q)' \/ \E u \in Thread : Holds(u)' /\ target'[u] = q
    BY DEF Waiting
  <2>1. state[q] = 2 \/ (put /\ q = r)
    BY <1>3, <1>4 DEF put
  <2>2. CASE state[q] = 2
    BY <1>0, <1>1, <1>7, <1>10, <2>2 DEF Progress, Waiting
  <2>. QED
    BY <1>7, <2>1, <2>2
<1>17. StopIsLast'
  <2>1. Range(goals) \subseteq Rule
    BY <1>0 DEF TypeOK, Range
  <2>2. Decided => Decided'
    BY <1>5, <1>10, <2>1 DEF Decided
  <2>3. \A u \in Thread : pc'[u] \in {"stop", "done"} => Decided /\ \A g \in Range(goals) : ~InQueue(g)'
    <3>1. \A u \in Thread : pc[u] \in {"stop", "done"} => Decided /\ \A g \in Range(goals) : ~InQueue(g)
      BY <1>0 DEF StopIsLast
    <3>2. Decided => \A g \in Range(goals) : InQueue(g)' => InQueue(g)
      BY <1>7, <2>1 DEF put, Decided
    <3>. QED
      BY <1>1, <3>1, <3>2
  <2>. QED
    BY <1>7, <1>10, <2>2, <2>3 DEF StopIsLast, InQueue
<1>. QED
  BY <1>8, <1>9, <1>12, <1>13, <1>14, <1>15, <1>16, <1>17 DEF WorkInv, Progress

-----------------------------------------------------------------------------
LEMMA WorkCorrect == Spec => []WorkInv
<1>1. ASSUME WorkInv, [Next]_vars PROVE WorkInv'
  <2>1. CASE Check
    BY <1>1, <2>1, CheckKeeps
  <2>2. CASE Sort
    BY <1>1, <2>2, SortKeeps
  <2>3. CASE Start
    BY <1>1, <2>3, StartKeeps
  <2>4. ASSUME NEW t \in Thread, Step(t) PROVE WorkInv'
    BY <1>1, <2>4, PullKeeps, PassOnStopKeeps, ReadDepKeeps, ReadOwnKeeps, EndCommandsKeeps,
       UpdateKeeps, ScanKeeps, EndScanKeeps DEF Step
  <2>5. ASSUME NEW t \in Thread, CreateFile(t) PROVE WorkInv'
    BY <1>1, <2>5, CreateFileKeeps
  <2>6. CASE UNCHANGED vars
    BY <1>1, <2>6 DEF vars, main, workers, WorkInv, TypeOK, ListOK, Quiet, OnePlace, Progress,
       Queueing, Hands, States, Waiting, StopIsLast, Decided, InQueue, Holds, Ready, Made
  <2>. QED
    BY <1>1, <2>1, <2>2, <2>3, <2>4, <2>5, <2>6 DEF Next, Finished
<1>. QED
  BY <1>1, InitWork, PTL DEF Spec

(* However many workers there are and however they interleave, no rule's      *)
(* commands run twice, and a rule that was run is not queued again            *)
(* (parmake.c:160-189).                                                       *)
THEOREM RunOnceCorrect == Spec => []RunOnce
<1>1. WorkInv => RunOnce
  BY DEF WorkInv, TypeOK, Progress, Queueing, RunOnce, InQueue
<1>. QED
  BY <1>1, WorkCorrect, PTL

(* Commands start only when every dependency is a file or was made            *)
(* (parmake.c:115-148, 163-189).                                              *)
THEOREM DependenciesCorrect == Spec => []DependenciesFirst
<1>1. WorkInv => DependenciesFirst
  BY DEF WorkInv, Progress, Hands, Holds, Ready, Made, DependenciesFirst
<1>. QED
  BY <1>1, WorkCorrect, PTL

(* When all workers are done every goal is made or has failed, and none is    *)
(* left in the queue behind the stop rule (parmake.c:105-108, 190-206).       *)
THEOREM GoalsCorrect == Spec => []GoalsDecided
<1>1. WorkInv => GoalsDecided
  <2>. SUFFICES ASSUME WorkInv, \A t \in Thread : pc[t] = "done", NEW g \in Range(goals)
                PROVE  state[g] \in {1, -1} /\ g \notin Range(jobs)
    BY DEF GoalsDecided
  <2>1. g \in Rule
    BY DEF WorkInv, TypeOK, Range
  <2>2. state[g] # 0 /\ ~InQueue(g)
    BY ParMakeAssumption DEF WorkInv, StopIsLast, Decided
  <2>3. state[g] # 2
    BY <2>1, <2>2 DEF WorkInv, Progress, Waiting, Holds
  <2>. QED
    BY <2>1, <2>2, <2>3 DEF WorkInv, TypeOK, InQueue
<1>. QED
  BY <1>1, WorkCorrect, PTL

\* What the sort relies on.
GoalsAcyclic == phase = "checked" => \A r \in Range(goals) : ~MeetsCycle(graph, r)

LEMMA CheckIsRight ==
  ASSUME WorkInv, Check
  PROVE  goals' = AcyclicGoals(graph, goals) /\ \A r \in Range(goals') : ~MeetsCycle(graph', r)
  BY CheckCorrect, ParMakeAssumption DEF Check, WorkInv, TypeOK

LEMMA OnlyMainMoves ==
  ASSUME WorkInv, [Next]_vars
  PROVE  Check \/ Sort \/ Start \/ (UNCHANGED main /\ phase # "sorted" /\ phase # "parsed") \/ UNCHANGED vars
<1>1. ASSUME NEW t \in Thread, Step(t) \/ CreateFile(t)
      PROVE  UNCHANGED main /\ phase # "sorted" /\ phase # "parsed"
  <2>1. pc[t] # "none" /\ UNCHANGED main
    BY <1>1 DEF Step, Pull, PassOnStop, ReadDep, ReadOwn, EndCommands, Update, Scan, EndScan, CreateFile
  <2>. QED
    BY <2>1 DEF WorkInv, Quiet
<1>. QED
  BY <1>1 DEF Next, Finished

LEMMA GoalsAcyclicCorrect == Spec => []GoalsAcyclic
<1>1. Init => GoalsAcyclic
  BY DEF Init, GoalsAcyclic
<1>2. ASSUME WorkInv, GoalsAcyclic, [Next]_vars PROVE GoalsAcyclic'
  <2>1. CASE Check
    BY <1>2, <2>1, CheckIsRight DEF GoalsAcyclic
  <2>2. CASE Sort \/ Start
    BY <2>2 DEF Sort, Start, GoalsAcyclic
  <2>3. CASE UNCHANGED main
    BY <1>2, <2>3 DEF main, GoalsAcyclic
  <2>. QED
    BY <1>2, <2>1, <2>2, <2>3, OnlyMainMoves DEF vars
<1>. QED
  BY <1>1, <1>2, WorkCorrect, PTL DEF Spec

(* Exactly the goals that depend on a cycle are dropped, and what is sorted   *)
(* for the others is all they need, each rule after its dependencies, for any *)
(* makefile (parmake.c:40-87).                                                *)
THEOREM OrderCorrect == Spec => OrderIsRight
<1>. DEFINE Right == /\ phase = "parsed" => goals' = AcyclicGoals(graph, goals)
                     /\ phase' = "sorted" => IsOrderFor(graph, sorted', goals)
<1>1. ASSUME WorkInv, GoalsAcyclic, [Next]_vars PROVE [Right]_vars
  <2>1. CASE Check
    BY <1>1, <2>1, CheckIsRight DEF Check
  <2>2. CASE Sort
    <3>1. IsOrderFor(graph, TopologicalSort(graph, goals), goals)
      BY <1>1, <2>2, SortIsOrder, ParMakeAssumption DEF Sort, WorkInv, TypeOK, GoalsAcyclic
    <3>. QED
      BY <2>2, <3>1 DEF Sort
  <2>3. CASE Start
    BY <2>3 DEF Start
  <2>4. CASE UNCHANGED main /\ phase # "sorted" /\ phase # "parsed"
    BY <2>4 DEF main
  <2>. QED
    BY <1>1, <2>1, <2>2, <2>3, <2>4, OnlyMainMoves
<1>. QED
  BY <1>1, WorkCorrect, GoalsAcyclicCorrect, PTL DEF Spec, OrderIsRight
=============================================================================
