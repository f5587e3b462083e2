----------------------------- MODULE MCParMake -----------------------------
(* Model-checking instances of ParMake: the cycle check and the sort on every *)
(* graph of three rules with every list of goals, the workers on the          *)
(* makefiles of Worked.                                                       *)
EXTENDS ParMake, Relation, TLC

\* Sequences of distinct rules.
Lists(S) == {s \in UNION {[1..k -> S] : k \in 0..Cardinality(S)} : IsInjective(s)}
Small == {"prog", "lib", "util"}
SmallMakefiles == {[graph |-> g @@ ("doc" :> <<>>), goals |-> gs] :
                      g \in [Small -> Lists(Small)], gs \in Lists(Small)}

\* prog: util lib;  lib: util;  doc: util
Example == [graph |-> [prog |-> <<"util", "lib">>, lib |-> <<"util">>, doc |-> <<"util">>,
                       util |-> <<>>],
            goals |-> <<"prog", "doc">>]
AllMakefiles == SmallMakefiles \union {Example}

\* The example; up to renaming, all graphs of three rules without a cycle; and
\* what is left of a makefile when its only goal reaches a cycle.
Rules(prog, lib) == [prog |-> prog, lib |-> lib, doc |-> <<>>, util |-> <<>>]
Worked == {Example, [graph |-> Rules(<<"prog">>, <<"util">>), goals |-> <<>>]} \union
          {[graph |-> Rules(p, l), goals |-> gs] :
              p \in Lists({"util", "lib"}), l \in Lists({"util"}), gs \in {<<"prog">>, <<"lib", "prog">>}}

\* What the reference calls the rules behind a rule is the transitive closure
\* of the dependencies.
Closure(G) == TransitiveClosure([e \in Rule \X Rule |-> e[2] \in Range(G[e[1]])], Rule)
ASSUME NeedsIsClosure ==
    \A G \in {mk.graph : mk \in AllMakefiles} :
        LET closure == Closure(G)
        IN  \A r \in Rule : Needs(G, r) = {u \in Rule : closure[r, u]}
=============================================================================
