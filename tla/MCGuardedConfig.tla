--------------------------- MODULE MCGuardedConfig ---------------------------
(* Instances of GuardedConfig for TLC: every tree over two names and two   *)
(* levels, with at most one link to begin with, or with none. Goroutines   *)
(* are interchangeable, and so are names and contents where they are model *)
(* values and nginx reads nothing (Included = {}).                         *)
EXTENDS GuardedConfigStore, FiniteSets, TLC

OnlyA == {<<"a">>}    \* the file nginx reads

Symmetry == Permutations(Procs) \cup Permutations(Names) \cup Permutations(Contents)

Links(t) == {p \in Path : t[p].is = "link"}

LinkedTrees == {t \in [Path -> Entry] : Rooted(t) /\ Cardinality(Links(t)) <= 1}
PlainTrees  == {t \in [Path -> Entry \ {Link(p) : p \in Path \cup {<<>>}}] : Rooted(t)}
=============================================================================
