------------------------ MODULE GuardedConfigProofs ------------------------
(***************************************************************************)
(* Proofs about GuardedConfig, for any directory, any number of handlers   *)
(* and any names, links and contents: first what a walk through the tree   *)
(* leads to and what each operation and its restore closure make of the    *)
(* tree, then what holding mutate makes of a change, and last that the     *)
(* handlers implement ConfigStore.                                         *)
(***************************************************************************)
EXTENDS GuardedConfigStore, SequenceTheorems, WellFoundedInduction, TLAPS

-----------------------------------------------------------------------------
(* Induction, and functions that are defined by it.                        *)

Below == {ss \in Nat \X Nat : ss[1] < ss[2]}

(* No descent for ever.                                                     *)
LEMMA BelowWF == IsWellFoundedOn(Below, Nat)
<1>1. OpToRel(<, Nat) = Below
  BY DEF OpToRel, Below
<1> QED BY <1>1, NatLessThanWellFounded

(* Induction, over a set: what 0 is in and every successor follows into.    *)
LEMMA NatInd ==
  ASSUME NEW S, 0 \in S, \A n \in Nat : n \in S => n + 1 \in S
  PROVE  Nat \subseteq S
<1> SUFFICES ASSUME NEW m \in Nat, m \notin S PROVE FALSE
  OBVIOUS
<1> DEFINE T == {n \in Nat : n \notin S}
<1>1. T \subseteq Nat /\ T # {}
  OBVIOUS
<1>2. PICK x \in T : \A y \in T : <<y, x>> \notin Below
  BY <1>1, BelowWF, WFMin
<1>3. x \in Nat /\ x # 0 /\ x - 1 \in Nat /\ x - 1 < x
  OBVIOUS
<1>4. x - 1 \in T
  BY <1>3
<1> QED BY <1>2, <1>3, <1>4 DEF Below

(* A sequence that begins with x0 and goes on as F says.                    *)
Iterates(f, X, x0, F) == f \in [Nat -> X] /\ f[0] = x0 /\ \A n \in Nat : f[n + 1] = F[n][f[n]]

(* A sequence given by its first value and by what follows each. *)
LEMMA NatRec ==
  ASSUME NEW X, NEW x0 \in X, NEW F \in [Nat -> [X -> X]]
  PROVE  \E f : Iterates(f, X, x0, F)
<1> DEFINE Begun(n, f) == f \in [0 .. n -> X] /\ f[0] = x0 /\ \A i \in 0 .. n : i < n => f[i + 1] = F[i][f[i]]
<1>1. ASSUME NEW n \in Nat, NEW f, NEW g, Begun(n, f), Begun(n, g), NEW i \in 0 .. n
      PROVE  f[i] = g[i]
  <2> DEFINE S == {k \in Nat : k <= n => f[k] = g[k]}
  <2>1. 0 \in S
    BY <1>1
  <2>2. ASSUME NEW k \in Nat, k \in S PROVE k + 1 \in S
    <3>1. ASSUME k + 1 <= n PROVE f[k + 1] = g[k + 1]
      <4>1. k \in 0 .. n /\ k < n /\ k <= n
        BY <3>1
      <4>2. f[k] = g[k]
        BY <2>2, <4>1
      <4>3. f[k + 1] = F[k][f[k]] /\ g[k + 1] = F[k][g[k]]
        BY <1>1, <4>1
      <4> QED BY <4>2, <4>3
    <3> QED BY <3>1
  <2>3. Nat \subseteq S
    BY <2>1, <2>2, NatInd
  <2> QED BY <2>3
<1>2. ASSUME NEW n \in Nat PROVE \E f : Begun(n, f)
  <2> DEFINE S == {k \in Nat : \E f : Begun(k, f)}
  <2>1. 0 \in S
    <3>1. Begun(0, [i \in 0 .. 0 |-> x0])
      OBVIOUS
    <3> QED BY <3>1
  <2>2. ASSUME NEW k \in Nat, k \in S PROVE k + 1 \in S
    <3>1. PICK f : Begun(k, f)
      BY <2>2
    <3> DEFINE g == [i \in 0 .. k + 1 |-> IF i <= k THEN f[i] ELSE F[k][f[k]]]
    <3>2. f[k] \in X /\ F[k][f[k]] \in X
      BY <3>1
    <3>3. g \in [0 .. k + 1 -> X] /\ g[0] = x0
      BY <3>1, <3>2
    <3>4. ASSUME NEW i \in 0 .. k + 1, i < k + 1 PROVE g[i + 1] = F[i][g[i]]
      <4>1. CASE i = k
        BY <4>1
      <4>2. CASE i # k
        BY <3>1, <3>4, <4>2
      <4> QED BY <4>1, <4>2
    <3> HIDE DEF g
    <3>5. Begun(k + 1, g)
      BY <3>3, <3>4
    <3> HIDE DEF Begun
    <3> QED BY <3>5
  <2>3. Nat \subseteq S
    BY <2>1, <2>2, NatInd
  <2> QED BY <2>3
<1> DEFINE begun[n \in Nat] == CHOOSE f : Begun(n, f)
           all == [n \in Nat |-> begun[n][n]]
<1>3. \A n \in Nat : Begun(n, begun[n])
  BY <1>2
<1> HIDE DEF begun
<1>4. all \in [Nat -> X] /\ all[0] = x0
  BY <1>3
<1> HIDE DEF Begun
<1>5. \A n \in Nat : \A h1, h2 : Begun(n, h1) /\ Begun(n, h2) => \A i \in 0 .. n : h1[i] = h2[i]
  BY <1>1
<1>6. ASSUME NEW n \in Nat PROVE all[n + 1] = F[n][all[n]]
  <2> DEFINE g == [i \in 0 .. n |-> begun[n + 1][i]]
  <2>1. n + 1 \in Nat /\ n \in 0 .. n /\ n \in 0 .. n + 1 /\ n < n + 1
    OBVIOUS
  <2>2. Begun(n + 1, begun[n + 1]) /\ Begun(n, begun[n])
    BY <1>3, <2>1
  <2>3. Begun(n, g)
    BY <2>1, <2>2 DEF Begun
  <2> HIDE DEF g
  <2>4. g[n] = begun[n][n]
    BY <1>5, <2>1, <2>2, <2>3
  <2>5. g[n] = begun[n + 1][n]
    BY <2>1 DEF g
  <2>6. begun[n + 1][n + 1] = F[n][begun[n + 1][n]]
    BY <2>1, <2>2 DEF Begun
  <2> QED BY <2>1, <2>4, <2>5, <2>6
<1> QED BY <1>4, <1>6 DEF Iterates

-----------------------------------------------------------------------------
(* The walk of EvalSymlinks, step by step.                                 *)

(* What an entry may be. *)
LEMMA EntryKinds ==
  ASSUME NEW e \in Entry
  PROVE  /\ e.is \in {"none", "dir", "file", "link"}
         /\ e.is = "none" <=> e = None
         /\ e.is = "dir" <=> e = Dir
         /\ e.is = "file" => e.content \in Contents /\ e = File(e.content)
         /\ e.is = "link" => e.to \in Path \cup {<<>>} /\ e = Link(e.to)
<1>1. CASE e = None
  BY <1>1 DEF None, Dir
<1>2. CASE e = Dir
  BY <1>2 DEF None, Dir
<1>3. ASSUME NEW c \in Contents, e = File(c) PROVE e.is = "file" /\ e.content = c
  BY <1>3 DEF File
<1>4. ASSUME NEW p \in Path \cup {<<>>}, e = Link(p) PROVE e.is = "link" /\ e.to = p
  BY <1>4 DEF Link
<1>5. None.is = "none" /\ Dir.is = "dir"
  BY DEF None, Dir
<1> QED BY <1>1, <1>2, <1>3, <1>4, <1>5 DEF Entry

(* A path is a sequence of names, of a length that names a place.           *)
LEMMA PathSeq == \A p : p \in Path <=> p \in Seq(Names) /\ Len(p) \in 1 .. MaxDepth
<1>1. ASSUME NEW p \in Path PROVE p \in Seq(Names) /\ Len(p) \in 1 .. MaxDepth
  <2>1. PICK n \in 1 .. MaxDepth : p \in [1 .. n -> Names]
    BY DEF Path
  <2> QED BY <2>1, ConfTreeAssumption
<1>2. ASSUME NEW p \in Seq(Names), Len(p) \in 1 .. MaxDepth PROVE p \in Path
  BY <1>2 DEF Path
<1> QED BY <1>1, <1>2

-----------------------------------------------------------------------------
(* A walk, step by step: the place it looks up next, whether it goes on and *)
(* where, and how it ends where it does not.                                *)
At(t, q)     == IF q \in Path THEN t[q] ELSE None
Looked(w)    == Append(w.at, Head(w.rest))
Goes(t, w)   ==
  /\ w.rest # <<>>
  /\ At(t, Looked(w)).is # "none"
  /\ At(t, Looked(w)).is = "link" => w.links > 0
  /\ At(t, Looked(w)).is = "file" => Tail(w.rest) = <<>>
Onward(t, w) ==
  IF At(t, Looked(w)).is = "link"
  THEN [at |-> <<>>, rest |-> At(t, Looked(w)).to \o Tail(w.rest), links |-> w.links - 1]
  ELSE [at |-> Looked(w), rest |-> Tail(w.rest), links |-> w.links]
Verdict(t, w) ==
  IF w.rest = <<>> THEN [got |-> "found", at |-> w.at]
  ELSE IF At(t, Looked(w)).is = "none" THEN [got |-> "missing", at |-> Looked(w)]
  ELSE [got |-> "fault", at |-> Looked(w)]

(* A directory, whether rooted or not.                                      *)
Tried(t) == t \in [Path -> Entry]

(* What lstat gives: an entry, at a path if there is one.                   *)
LEMMA AtEntry ==
  ASSUME NEW t, Tried(t), NEW q
  PROVE  At(t, q) \in Entry /\ (At(t, q) # None => q \in Path /\ t[q] = At(t, q))
BY DEF At, Tried, Entry

(* The parts of a state of the walk.                                        *)
LEMMA WalkParts ==
  ASSUME NEW w \in Walks
  PROVE  /\ w.at \in Seq(Names) /\ w.rest \in Seq(Names) /\ w.links \in 0 .. MaxLinks
         /\ w = [at |-> w.at, rest |-> w.rest, links |-> w.links]
         /\ Len(w.rest) \in Nat /\ w.links \in Nat
         /\ w.rest # <<>> => /\ Head(w.rest) \in Names /\ Tail(w.rest) \in Seq(Names)
                             /\ Looked(w) \in Seq(Names)
                             /\ Len(Tail(w.rest)) = Len(w.rest) - 1 /\ Len(w.rest) > 0
BY ConfTreeAssumption DEF Walks, Looked

(* What a walk still has to go: every step takes a name, or a link that     *)
(* brings at most MaxDepth names.                                           *)
Fuel(w) == Len(w.rest) + w.links * MaxDepth

(* It is a number.                                                          *)
LEMMA FuelNat == ASSUME NEW w \in Walks PROVE Fuel(w) \in Nat
<1>1. Len(w.rest) \in Nat /\ w.links \in Nat /\ MaxDepth \in Nat
  BY WalkParts, ConfTreeAssumption
<1>2. \A i, j \in Nat : i * j \in Nat
  OBVIOUS
<1>3. w.links * MaxDepth \in Nat
  BY <1>1, <1>2
<1> QED BY <1>1, <1>3 DEF Fuel

(* A link costs more than it brings.                                        *)
LEMMA LinkFuel ==
  ASSUME NEW a \in Nat, NEW b \in Nat, NEW d \in Nat, NEW k \in Nat, k > 0, a <= d
  PROVE  \A n, j : n = a + b - 1 /\ j = k - 1 => n + j * d < b + k * d
<1>1. (k - 1) * d = k * d - d /\ k * d \in Int
  OBVIOUS
<1> QED BY <1>1

(* A step of the walk leads to a state of the walk, with less to go.        *)
LEMMA OnwardWalk ==
  ASSUME NEW t, Tried(t), NEW w \in Walks, Goes(t, w)
  PROVE  Onward(t, w) \in Walks /\ Fuel(Onward(t, w)) < Fuel(w)
<1> DEFINE e == At(t, Looked(w))
<1>1. /\ w.at \in Seq(Names) /\ w.rest \in Seq(Names) /\ w.links \in 0 .. MaxLinks
      /\ Tail(w.rest) \in Seq(Names) /\ Looked(w) \in Seq(Names)
      /\ Len(Tail(w.rest)) = Len(w.rest) - 1 /\ Len(w.rest) \in Nat /\ Len(w.rest) > 0
      /\ MaxDepth \in Nat /\ w.links \in Nat /\ MaxLinks \in Nat
  BY WalkParts, ConfTreeAssumption DEF Goes
<1>2. e \in Entry
  BY AtEntry
<1>3. CASE e.is = "link"
  <2>1. e.to \in Seq(Names) /\ Len(e.to) \in Nat /\ Len(e.to) <= MaxDepth
    <3>1. e.to \in Path \cup {<<>>}
      BY <1>2, <1>3, EntryKinds
    <3> HIDE DEF e
    <3>2. CASE e.to = <<>>
      <4>1. <<>> \in Seq(Names) /\ Len(<<>>) = 0
        OBVIOUS
      <4> QED BY <3>2, <4>1, <1>1
    <3>3. CASE e.to \in Path
      BY <3>3, <1>1, PathSeq
    <3> QED BY <3>1, <3>2, <3>3
  <2>2. w.links \in Nat /\ w.links > 0 /\ w.links - 1 \in 0 .. MaxLinks
    BY <1>1, <1>3 DEF Goes
  <2> DEFINE rest == e.to \o Tail(w.rest)
  <2>3. /\ Onward(t, w) = [at |-> <<>>, rest |-> rest, links |-> w.links - 1]
        /\ rest \in Seq(Names) /\ Len(rest) = Len(e.to) + Len(w.rest) - 1
    <3>1. Onward(t, w) = [at |-> <<>>, rest |-> rest, links |-> w.links - 1]
      BY <1>3 DEF Onward
    <3>2. rest \in Seq(Names) /\ Len(rest) = Len(e.to) + Len(Tail(w.rest))
      <4> HIDE DEF e
      <4> QED BY <1>1, <2>1
    <3> QED BY <1>1, <2>1, <3>1, <3>2
  <2>4. Onward(t, w) \in Walks
    BY <2>2, <2>3 DEF Walks
  <2> DEFINE o == Onward(t, w)
  <2>5. Len(o.rest) = Len(e.to) + Len(w.rest) - 1 /\ o.links = w.links - 1
    <3> HIDE DEF rest, e
    <3>1. Onward(t, w).rest = rest /\ Onward(t, w).links = w.links - 1
      BY <2>3
    <3> QED BY <2>3, <3>1
  <2> HIDE DEF rest, e, o
  <2>6. Len(o.rest) + o.links * MaxDepth < Len(w.rest) + w.links * MaxDepth
    BY <1>1, <2>1, <2>2, <2>5, LinkFuel
  <2>9. Fuel(o) < Fuel(w)
    BY <2>6 DEF Fuel
  <2> QED BY <2>4, <2>9 DEF o
<1>4. CASE e.is # "link"
  <2>1. Onward(t, w) = [at |-> Looked(w), rest |-> Tail(w.rest), links |-> w.links]
    BY <1>4 DEF Onward
  <2>2. Onward(t, w) \in Walks
    BY <1>1, <2>1 DEF Walks
  <2>3. Fuel(Onward(t, w)) = Len(w.rest) - 1 + w.links * MaxDepth
    BY <1>1, <2>1 DEF Fuel
  <2>4. \A i, j \in Nat : i * j \in Nat
    OBVIOUS
  <2>5. w.links * MaxDepth \in Nat
    BY <1>1, <2>4
  <2> QED BY <1>1, <2>2, <2>3, <2>5 DEF Fuel
<1> QED BY <1>3, <1>4

(* f is where each walk through t ends.                                     *)
Walked(t, f) == \A w \in Walks : f[w] = IF Goes(t, w) THEN f[Onward(t, w)] ELSE Verdict(t, w)

(* Every walk ends: there is such a function.                               *)
LEMMA WalksEnd ==
  ASSUME NEW t, Tried(t)
  PROVE  \E f : f = [w \in Walks |-> f[w]] /\ Walked(t, f)
<1> DEFINE X == [Walks -> Walks]
           x0 == [w \in Walks |-> w]
           Further(g) == [w \in Walks |-> IF Goes(t, w) THEN g[Onward(t, w)] ELSE w]
           F == [n \in Nat |-> [g \in X |-> Further(g)]]
<1>1. x0 \in X /\ F \in [Nat -> [X -> X]]
  <2>1. ASSUME NEW g \in X PROVE Further(g) \in X
    BY OnwardWalk
  <2> QED BY <2>1
<1>2. PICK G : G \in [Nat -> X] /\ G[0] = x0 /\ \A n \in Nat : G[n + 1] = F[n][G[n]]
  <2> HIDE DEF X, x0, F
  <2>1. PICK g : Iterates(g, X, x0, F)
    BY <1>1, NatRec
  <2> QED BY <2>1 DEF Iterates
<1>3. \A w \in Walks : G[0][w] = w
  BY <1>2
<1>4. ASSUME NEW n \in Nat, NEW w \in Walks
      PROVE  /\ Goes(t, w) => G[n + 1][w] = G[n][Onward(t, w)]
             /\ ~Goes(t, w) => G[n + 1][w] = w
  <2>1. n \in Nat /\ G[n] \in X
    BY <1>2
  <2>2. G[n + 1] = F[n][G[n]]
    BY <1>2
  <2>3. F[n][G[n]] = Further(G[n])
    <3> HIDE DEF X, Further
    <3> QED BY <2>1
  <2> QED BY <2>2, <2>3
<1> HIDE DEF F, X, x0
<1> DEFINE Settled(n) == \A w \in Walks : Fuel(w) <= n => G[n + 1][w] = G[n][w]
<1>5. \A n \in Nat : Settled(n)
  <2> DEFINE S == {n \in Nat : Settled(n)}
  <2>1. 0 \in S
    <3>1. ASSUME NEW w \in Walks, Fuel(w) <= 0 PROVE G[0 + 1][w] = G[0][w]
      <4>1. ~Goes(t, w)
        BY <3>1, OnwardWalk, FuelNat
      <4> QED BY <1>3, <1>4, <4>1
    <3> QED BY <3>1
  <2>2. ASSUME NEW n \in Nat, n \in S PROVE n + 1 \in S
    <3>1. ASSUME NEW w \in Walks, Fuel(w) <= n + 1 PROVE G[n + 1 + 1][w] = G[n + 1][w]
      <4>1. CASE Goes(t, w)
        <5>1. Onward(t, w) \in Walks /\ Fuel(Onward(t, w)) <= n
          BY <3>1, <4>1, OnwardWalk, FuelNat
        <5>2. G[n + 1][Onward(t, w)] = G[n][Onward(t, w)]
          BY <2>2, <5>1
        <5>3. n + 1 \in Nat
          OBVIOUS
        <5> QED BY <1>4, <4>1, <5>2, <5>3
      <4>2. CASE ~Goes(t, w)
        <5>1. n + 1 \in Nat
          OBVIOUS
        <5> QED BY <1>4, <4>2, <5>1
      <4> QED BY <4>1, <4>2
    <3>2. Settled(n + 1)
      BY <3>1
    <3> HIDE DEF Settled
    <3> QED BY <3>2
  <2> HIDE DEF Settled
  <2>3. Nat \subseteq S
    BY <2>1, <2>2, NatInd
  <2> QED BY <2>3
<1> DEFINE Ended(n) == \A w \in Walks : Fuel(w) <= n => G[n][w] = G[Fuel(w)][w]
<1>6. \A n \in Nat : Ended(n)
  <2> DEFINE S == {n \in Nat : Ended(n)}
  <2>1. 0 \in S
    <3>1. \A w \in Walks : Fuel(w) <= 0 => Fuel(w) = 0
      BY FuelNat
    <3> QED BY <3>1
  <2>2. ASSUME NEW n \in Nat, n \in S PROVE n + 1 \in S
    <3>1. ASSUME NEW w \in Walks, Fuel(w) <= n + 1 PROVE G[n + 1][w] = G[Fuel(w)][w]
      <4>1. Fuel(w) \in Nat
        BY FuelNat
      <4>2. CASE Fuel(w) = n + 1
        BY <4>2
      <4>3. CASE Fuel(w) # n + 1
        <5>1. Fuel(w) <= n
          BY <3>1, <4>1, <4>3
        <5>2. G[n + 1][w] = G[n][w]
          BY <1>5, <5>1
        <5> QED BY <2>2, <5>1, <5>2
      <4> QED BY <4>2, <4>3
    <3>2. Ended(n + 1)
      BY <3>1
    <3> HIDE DEF Ended
    <3> QED BY <3>2
  <2> HIDE DEF Ended
  <2>3. Nat \subseteq S
    BY <2>1, <2>2, NatInd
  <2> QED BY <2>3
<1> DEFINE f == [w \in Walks |-> Verdict(t, G[Fuel(w)][w])]
<1>7. ASSUME NEW w \in Walks, Goes(t, w) PROVE f[w] = f[Onward(t, w)]
  <2> DEFINE o == Onward(t, w)
             m == Fuel(w) - 1
  <2>1. o \in Walks /\ Fuel(o) < Fuel(w) /\ Fuel(w) \in Nat /\ Fuel(o) \in Nat
    BY <1>7, OnwardWalk, FuelNat
  <2>2. m \in Nat /\ Fuel(w) = m + 1 /\ Fuel(o) <= m
    BY <2>1
  <2> HIDE DEF m
  <2>3. G[m + 1][w] = G[m][o]
    BY <1>4, <1>7, <2>2
  <2>4. G[m][o] = G[Fuel(o)][o]
    BY <1>6, <2>1, <2>2
  <2> QED BY <2>1, <2>2, <2>3, <2>4
<1>8. ASSUME NEW w \in Walks, ~Goes(t, w) PROVE f[w] = Verdict(t, w)
  <2>1. Fuel(w) \in Nat
    BY FuelNat
  <2>2. CASE Fuel(w) = 0
    BY <1>3, <2>2
  <2>3. CASE Fuel(w) # 0
    <3> DEFINE m == Fuel(w) - 1
    <3>1. m \in Nat /\ Fuel(w) = m + 1
      BY <2>1, <2>3
    <3> HIDE DEF m
    <3> QED BY <1>4, <1>8, <3>1
  <2> QED BY <2>2, <2>3
<1>9. f = [w \in Walks |-> f[w]]
  OBVIOUS
<1> HIDE DEF f
<1> QED BY <1>7, <1>8, <1>9 DEF Walked

(* The function by which EvalSymlinks is defined.                           *)
WalkOf(t) ==
  LET walk[w \in Walks] ==
        IF w.rest = <<>> THEN [got |-> "found", at |-> w.at]
        ELSE LET q     == Append(w.at, Head(w.rest))
                 entry == IF q \in Path THEN t[q] ELSE None
             IN CASE entry.is = "none" -> [got |-> "missing", at |-> q]
                  [] \/ entry.is = "link" /\ w.links = 0
                     \/ entry.is = "file" /\ Tail(w.rest) # <<>> -> [got |-> "fault", at |-> q]
                  [] entry.is = "link" /\ w.links > 0 ->
                       walk[[at |-> <<>>, rest |-> entry.to \o Tail(w.rest), links |-> w.links - 1]]
                  [] OTHER -> walk[[at |-> q, rest |-> Tail(w.rest), links |-> w.links]]
  IN walk

(* The walk of EvalSymlinks begins with the whole path and every link left. *)
Start(p) == [at |-> <<>>, rest |-> p, links |-> MaxLinks]

(* EvalSymlinks is that walk.                                               *)
LEMMA EvalIsWalk == ASSUME NEW t, NEW p PROVE EvalSymlinks(t, p) = WalkOf(t)[Start(p)]
BY DEF EvalSymlinks, WalkOf, Start

Body(t, f, w) ==
        IF w.rest = <<>> THEN [got |-> "found", at |-> w.at]
        ELSE LET q     == Append(w.at, Head(w.rest))
                 entry == IF q \in Path THEN t[q] ELSE None
             IN CASE entry.is = "none" -> [got |-> "missing", at |-> q]
                  [] \/ entry.is = "link" /\ w.links = 0
                     \/ entry.is = "file" /\ Tail(w.rest) # <<>> -> [got |-> "fault", at |-> q]
                  [] entry.is = "link" /\ w.links > 0 ->
                       f[[at |-> <<>>, rest |-> entry.to \o Tail(w.rest), links |-> w.links - 1]]
                  [] OTHER -> f[[at |-> q, rest |-> Tail(w.rest), links |-> w.links]]

(* The function EvalSymlinks defines, by what it is chosen for.             *)
LEMMA WalkChosen == ASSUME NEW t PROVE WalkOf(t) = CHOOSE f : f = [w \in Walks |-> Body(t, f, w)]
BY DEF WalkOf, Body

(* Where the walk from w ends.                                              *)
Walk(t, w) == WalkOf(t)[w]

(* The walk, step by step: the one equation all that follows rests on.      *)
LEMMA WalkStep ==
  ASSUME NEW t, Tried(t), NEW w \in Walks
  PROVE  Walk(t, w) = IF Goes(t, w) THEN Walk(t, Onward(t, w)) ELSE Verdict(t, w)
<1>1. ASSUME NEW f, NEW v \in Walks
      PROVE  Body(t, f, v) = IF Goes(t, v) THEN f[Onward(t, v)] ELSE Verdict(t, v)
  <2> DEFINE e == At(t, Looked(v))
  <2>1. e.is \in {"none", "dir", "file", "link"}
    BY AtEntry, EntryKinds
  <2>2. v.links \in Nat
    BY WalkParts
  <2>3. e = IF Append(v.at, Head(v.rest)) \in Path THEN t[Append(v.at, Head(v.rest))] ELSE None
    BY DEF At, Looked
  <2>4. CASE v.rest = <<>>
    BY <2>4 DEF Body, Goes, Verdict
  <2>5. CASE v.rest # <<>> /\ e.is = "none"
    BY <2>3, <2>5 DEF Body, Goes, Verdict, Looked
  <2> DEFINE q == Looked(v)
             linked == [at |-> <<>>, rest |-> e.to \o Tail(v.rest), links |-> v.links - 1]
             below  == [at |-> q, rest |-> Tail(v.rest), links |-> v.links]
  <2>6. v.rest # <<>> =>
          Body(t, f, v) =
            CASE e.is = "none" -> [got |-> "missing", at |-> q]
              [] \/ e.is = "link" /\ v.links = 0
                 \/ e.is = "file" /\ Tail(v.rest) # <<>> -> [got |-> "fault", at |-> q]
              [] e.is = "link" /\ v.links > 0 -> f[linked]
              [] OTHER -> f[below]
    BY <2>3 DEF Body, Looked
  <2>7. Goes(t, v) <=> /\ v.rest # <<>> /\ e.is # "none"
                       /\ e.is = "link" => v.links > 0
                       /\ e.is = "file" => Tail(v.rest) = <<>>
    BY DEF Goes
  <2>8. Onward(t, v) = IF e.is = "link" THEN linked ELSE below
    BY DEF Onward
  <2>9. v.rest # <<>> =>
          Verdict(t, v) = IF e.is = "none" THEN [got |-> "missing", at |-> q] ELSE [got |-> "fault", at |-> q]
    BY DEF Verdict
  <2> HIDE DEF e, q, linked, below
  <2> QED BY <2>1, <2>2, <2>4, <2>5, <2>6, <2>7, <2>8, <2>9
<1>2. PICK f : f = [v \in Walks |-> f[v]] /\ Walked(t, f)
  BY WalksEnd
<1>3. f = [v \in Walks |-> Body(t, f, v)]
  <2>1. \A v \in Walks : f[v] = Body(t, f, v)
    BY <1>1, <1>2 DEF Walked
  <2> QED BY <1>2, <2>1
<1>4. WalkOf(t) = [v \in Walks |-> Body(t, WalkOf(t), v)]
  BY <1>3, WalkChosen
<1>5. WalkOf(t)[w] = Body(t, WalkOf(t), w)
  BY <1>4
<1> QED BY <1>1, <1>5 DEF Walk

(* What holds of a walk whenever it holds of what is left of it after its   *)
(* first name holds of every walk.                                          *)
LEMMA WalkInd ==
  ASSUME NEW t, Tried(t), NEW S,
         \A w \in Walks : (Goes(t, w) => Onward(t, w) \in S) => w \in S
  PROVE  Walks \subseteq S
<1> DEFINE N == {n \in Nat : \A w \in Walks : Fuel(w) <= n => w \in S}
<1>1. 0 \in N
  <2>1. ASSUME NEW w \in Walks, Fuel(w) <= 0 PROVE w \in S
    <3>1. ~Goes(t, w)
      BY <2>1, OnwardWalk, FuelNat
    <3> QED BY <3>1
  <2> QED BY <2>1
<1>2. ASSUME NEW n \in Nat, n \in N PROVE n + 1 \in N
  <2>1. ASSUME NEW w \in Walks, Fuel(w) <= n + 1 PROVE w \in S
    <3>1. ASSUME Goes(t, w) PROVE Onward(t, w) \in S
      <4>1. Onward(t, w) \in Walks /\ Fuel(Onward(t, w)) <= n
        BY <2>1, <3>1, OnwardWalk, FuelNat
      <4> QED BY <1>2, <4>1
    <3> QED BY <3>1
  <2> QED BY <2>1
<1> HIDE DEF N
<1>3. Nat \subseteq N
  BY <1>1, <1>2, NatInd
<1>4. \A w \in Walks : Fuel(w) \in Nat /\ Fuel(w) <= Fuel(w)
  BY FuelNat
<1> QED BY <1>3, <1>4 DEF N

(* A walk finds, misses or fails.                                           *)
LEMMA WalkGot ==
  ASSUME NEW t, Tried(t), NEW w \in Walks
  PROVE  Walk(t, w).got \in {"found", "missing", "fault"}
<1> DEFINE S == {v \in Walks : Walk(t, v).got \in {"found", "missing", "fault"}}
<1>1. ASSUME NEW v \in Walks, Goes(t, v) => Onward(t, v) \in S PROVE v \in S
  <2>1. CASE Goes(t, v)
    BY <1>1, <2>1, WalkStep
  <2>2. CASE ~Goes(t, v)
    BY <2>2, WalkStep DEF Verdict
  <2> QED BY <2>1, <2>2
<1> HIDE DEF S
<1>2. Walks \subseteq S
  BY <1>1, WalkInd
<1> QED BY <1>2 DEF S

(* A directory; and what a walk leads to.                                   *)
IsPlaceOfDir(t, p) == p = <<>> \/ (p \in Path /\ t[p] = Dir)
Leads(t, p) == IsPlaceOfDir(t, p) \/ (p \in Path /\ t[p].is = "file")
Standing(t, w) == IsPlaceOfDir(t, w.at) \/ (w.rest = <<>> /\ Leads(t, w.at))

(* A step goes to a directory, or to a file that is the last name.          *)
LEMMA OnwardStands ==
  ASSUME NEW t, Tried(t), NEW w \in Walks, Goes(t, w)
  PROVE  /\ Standing(t, Onward(t, w))
         /\ At(t, Looked(w)).is # "file" => IsPlaceOfDir(t, Onward(t, w).at)
         /\ At(t, Looked(w)).is = "file" =>
              /\ Onward(t, w) = [at |-> Looked(w), rest |-> <<>>, links |-> w.links]
              /\ Looked(w) \in Path /\ t[Looked(w)].is = "file"
<1> DEFINE e == At(t, Looked(w))
<1>1. e \in Entry /\ e # None
  BY AtEntry DEF Goes, None
<1>2. Looked(w) \in Path /\ t[Looked(w)] = e
  BY <1>1, AtEntry
<1>3. e.is \in {"dir", "file", "link"} /\ (e.is = "dir" => e = Dir)
  BY <1>1, EntryKinds
<1>4. e.is = "link" => IsPlaceOfDir(t, Onward(t, w).at)
  BY DEF Onward, IsPlaceOfDir
<1>5. e.is = "dir" => IsPlaceOfDir(t, Onward(t, w).at)
  BY <1>2, <1>3 DEF Onward, IsPlaceOfDir
<1>6. e.is = "file" => Onward(t, w) = [at |-> Looked(w), rest |-> <<>>, links |-> w.links]
  BY DEF Onward, Goes
<1>7. e.is = "file" => Looked(w) \in Path /\ t[Looked(w)].is = "file"
  BY <1>2
<1> HIDE DEF e
<1>8. Standing(t, Onward(t, w))
  BY <1>3, <1>4, <1>5, <1>6, <1>7 DEF Standing, Leads
<1> QED BY <1>3, <1>4, <1>5, <1>6, <1>7, <1>8 DEF e

(* A walk that finds something leads to a file or to a directory.           *)
LEMMA WalkLeads ==
  ASSUME NEW t, Tried(t), NEW w \in Walks, Standing(t, w), Walk(t, w).got = "found"
  PROVE  Leads(t, Walk(t, w).at)
<1> DEFINE S == {v \in Walks : Standing(t, v) /\ Walk(t, v).got = "found" => Leads(t, Walk(t, v).at)}
<1>1. ASSUME NEW v \in Walks, Goes(t, v) => Onward(t, v) \in S PROVE v \in S
  <2> SUFFICES ASSUME Standing(t, v), Walk(t, v).got = "found" PROVE Leads(t, Walk(t, v).at)
    OBVIOUS
  <2>1. CASE Goes(t, v)
    BY <1>1, <2>1, WalkStep, OnwardStands
  <2>2. CASE ~Goes(t, v)
    <3>1. v.rest = <<>> /\ Walk(t, v).at = v.at
      BY <2>2, WalkStep DEF Verdict
    <3> QED BY <3>1 DEF Standing, Leads
  <2> QED BY <2>1, <2>2
<1> HIDE DEF S
<1>2. Walks \subseteq S
  BY <1>1, WalkInd
<1> QED BY <1>2 DEF S

-----------------------------------------------------------------------------
(* A walk in two parts, and a walk in two trees.                           *)

(* A walk with more names to come.                                          *)
And(w, s) == [at |-> w.at, rest |-> w.rest \o s, links |-> w.links]

(* The first name of a path in two parts.                                   *)
LEMMA TailConcat ==
  ASSUME NEW r \in Seq(Names), NEW s \in Seq(Names), r # <<>>
  PROVE  r \o s # <<>> /\ Head(r \o s) = Head(r) /\ Tail(r \o s) = Tail(r) \o s
<1> DEFINE h == Head(r)
           u == Tail(r)
<1>1. /\ h \in Names /\ <<h>> \in Seq(Names) /\ u \in Seq(Names) /\ r = <<h>> \o u
  BY HeadTailProperties
<1> HIDE DEF h, u
<1>2. r \o s = <<h>> \o (u \o s) /\ u \o s \in Seq(Names)
  BY <1>1, ConcatAssociative, ConcatProperties
<1> DEFINE v == u \o s
<1> HIDE DEF v
<1>3. Tail(<<h>> \o v) = v /\ Head(<<h>> \o v) = h /\ <<h>> \o v # <<>>
  BY <1>1, <1>2 DEF v
<1> QED BY <1>2, <1>3 DEF v, h, u

(* The parts of a walk with more names to come.                             *)
LEMMA AndParts ==
  ASSUME NEW w \in Walks, NEW s \in Seq(Names)
  PROVE  /\ And(w, s) \in Walks
         /\ w.rest = <<>> => And(w, s).rest = s
         /\ w.rest # <<>> => /\ And(w, s).rest # <<>>
                             /\ Looked(And(w, s)) = Looked(w)
                             /\ Tail(And(w, s).rest) = Tail(w.rest) \o s
<1>1. /\ w.at \in Seq(Names) /\ w.rest \in Seq(Names) /\ w.links \in 0 .. MaxLinks
      /\ w.rest \o s \in Seq(Names) /\ Len(w.rest \o s) = Len(w.rest) + Len(s)
  BY WalkParts
<1>2. And(w, s) \in Walks
  BY <1>1 DEF And, Walks
<1>3. ASSUME w.rest = <<>> PROVE And(w, s).rest = s
  BY <1>3 DEF And
<1>4. ASSUME w.rest # <<>>
      PROVE  /\ w.rest \o s # <<>> /\ Head(w.rest \o s) = Head(w.rest)
             /\ Tail(w.rest \o s) = Tail(w.rest) \o s
  BY <1>1, <1>4, TailConcat
<1>5. /\ w.rest # <<>> => /\ And(w, s).rest # <<>>
                          /\ Looked(And(w, s)) = Looked(w)
                          /\ Tail(And(w, s).rest) = Tail(w.rest) \o s
  BY <1>4 DEF And, Looked
<1> QED BY <1>2, <1>3, <1>5

(* A walk to a directory goes on from there, with some of the links left;   *)
(* one that does not end does not end with more names either.               *)
Ongoing(t, w, s) ==
  /\ Walk(t, w).got = "found" /\ IsPlaceOfDir(t, Walk(t, w).at) =>
       \E l \in 0 .. w.links : Walk(t, And(w, s)) = Walk(t, [at |-> Walk(t, w).at, rest |-> s, links |-> l])
  /\ IsPlaceOfDir(t, w.at) /\ s # <<>> /\ Walk(t, w).got = "found" /\ ~IsPlaceOfDir(t, Walk(t, w).at) =>
       Walk(t, And(w, s)).got # "found"
  /\ Walk(t, w).got # "found" => Walk(t, And(w, s)) = Walk(t, w)

(* A step is the same with more names to come, but for a file, which must   *)
(* be the last.                                                             *)
LEMMA AndOnward ==
  ASSUME NEW t, Tried(t), NEW w \in Walks, NEW s \in Seq(Names), w.rest # <<>>
  PROVE  /\ Goes(t, w) /\ (At(t, Looked(w)).is = "file" => s = <<>>) =>
              Goes(t, And(w, s)) /\ Onward(t, And(w, s)) = And(Onward(t, w), s)
         /\ Goes(t, w) /\ At(t, Looked(w)).is = "file" /\ s # <<>> => ~Goes(t, And(w, s))
         /\ ~Goes(t, w) => ~Goes(t, And(w, s)) /\ Verdict(t, And(w, s)) = Verdict(t, w)
<1> DEFINE e == At(t, Looked(w))
           v == And(w, s)
<1>1. /\ w.rest \in Seq(Names) /\ Tail(w.rest) \in Seq(Names)
      /\ v.at = w.at /\ v.links = w.links /\ v.rest # <<>> /\ Looked(v) = Looked(w)
      /\ Tail(v.rest) = Tail(w.rest) \o s
  BY AndParts, WalkParts DEF And
<1>2. e \in Entry
  BY AtEntry
<1>3. e.is = "link" => e.to \in Seq(Names)
  <2>1. e.is = "link" => e.to \in Path \cup {<<>>}
    BY <1>2, EntryKinds
  <2>2. <<>> \in Seq(Names)
    OBVIOUS
  <2> HIDE DEF e
  <2> QED BY <2>1, <2>2, PathSeq
<1>4. Tail(w.rest) \o s = <<>> <=> Tail(w.rest) = <<>> /\ s = <<>>
  <2>1. Len(Tail(w.rest) \o s) = Len(Tail(w.rest)) + Len(s) /\ Len(s) \in Nat /\ Len(Tail(w.rest)) \in Nat
    BY <1>1
  <2>2. \A x \in Seq(Names) : x = <<>> <=> Len(x) = 0
    OBVIOUS
  <2> QED BY <1>1, <2>1, <2>2
<1>5. Goes(t, v) <=> /\ e.is # "none" /\ (e.is = "link" => w.links > 0)
                     /\ e.is = "file" => Tail(w.rest) \o s = <<>>
  BY <1>1 DEF Goes
<1>6. Goes(t, w) <=> /\ e.is # "none" /\ (e.is = "link" => w.links > 0)
                     /\ e.is = "file" => Tail(w.rest) = <<>>
  BY DEF Goes
<1>7. Verdict(t, v) = Verdict(t, w)
  BY <1>1 DEF Verdict
<1>8. Onward(t, v) = And(Onward(t, w), s)
  <2>1. CASE e.is = "link"
    <3>1. /\ Onward(t, w) = [at |-> <<>>, rest |-> e.to \o Tail(w.rest), links |-> w.links - 1]
          /\ Onward(t, v) = [at |-> <<>>, rest |-> e.to \o (Tail(w.rest) \o s), links |-> w.links - 1]
      BY <1>1, <2>1 DEF Onward
    <3>2. e.to \o (Tail(w.rest) \o s) = (e.to \o Tail(w.rest)) \o s
      <4>1. e.to \in Seq(Names)
        BY <1>3, <2>1
      <4>2. ASSUME NEW x \in Seq(Names), NEW y \in Seq(Names), NEW z \in Seq(Names)
            PROVE  (x \o y) \o z = x \o (y \o z)
        BY ConcatAssociative
      <4> HIDE DEF e
      <4> QED BY <1>1, <4>1, <4>2
    <3>3. And(Onward(t, w), s) = [at |-> <<>>, rest |-> (e.to \o Tail(w.rest)) \o s, links |-> w.links - 1]
      <4> HIDE DEF e
      <4> QED BY <3>1 DEF And
    <3> HIDE DEF e, v
    <3> QED BY <3>1, <3>2, <3>3
  <2>2. CASE e.is # "link"
    <3>1. /\ Onward(t, w) = [at |-> Looked(w), rest |-> Tail(w.rest), links |-> w.links]
          /\ Onward(t, v) = [at |-> Looked(w), rest |-> Tail(w.rest) \o s, links |-> w.links]
      BY <1>1, <2>2 DEF Onward
    <3> HIDE DEF e, v
    <3> QED BY <3>1 DEF And
  <2> QED BY <2>1, <2>2
<1> HIDE DEF e, v
<1> QED BY <1>4, <1>5, <1>6, <1>7, <1>8 DEF e, v

(* Every walk goes on so.                                                   *)
LEMMA WalkGoesOn ==
  ASSUME NEW t, Tried(t), NEW w \in Walks, NEW s \in Seq(Names)
  PROVE  Ongoing(t, w, s)
<1> DEFINE S == {v \in Walks : Ongoing(t, v, s)}
<1>1. ASSUME NEW v \in Walks, Goes(t, v) => Onward(t, v) \in S PROVE Ongoing(t, v, s)
  <2>0. /\ v.at \in Seq(Names) /\ v.rest \in Seq(Names) /\ v.links \in 0 .. MaxLinks
        /\ v.links \in Nat /\ And(v, s) \in Walks
    BY WalkParts, AndParts
  <2>1. CASE v.rest = <<>>
    <3>1. Walk(t, v).got = "found" /\ Walk(t, v).at = v.at
      BY <2>1, WalkStep DEF Goes, Verdict
    <3>2. And(v, s) = [at |-> v.at, rest |-> s, links |-> v.links]
      BY <2>0, <2>1 DEF And
    <3> QED BY <2>0, <3>1, <3>2 DEF Ongoing
  <2>2. CASE v.rest # <<>> /\ ~Goes(t, v)
    <3>1. Walk(t, v) = Verdict(t, v) /\ Walk(t, And(v, s)) = Verdict(t, v)
      BY <2>0, <2>2, WalkStep, AndOnward
    <3>2. Verdict(t, v).got # "found"
      BY <2>2 DEF Verdict
    <3> QED BY <3>1, <3>2 DEF Ongoing
  <2>3. CASE Goes(t, v) /\ (At(t, Looked(v)).is = "file" => s = <<>>)
    <3> DEFINE o == Onward(t, v)
    <3>1. o \in Walks /\ o.links \in 0 .. v.links /\ Ongoing(t, o, s)
      <4>1. o.links \in 0 .. v.links
        BY <2>0, <2>3 DEF Onward, Goes
      <4> QED BY <1>1, <2>3, <4>1, OnwardWalk
    <3>2. Walk(t, v) = Walk(t, o) /\ Walk(t, And(v, s)) = Walk(t, And(o, s))
      BY <2>0, <2>3, WalkStep, AndOnward DEF Goes
    <3>3. At(t, Looked(v)).is # "file" => IsPlaceOfDir(t, o.at)
      BY <2>3, OnwardStands
    <3> HIDE DEF o
    <3> QED BY <2>0, <2>3, <3>1, <3>2, <3>3 DEF Ongoing
  <2>4. CASE Goes(t, v) /\ At(t, Looked(v)).is = "file" /\ s # <<>>
    <3> DEFINE o == Onward(t, v)
    <3>1. v.rest # <<>> /\ ~Goes(t, And(v, s)) /\ And(v, s).rest # <<>>
      BY <2>4, AndOnward, AndParts DEF Goes
    <3>2. Walk(t, And(v, s)).got # "found"
      BY <2>0, <3>1, WalkStep DEF Verdict
    <3>3. /\ o \in Walks /\ Walk(t, v) = Walk(t, o)
          /\ o = [at |-> Looked(v), rest |-> <<>>, links |-> v.links]
          /\ Looked(v) \in Path /\ t[Looked(v)].is = "file"
      BY <2>4, OnwardWalk, OnwardStands, WalkStep
    <3>4. Walk(t, o).got = "found" /\ Walk(t, o).at = Looked(v)
      <4>1. ~Goes(t, o) /\ Verdict(t, o) = [got |-> "found", at |-> Looked(v)]
        BY <3>3 DEF Goes, Verdict
      <4> QED BY <3>3, <4>1, WalkStep
    <3>5. ~IsPlaceOfDir(t, Looked(v))
      <4>1. Looked(v) # <<>>
        BY <3>3, PathSeq
      <4> QED BY <3>3, <4>1 DEF IsPlaceOfDir, Dir
    <3> HIDE DEF o
    <3> QED BY <3>2, <3>3, <3>4, <3>5 DEF Ongoing
  <2> QED BY <2>1, <2>2, <2>3, <2>4 DEF Goes
<1> HIDE DEF S
<1>2. Walks \subseteq S
  BY <1>1, WalkInd DEF S
<1> QED BY <1>2 DEF S

(* Everything at a place outside K is still there; the content of a file    *)
(* may have changed.                                                        *)
Alike(e, f)       == e = f \/ (e.is = "file" /\ f.is = "file")
KeepsBut(t, u, K) == \A q \in Path \ K : t[q].is # "none" => Alike(t[q], u[q])

(* Some walk has followed the link at a place.                              *)
Followed(t, q) ==
  \E r \in Seq(Names), k \in 0 .. MaxLinks :
    Walk(t, [at |-> <<>>, rest |-> t[q].to \o r, links |-> k]).got = "found"

(* A walk that ends somewhere ends there too where everything is kept but   *)
(* links it did not follow.                                                 *)
LEMMA WalkKept ==
  ASSUME NEW t, Tried(t), NEW u, Tried(u), NEW K \in SUBSET Path, KeepsBut(t, u, K),
         \A q \in K : t[q].is = "link" /\ ~Followed(t, q),
         NEW w \in Walks, Walk(t, w).got = "found"
  PROVE  Walk(u, w) = Walk(t, w)
<1> DEFINE S == {v \in Walks : Walk(t, v).got = "found" => Walk(u, v) = Walk(t, v)}
<1>1. ASSUME NEW v \in Walks, Goes(t, v) => Onward(t, v) \in S PROVE v \in S
  <2> SUFFICES ASSUME Walk(t, v).got = "found" PROVE Walk(u, v) = Walk(t, v)
    OBVIOUS
  <2>1. CASE ~Goes(t, v)
    <3>1. v.rest = <<>>
      BY <2>1, WalkStep DEF Verdict
    <3>2. ~Goes(u, v) /\ Verdict(u, v) = Verdict(t, v)
      BY <3>1 DEF Goes, Verdict
    <3> QED BY <2>1, <3>2, WalkStep
  <2>2. CASE Goes(t, v)
    <3> DEFINE q == Looked(v)
               o == Onward(t, v)
    <3>1. o \in Walks /\ o \in S /\ Walk(t, v) = Walk(t, o)
      BY <1>1, <2>2, OnwardWalk, WalkStep
    <3>2. At(t, q).is # "none" /\ q \in Path /\ At(t, q) = t[q] /\ At(u, q) = u[q]
      <4>1. At(t, q).is # "none"
        BY <2>2 DEF Goes
      <4>2. At(t, q) # None
        BY <4>1 DEF None
      <4> QED BY <4>1, <4>2, AtEntry DEF At
    <3>3. q \notin K
      <4> SUFFICES ASSUME q \in K PROVE FALSE
        OBVIOUS
      <4>1. t[q].is = "link" /\ ~Followed(t, q)
        OBVIOUS
      <4>2. o = [at |-> <<>>, rest |-> t[q].to \o Tail(v.rest), links |-> v.links - 1]
        BY <3>2, <4>1 DEF Onward
      <4>3. Tail(v.rest) \in Seq(Names)
        BY <2>2, WalkParts DEF Goes
      <4>4. v.links - 1 \in 0 .. MaxLinks
        BY <3>1, <4>2 DEF Walks
      <4>5. Walk(t, [at |-> <<>>, rest |-> t[q].to \o Tail(v.rest), links |-> v.links - 1]).got = "found"
        BY <3>1, <4>2
      <4> QED BY <4>1, <4>3, <4>4, <4>5 DEF Followed
    <3>4. Alike(t[q], u[q])
      BY <3>2, <3>3 DEF KeepsBut
    <3>5. Goes(u, v) /\ Onward(u, v) = o
      BY <2>2, <3>2, <3>4 DEF Alike, Goes, Onward
    <3> HIDE DEF q, o
    <3> QED BY <3>1, <3>5, WalkStep
  <2> QED BY <2>1, <2>2
<1> HIDE DEF S
<1>2. Walks \subseteq S
  BY <1>1, WalkInd
<1> QED BY <1>2 DEF S

(* With more links to follow, a walk ends as it did, unless it was refused. *)
LEMMA WalkWithMore ==
  ASSUME NEW t, Tried(t), NEW w \in Walks, NEW k \in w.links .. MaxLinks
  PROVE  Walk(t, w).got = "fault" \/ Walk(t, [w EXCEPT !.links = k]) = Walk(t, w)
<1> DEFINE More(v, j) == [at |-> v.at, rest |-> v.rest, links |-> j]
           S == {v \in Walks : \A j \in v.links .. MaxLinks :
                   Walk(t, v).got = "fault" \/ Walk(t, More(v, j)) = Walk(t, v)}
<1>1. ASSUME NEW v \in Walks, Goes(t, v) => Onward(t, v) \in S PROVE v \in S
  <2> SUFFICES ASSUME NEW j \in v.links .. MaxLinks, Walk(t, v).got # "fault"
               PROVE  Walk(t, More(v, j)) = Walk(t, v)
    OBVIOUS
  <2> DEFINE m == More(v, j)
  <2>0. m \in Walks /\ v.links \in Nat /\ j \in Nat /\ m.at = v.at /\ m.rest = v.rest /\ m.links = j
        /\ Looked(m) = Looked(v) /\ MaxLinks \in Nat
    BY WalkParts, ConfTreeAssumption DEF Walks, Looked
  <2>1. CASE ~Goes(t, v)
    <3>1. Verdict(t, v).got # "fault"
      BY <2>1, WalkStep
    <3>2. ~Goes(t, m) /\ Verdict(t, m) = Verdict(t, v)
      BY <2>0, <2>1, <3>1 DEF Goes, Verdict
    <3> QED BY <2>0, <2>1, <3>2, WalkStep
  <2>2. CASE Goes(t, v)
    <3> DEFINE o == Onward(t, v)
    <3>1. o \in Walks /\ o \in S /\ Walk(t, v) = Walk(t, o)
      BY <1>1, <2>2, OnwardWalk, WalkStep
    <3>2. Goes(t, m)
      BY <2>0, <2>2 DEF Goes
    <3>3. \E i \in o.links .. MaxLinks : Onward(t, m) = More(o, i)
      <4>1. CASE At(t, Looked(v)).is = "link"
        <5>1. /\ o = [at |-> <<>>, rest |-> At(t, Looked(v)).to \o Tail(v.rest), links |-> v.links - 1]
              /\ Onward(t, m) = [at |-> <<>>, rest |-> At(t, Looked(v)).to \o Tail(v.rest), links |-> j - 1]
          BY <2>0, <4>1 DEF Onward
        <5>2. v.links > 0
          BY <2>2, <4>1 DEF Goes
        <5>3. j - 1 \in v.links - 1 .. MaxLinks
          BY <2>0, <5>2
        <5> HIDE DEF o, m
        <5> QED BY <5>1, <5>3
      <4>2. CASE At(t, Looked(v)).is # "link"
        <5>1. /\ o = [at |-> Looked(v), rest |-> Tail(v.rest), links |-> v.links]
              /\ Onward(t, m) = [at |-> Looked(v), rest |-> Tail(v.rest), links |-> j]
          BY <2>0, <4>2 DEF Onward
        <5> HIDE DEF o, m
        <5> QED BY <5>1
      <4> QED BY <4>1, <4>2
    <3> HIDE DEF o, m
    <3> QED BY <2>0, <3>1, <3>2, <3>3, WalkStep DEF m
  <2> QED BY <2>1, <2>2
<1>2. Walks \subseteq S
  <2> HIDE DEF S
  <2> QED BY <1>1, WalkInd
<1>3. [w EXCEPT !.links = k] = More(w, k)
  BY WalkParts
<1> QED BY <1>2, <1>3

-----------------------------------------------------------------------------
(* Paths: what they lead to, and the place of their entry.                 *)

(* A tree is a directory that is rooted.                                    *)
LEMMA TreeTried == \A t \in Tree : Tried(t) /\ Rooted(t)
BY DEF Tree, Tried

(* The parts of a path.                                                     *)
LEMMA PathParts ==
  ASSUME NEW p \in Seq(Names), p # <<>>
  PROVE  /\ Front(p) \in Seq(Names) /\ Last(p) \in Names /\ <<Last(p)>> \in Seq(Names)
         /\ p = Append(Front(p), Last(p)) /\ p = Front(p) \o <<Last(p)>>
         /\ Len(p) \in Nat /\ Len(p) >= 1 /\ Len(Front(p)) = Len(p) - 1
<1>1. PICK s \in Seq(Names), x \in Names : p = Append(s, x)
  BY SequenceEmptyOrAppend
<1>2. Len(p) = Len(s) + 1 /\ Len(s) \in Nat /\ p[Len(p)] = x
  BY <1>1
<1>3. SubSeq(p, 1, Len(p) - 1) = s
  <2>1. SubSeq(p, 1, Len(s)) = SubSeq(s, 1, Len(s))
    BY <1>1, <1>2
  <2> QED BY <1>2, <2>1, SubSeqFull
<1>4. Front(p) = s /\ Last(p) = x
  BY <1>2, <1>3 DEF Front, Last
<1>5. Append(s, x) = s \o <<x>> /\ <<x>> \in Seq(Names)
  BY AppendIsConcat
<1> QED BY <1>1, <1>2, <1>4, <1>5

(* The parts of a path with one more name.                                  *)
LEMMA AppendParts ==
  ASSUME NEW d \in Seq(Names), NEW x \in Names
  PROVE  /\ Append(d, x) \in Seq(Names) /\ Append(d, x) # <<>>
         /\ Front(Append(d, x)) = d /\ Last(Append(d, x)) = x
         /\ Len(Append(d, x)) = Len(d) + 1 /\ Len(d) \in Nat
<1>1. Append(d, x) \in Seq(Names) /\ Append(d, x) # <<>> /\ Len(Append(d, x)) = Len(d) + 1 /\ Len(d) \in Nat
  BY AppendProperties
<1>2. Append(d, x) = Append(Front(Append(d, x)), Last(Append(d, x)))
      /\ Front(Append(d, x)) \in Seq(Names) /\ Last(Append(d, x)) \in Names
  BY <1>1, PathParts
<1>3. Front(Append(d, x)) = d /\ Last(Append(d, x)) = x
  BY <1>2, AppendInjective
<1> QED BY <1>1, <1>3

(* Where the walk begins.                                                   *)
LEMMA StartWalk ==
  ASSUME NEW t, NEW p \in Seq(Names)
  PROVE  Start(p) \in Walks /\ Standing(t, Start(p)) /\ IsPlaceOfDir(t, Start(p).at)
         /\ EvalSymlinks(t, p) = Walk(t, Start(p))
<1>1. MaxLinks \in 0 .. MaxLinks /\ <<>> \in Seq(Names)
  BY ConfTreeAssumption
<1> QED BY <1>1, EvalIsWalk DEF Start, Walks, Standing, IsPlaceOfDir, Walk

(* What a path that is found leads to.                                      *)
LEMMA Found ==
  ASSUME NEW t, Tried(t), NEW p \in Seq(Names)
  PROVE  /\ EvalSymlinks(t, p).got \in {"found", "missing", "fault"}
         /\ Finds(t, p) => Leads(t, Target(t, p))
         /\ IsDir(t, p) <=> Finds(t, p) /\ IsPlaceOfDir(t, Target(t, p))
         /\ IsFile(t, p) => Target(t, p) \in Path /\ t[Target(t, p)].is = "file"
         /\ Finds(t, p) => IsDir(t, p) \/ IsFile(t, p)
         /\ IsFile(t, p) => ~IsDir(t, p)
<1>1. EvalSymlinks(t, p).got \in {"found", "missing", "fault"}
  BY StartWalk, WalkGot
<1>2. Finds(t, p) => Leads(t, Target(t, p))
  BY StartWalk, WalkLeads DEF Finds, Target
<1>3. <<>> \notin Path
  BY PathSeq
<1>4. Dir.is = "dir"
  BY DEF Dir
<1> QED BY <1>1, <1>2, <1>3, <1>4 DEF Leads, IsPlaceOfDir, IsDir, IsFile

(* Where everything is kept, what was found is found.                       *)
LEMMA FoundKept ==
  ASSUME NEW t, Tried(t), NEW u, Tried(u), KeepsBut(t, u, {}), NEW p \in Seq(Names), Finds(t, p)
  PROVE  /\ Finds(u, p) /\ Target(u, p) = Target(t, p)
         /\ IsDir(t, p) => IsDir(u, p)
         /\ IsFile(t, p) => IsFile(u, p)
<1>1. EvalSymlinks(u, p) = EvalSymlinks(t, p)
  BY StartWalk, WalkKept DEF Finds
<1>2. Finds(u, p) /\ Target(u, p) = Target(t, p)
  BY <1>1 DEF Finds, Target
<1>3. ASSUME NEW q \in Path, t[q].is # "none" PROVE Alike(t[q], u[q])
  BY <1>3 DEF KeepsBut
<1>4. IsDir(t, p) => IsDir(u, p)
  <2>1. Target(t, p) \in Path /\ t[Target(t, p)] = Dir => u[Target(t, p)] = Dir
    BY <1>3 DEF Alike, Dir
  <2> QED BY <1>2, <2>1, Found DEF IsPlaceOfDir
<1>5. IsFile(t, p) => IsFile(u, p)
  <2>1. Target(t, p) \in Path /\ t[Target(t, p)].is = "file" => u[Target(t, p)].is = "file"
    BY <1>3 DEF Alike
  <2> QED BY <1>2, <2>1, Found DEF IsFile
<1> QED BY <1>2, <1>4, <1>5

(* The one name a path has left once its parent is found.                   *)
LEMMA LastName ==
  ASSUME NEW t, Tried(t), NEW p \in Seq(Names), p # <<>>
  PROVE  /\ IsDir(t, Front(p)) =>
              \E l \in 0 .. MaxLinks :
                EvalSymlinks(t, p) = Walk(t, [at |-> Target(t, Front(p)), rest |-> <<Last(p)>>, links |-> l])
         /\ Finds(t, p) => IsDir(t, Front(p))
<1> DEFINE f == Front(p)
           s == <<Last(p)>>
<1>1. f \in Seq(Names) /\ s \in Seq(Names) /\ p = f \o s /\ s # <<>>
  BY PathParts
<1> HIDE DEF f, s
<1>2. Ongoing(t, Start(f), s) /\ And(Start(f), s) = Start(p) /\ Start(f).links = MaxLinks
  BY <1>1, WalkGoesOn, StartWalk DEF Start, And
<1>3. EvalSymlinks(t, p) = Walk(t, Start(p)) /\ EvalSymlinks(t, f) = Walk(t, Start(f))
      /\ IsPlaceOfDir(t, Start(f).at)
  BY <1>1, StartWalk
<1>4. IsDir(t, f) <=> EvalSymlinks(t, f).got = "found" /\ IsPlaceOfDir(t, EvalSymlinks(t, f).at)
  BY <1>1, Found DEF Finds, Target
<1> QED BY <1>1, <1>2, <1>3, <1>4 DEF Ongoing, Finds, Target, f, s

(* What is at the place a path names decides what the path leads to.        *)
LEMMA OneName ==
  ASSUME NEW t, Tried(t), NEW d \in Seq(Names), NEW x \in Names, NEW l \in 0 .. MaxLinks
  PROVE  LET q == Append(d, x)
             w == [at |-> d, rest |-> <<x>>, links |-> l]
         IN /\ w \in Walks
            /\ q \notin Path \/ t[q] = None => Walk(t, w).got = "missing"
            /\ q \in Path /\ t[q].is \in {"dir", "file"} => Walk(t, w) = [got |-> "found", at |-> q]
            /\ q \in Path /\ t[q].is = "link" =>
                 \/ Walk(t, w).got = "fault"
                 \/ \E k \in 0 .. MaxLinks : Walk(t, w) = Walk(t, [at |-> <<>>, rest |-> t[q].to, links |-> k])
<1> DEFINE q == Append(d, x)
           w == [at |-> d, rest |-> <<x>>, links |-> l]
           o == [at |-> q, rest |-> <<>>, links |-> l]
<1>1. w \in Walks /\ Looked(w) = q /\ w.rest # <<>> /\ Tail(w.rest) = <<>> /\ w.links = l
  BY DEF Walks, Looked
<1>2. q \in Seq(Names)
  BY AppendProperties
<1>3. o \in Walks /\ ~Goes(t, o) /\ Verdict(t, o) = [got |-> "found", at |-> q]
  BY <1>2 DEF Walks, Goes, Verdict
<1>4. Walk(t, o) = [got |-> "found", at |-> q]
  BY <1>3, WalkStep
<1>5. ASSUME q \notin Path \/ t[q] = None PROVE Walk(t, w).got = "missing"
  <2>1. At(t, q).is = "none"
    BY <1>5 DEF At, None
  <2>2. ~Goes(t, w) /\ Verdict(t, w).got = "missing"
    BY <1>1, <2>1 DEF Goes, Verdict
  <2> QED BY <1>1, <2>2, WalkStep
<1>6. ASSUME q \in Path, t[q].is \in {"dir", "file"} PROVE Walk(t, w) = [got |-> "found", at |-> q]
  <2>1. Goes(t, w) /\ Onward(t, w) = o
    BY <1>1, <1>6 DEF At, Goes, Onward
  <2> HIDE DEF o, w
  <2> QED BY <1>1, <1>4, <2>1, WalkStep
<1>7. ASSUME q \in Path, t[q].is = "link", Walk(t, w).got # "fault"
      PROVE  \E k \in 0 .. MaxLinks : Walk(t, w) = Walk(t, [at |-> <<>>, rest |-> t[q].to, links |-> k])
  <2>1. At(t, q) = t[q] /\ At(t, Looked(w)) = t[q]
    BY <1>1, <1>7 DEF At
  <2>2. Goes(t, w)
    <3> SUFFICES ASSUME ~Goes(t, w) PROVE FALSE
      OBVIOUS
    <3>1. Walk(t, w) = Verdict(t, w)
      BY <1>1, WalkStep
    <3>2. Verdict(t, w).got = "fault"
      BY <1>1, <1>7, <2>1 DEF Verdict
    <3> QED BY <1>7, <3>1, <3>2
  <2>3. t[q].to \in Seq(Names)
    <3>1. t[q] \in Entry
      BY <1>7 DEF Tried
    <3>2. t[q].to \in Path \cup {<<>>}
      BY <1>7, <3>1, EntryKinds
    <3>3. <<>> \in Seq(Names)
      OBVIOUS
    <3> HIDE DEF q
    <3> QED BY <3>2, <3>3, PathSeq
  <2>4. l - 1 \in 0 .. MaxLinks
    <3>1. l > 0
      BY <1>1, <1>7, <2>1, <2>2 DEF Goes
    <3> QED BY <3>1, ConfTreeAssumption
  <2>5. Onward(t, w) = [at |-> <<>>, rest |-> t[q].to, links |-> l - 1]
    <3>1. Onward(t, w) = [at |-> <<>>, rest |-> t[q].to \o Tail(w.rest), links |-> l - 1]
      BY <1>1, <1>7, <2>1 DEF Onward
    <3>2. t[q].to \o Tail(w.rest) = t[q].to
      BY <1>1, <2>3, ConcatEmptySeq
    <3> HIDE DEF q, w
    <3> QED BY <3>1, <3>2
  <2>6. Walk(t, w) = Walk(t, Onward(t, w))
    BY <1>1, <2>2, WalkStep
  <2> HIDE DEF q, w
  <2> QED BY <2>4, <2>5, <2>6
<1> HIDE DEF q, w
<1>8. t[q].is = "link" /\ q \in Path =>
        \/ Walk(t, w).got = "fault"
        \/ \E k \in 0 .. MaxLinks : Walk(t, w) = Walk(t, [at |-> <<>>, rest |-> t[q].to, links |-> k])
  BY <1>7
<1> QED BY <1>1, <1>5, <1>6, <1>8 DEF q, w

(* The entry a path names, and the place it is at.                          *)
LEMMA AtPlace ==
  ASSUME NEW t, Tried(t), NEW p \in Seq(Names), p # <<>>, HasPlace(t, p)
  PROVE  /\ Place(t, p) \in Path /\ Front(Place(t, p)) = Target(t, Front(p))
         /\ IsPlaceOfDir(t, Front(Place(t, p))) /\ Last(Place(t, p)) = Last(p)
         /\ Lstat(t, p) = t[Place(t, p)]
         /\ t[Place(t, p)] = None => EvalSymlinks(t, p).got = "missing"
         /\ t[Place(t, p)].is \in {"dir", "file"} => EvalSymlinks(t, p) = [got |-> "found", at |-> Place(t, p)]
         /\ t[Place(t, p)].is = "link" =>
              \/ EvalSymlinks(t, p).got = "fault"
              \/ \E k \in 0 .. MaxLinks :
                   EvalSymlinks(t, p) = Walk(t, [at |-> <<>>, rest |-> t[Place(t, p)].to, links |-> k])
<1> DEFINE d == Target(t, Front(p))
           x == Last(p)
           q == Place(t, p)
<1>1. Front(p) \in Seq(Names) /\ x \in Names
  BY PathParts
<1>2. IsDir(t, Front(p)) /\ q = Append(d, x) /\ q \in Path
  BY DEF HasPlace, Place
<1>3. IsPlaceOfDir(t, d)
  BY <1>1, <1>2, Found
<1>4. d \in Seq(Names)
  <2>1. <<>> \in Seq(Names)
    OBVIOUS
  <2> QED BY <1>3, <2>1, PathSeq DEF IsPlaceOfDir
<1>5. Front(q) = d /\ Last(q) = x
  BY <1>1, <1>2, <1>4, AppendParts
<1>6. PICK l \in 0 .. MaxLinks : EvalSymlinks(t, p) = Walk(t, [at |-> d, rest |-> <<x>>, links |-> l])
  BY <1>2, LastName
<1>7. Lstat(t, p) = t[q]
  BY DEF Lstat
<1> DEFINE e == EvalSymlinks(t, p)
<1> HIDE DEF d, x, q, e
<1>8. /\ t[q] = None => e.got = "missing"
      /\ t[q].is \in {"dir", "file"} => e = [got |-> "found", at |-> q]
      /\ t[q].is = "link" =>
           e.got = "fault" \/ \E k \in 0 .. MaxLinks : e = Walk(t, [at |-> <<>>, rest |-> t[q].to, links |-> k])
  <2> DEFINE w == [at |-> d, rest |-> <<x>>, links |-> l]
  <2>1. /\ q \notin Path \/ t[q] = None => Walk(t, w).got = "missing"
        /\ q \in Path /\ t[q].is \in {"dir", "file"} => Walk(t, w) = [got |-> "found", at |-> q]
        /\ q \in Path /\ t[q].is = "link" =>
             \/ Walk(t, w).got = "fault"
             \/ \E k \in 0 .. MaxLinks : Walk(t, w) = Walk(t, [at |-> <<>>, rest |-> t[q].to, links |-> k])
    BY <1>1, <1>2, <1>4, OneName
  <2>2. e = Walk(t, w) /\ q \in Path
    BY <1>2, <1>6 DEF e
  <2> HIDE DEF w
  <2> QED BY <2>1, <2>2
<1> QED BY <1>2, <1>3, <1>5, <1>7, <1>8 DEF d, x, q, e

(* A path that is found has a place.                                        *)
LEMMA FoundHasPlace ==
  ASSUME NEW t, Tried(t), NEW p \in Seq(Names), p # <<>>, Finds(t, p)
  PROVE  HasPlace(t, p)
<1> DEFINE d == Target(t, Front(p))
           x == Last(p)
<1>1. Front(p) \in Seq(Names) /\ x \in Names /\ IsDir(t, Front(p))
  BY PathParts, LastName
<1>2. d \in Seq(Names)
  <2>1. <<>> \in Seq(Names)
    OBVIOUS
  <2> QED BY <1>1, <2>1, PathSeq, Found DEF IsPlaceOfDir
<1>3. PICK l \in 0 .. MaxLinks : EvalSymlinks(t, p) = Walk(t, [at |-> d, rest |-> <<x>>, links |-> l])
  BY <1>1, LastName
<1>4. Append(d, x) \in Path
  BY <1>1, <1>2, <1>3, OneName DEF Finds
<1> QED BY <1>1, <1>4 DEF HasPlace

(* A directory or a file is found where it is.                              *)
LEMMA RealPath ==
  ASSUME NEW t \in Tree, NEW p \in Seq(Names), Leads(t, p)
  PROVE  EvalSymlinks(t, p) = [got |-> "found", at |-> p]
<1>0. Tried(t) /\ Rooted(t)
  BY TreeTried
<1> DEFINE S == {n \in Nat : \A q \in Seq(Names) : Len(q) = n /\ Leads(t, q) => EvalSymlinks(t, q) = [got |-> "found", at |-> q]}
<1>1. 0 \in S
  <2>1. ASSUME NEW q \in Seq(Names), Len(q) = 0 PROVE EvalSymlinks(t, q) = [got |-> "found", at |-> q]
    <3>1. q = <<>>
      BY <2>1
    <3>2. ~Goes(t, Start(q)) /\ Verdict(t, Start(q)) = [got |-> "found", at |-> <<>>]
      BY <3>1 DEF Goes, Verdict, Start
    <3> QED BY <1>0, <3>1, <3>2, StartWalk, WalkStep
  <2> QED BY <2>1
<1>2. ASSUME NEW n \in Nat, n \in S PROVE n + 1 \in S
  <2>1. ASSUME NEW q \in Seq(Names), Len(q) = n + 1, Leads(t, q)
        PROVE  EvalSymlinks(t, q) = [got |-> "found", at |-> q]
    <3> DEFINE f == Front(q)
    <3>1. q # <<>> /\ f \in Seq(Names) /\ Len(f) = n /\ q = Append(f, Last(q))
      <4>1. q # <<>>
        BY <2>1
      <4>2. f \in Seq(Names) /\ Len(f) = Len(q) - 1 /\ q = Append(f, Last(q))
        BY <4>1, PathParts
      <4> QED BY <2>1, <4>1, <4>2
    <3>2. q \in Path /\ t[q].is \in {"dir", "file"} /\ t[q] # None
      BY <2>1, <3>1 DEF Leads, IsPlaceOfDir, Dir, None
    <3>3. IsPlaceOfDir(t, f)
      <4>1. CASE Len(q) > 1
        <5>1. t[f] = Dir
          BY <1>0, <3>2, <4>1 DEF Rooted
        <5>2. f \in Path
          <6>1. Len(f) \in 1 .. MaxDepth
            BY <2>1, <3>1, <3>2, <4>1, PathSeq, ConfTreeAssumption
          <6> QED BY <3>1, <6>1, PathSeq
        <5> QED BY <5>1, <5>2 DEF IsPlaceOfDir
      <4>2. CASE ~(Len(q) > 1)
        <5>1. Len(f) = 0
          BY <2>1, <3>1, <4>2
        <5> QED BY <3>1, <5>1 DEF IsPlaceOfDir
      <4> QED BY <4>1, <4>2
    <3>4. EvalSymlinks(t, f) = [got |-> "found", at |-> f]
      BY <1>2, <3>1, <3>3 DEF Leads
    <3>5. IsDir(t, f) /\ Target(t, f) = f
      BY <1>0, <3>1, <3>3, <3>4, Found DEF Finds, Target
    <3>6. HasPlace(t, q) /\ Place(t, q) = q
      BY <3>1, <3>2, <3>5 DEF HasPlace, Place
    <3> QED BY <1>0, <3>1, <3>2, <3>6, AtPlace
  <2> QED BY <2>1
<1> HIDE DEF S
<1>3. Nat \subseteq S
  BY <1>1, <1>2, NatInd
<1>4. Len(p) \in Nat
  OBVIOUS
<1> QED BY <1>3, <1>4 DEF S

-----------------------------------------------------------------------------
(* Above and below.                                                        *)

(* Above and below.                                                         *)
LEMMA UnderIs ==
  ASSUME NEW p \in Seq(Names), NEW q \in Seq(Names)
  PROVE  Under(p, q) <=> Len(p) <= Len(q) /\ \A i \in 1 .. Len(p) : p[i] = q[i]
<1>1. Len(p) \in Nat /\ Len(q) \in Nat
  OBVIOUS
<1>2. ASSUME Len(p) <= Len(q)
      PROVE  SubSeq(p, 1, Len(p)) = SubSeq(q, 1, Len(p)) <=> \A i \in 1 .. Len(p) : p[i] = q[i]
  <2> DEFINE s == SubSeq(q, 1, Len(p))
  <2>1. SubSeq(p, 1, Len(p)) = p
    BY SubSeqFull
  <2>2. s \in Seq(Names) /\ Len(s) = Len(p) /\ \A i \in 1 .. Len(p) : s[i] = q[i]
    <3>1. \A i \in 1 .. Len(p) : q[i] \in Names
      BY <1>1, <1>2
    <3>2. /\ s \in Seq(Names) /\ Len(s) = IF 1 <= Len(p) THEN Len(p) - 1 + 1 ELSE 0
          /\ \A i \in 1 .. Len(p) - 1 + 1 : s[i] = q[1 + i - 1]
      BY <1>1, <3>1, SubSeqProperties
    <3> HIDE DEF s
    <3> QED BY <1>1, <3>2
  <2> HIDE DEF s
  <2>3. (\A i \in 1 .. Len(p) : p[i] = q[i]) => s = p
    BY <2>2, SeqEqual
  <2> QED BY <2>1, <2>2, <2>3 DEF s
<1> QED BY <1>2 DEF Under, IsPrefix

(* Being below is an order, and what is above a path is in a line.          *)
LEMMA UnderOrder ==
  ASSUME NEW p \in Seq(Names), NEW q \in Seq(Names)
  PROVE  /\ Under(p, p)
         /\ Under(p, q) /\ Under(q, p) => p = q
         /\ Under(p, q) /\ p # q => Len(p) < Len(q)
         /\ \A o \in Seq(Names) : Under(p, q) /\ Under(q, o) => Under(p, o)
         /\ \A o \in Seq(Names) : Under(p, o) /\ Under(q, o) => Under(p, q) \/ Under(q, p)
<1>1. Len(p) \in Nat /\ Len(q) \in Nat
  OBVIOUS
<1>2. Under(p, p)
  BY UnderIs
<1>3. ASSUME Under(p, q), Len(p) >= Len(q) PROVE p = q
  <2>1. Len(p) = Len(q) /\ \A i \in 1 .. Len(p) : p[i] = q[i]
    BY <1>1, <1>3, UnderIs
  <2> QED BY <2>1, SeqEqual
<1>4. Under(p, q) /\ Under(q, p) => p = q
  BY <1>1, <1>3, UnderIs
<1>5. Under(p, q) /\ p # q => Len(p) < Len(q)
  BY <1>1, <1>3
<1>6. ASSUME NEW o \in Seq(Names), Under(p, q), Under(q, o) PROVE Under(p, o)
  BY <1>1, <1>6, UnderIs
<1>7. ASSUME NEW o \in Seq(Names), Under(p, o), Under(q, o) PROVE Under(p, q) \/ Under(q, p)
  BY <1>1, <1>7, UnderIs
<1> QED BY <1>2, <1>4, <1>5, <1>6, <1>7

(* What is below a directory has its parent there too.                      *)
LEMMA UnderFront ==
  ASSUME NEW p \in Seq(Names), NEW q \in Seq(Names), q # <<>>
  PROVE  /\ Under(p, Front(q)) => Under(p, q) /\ p # q
         /\ Under(p, q) /\ p # q => Under(p, Front(q))
<1> DEFINE f == Front(q)
<1>1. f \in Seq(Names) /\ Len(f) = Len(q) - 1 /\ Len(q) >= 1 /\ Len(q) \in Nat /\ Len(p) \in Nat
      /\ q = Append(f, Last(q)) /\ Last(q) \in Names
  <2>1. Len(p) \in Nat
    OBVIOUS
  <2>2. f \in Seq(Names) /\ Len(f) = Len(q) - 1 /\ Len(q) >= 1 /\ Len(q) \in Nat
        /\ q = Append(f, Last(q)) /\ Last(q) \in Names
    BY PathParts
  <2> QED BY <2>1, <2>2
<1>2. \A i \in 1 .. Len(f) : f[i] = q[i]
  <2> HIDE DEF f
  <2>1. \A i \in 1 .. Len(f) : Append(f, Last(q))[i] = f[i]
    BY <1>1, AppendProperties
  <2> QED BY <1>1, <2>1
<1> HIDE DEF f
<1>3. ASSUME Under(p, f) PROVE Under(p, q) /\ p # q
  <2>1. Len(p) <= Len(f) /\ \A i \in 1 .. Len(p) : p[i] = f[i]
    BY <1>1, <1>3, UnderIs
  <2>2. \A i \in 1 .. Len(p) : i \in 1 .. Len(f)
    BY <1>1, <2>1
  <2> QED BY <1>1, <1>2, <2>1, <2>2, UnderIs
<1>4. ASSUME Under(p, q), p # q PROVE Under(p, f)
  <2>1. Len(p) < Len(q) /\ \A i \in 1 .. Len(p) : p[i] = q[i]
    BY <1>4, UnderOrder, UnderIs
  <2>2. \A i \in 1 .. Len(p) : i \in 1 .. Len(f)
    BY <1>1, <2>1
  <2> QED BY <1>1, <1>2, <2>1, <2>2, UnderIs
<1> QED BY <1>3, <1>4 DEF f

(* The parent of a path.                                                    *)
LEMMA PathFront ==
  ASSUME NEW q \in Path
  PROVE  /\ q \in Seq(Names) /\ q # <<>> /\ Front(q) \in Seq(Names) /\ Front(q) # q
         /\ Len(q) > 1 => Front(q) \in Path
         /\ Len(q) > 1 <=> Front(q) # <<>>
<1>1. q \in Seq(Names) /\ Len(q) \in 1 .. MaxDepth /\ q # <<>>
  BY PathSeq
<1>2. Front(q) \in Seq(Names) /\ Len(Front(q)) = Len(q) - 1
  BY <1>1, PathParts
<1>3. Len(q) > 1 => Front(q) \in Path
  <2>1. Len(q) > 1 => Len(q) - 1 \in 1 .. MaxDepth
    BY <1>1, ConfTreeAssumption
  <2> QED BY <1>2, <2>1, PathSeq
<1>4. Len(q) > 1 <=> Front(q) # <<>>
  <2>1. \A s \in Seq(Names) : s = <<>> <=> Len(s) = 0
    OBVIOUS
  <2> QED BY <1>1, <1>2, <2>1
<1> QED BY <1>1, <1>2, <1>3, <1>4

(* Below what is no directory there is nothing.                             *)
LEMMA NothingBelow ==
  ASSUME NEW t \in Tree, NEW q \in Path, t[q] # Dir, NEW o \in Path, Under(q, o), o # q
  PROVE  t[o] = None
<1> DEFINE S == {n \in Nat : \A r \in Path : Len(r) = n /\ Under(q, r) /\ r # q => t[r] = None}
<1>1. 0 \in S
  BY PathSeq
<1>2. ASSUME NEW n \in Nat, n \in S PROVE n + 1 \in S
  <2>1. ASSUME NEW r \in Path, Len(r) = n + 1, Under(q, r), r # q PROVE t[r] = None
    <3>1. q \in Seq(Names) /\ r \in Seq(Names) /\ r # <<>> /\ Front(r) \in Seq(Names)
      BY PathFront
    <3>2. Under(q, Front(r)) /\ Len(Front(r)) = n
      <4>1. Under(q, Front(r)) /\ Len(Front(r)) = Len(r) - 1
        BY <2>1, <3>1, UnderFront, PathParts
      <4> QED BY <2>1, <4>1
    <3>3. Len(r) > 1
      <4>1. Len(q) >= 1 /\ Len(q) < Len(r) /\ Len(q) \in Nat /\ Len(r) \in Nat
        BY <2>1, <3>1, UnderOrder, PathSeq
      <4> QED BY <4>1
    <3>4. Front(r) \in Path
      BY <3>3, PathFront
    <3>5. t[Front(r)] # Dir
      <4>1. CASE Front(r) = q
        BY <4>1
      <4>2. CASE Front(r) # q
        BY <1>2, <3>2, <3>4, <4>2 DEF None, Dir
      <4> QED BY <4>1, <4>2
    <3> QED BY <3>3, <3>5, TreeTried DEF Rooted
  <2> QED BY <2>1
<1> HIDE DEF S
<1>3. Nat \subseteq S
  BY <1>1, <1>2, NatInd
<1>4. Len(o) \in Nat
  BY PathSeq
<1> QED BY <1>3, <1>4 DEF S

(* Every entry is in a directory.                                           *)
LEMMA InDirectory ==
  ASSUME NEW t \in Tree, NEW q \in Path, t[q] # None
  PROVE  IsPlaceOfDir(t, Front(q))
BY TreeTried, PathFront DEF Rooted, IsPlaceOfDir

(* A tree stays one when an entry is put in a directory, none taken from    *)
(* under its own.                                                           *)
LEMMA PutRooted ==
  ASSUME NEW t \in Tree, NEW q \in Path, NEW e \in Entry,
         e # None => IsPlaceOfDir(t, Front(q)), t[q] = Dir => e = Dir
  PROVE  Put(t, q, e) \in Tree
<1> DEFINE u == Put(t, q, e)
<1>1. t \in [Path -> Entry]
  BY DEF Tree
<1>2. u \in [Path -> Entry] /\ \A o \in Path : u[o] = IF o = q THEN e ELSE t[o]
  BY <1>1 DEF Put
<1> HIDE DEF u
<1>3. ASSUME NEW o \in Path, Len(o) > 1, u[o] # None PROVE u[Front(o)] = Dir
  <2>1. Front(o) \in Path /\ Front(o) # o /\ Front(o) # <<>>
    BY <1>3, PathFront
  <2>2. CASE o = q
    BY <1>2, <1>3, <2>1, <2>2 DEF IsPlaceOfDir
  <2>3. CASE o # q
    <3>1. t[Front(o)] = Dir
      BY <1>2, <1>3, <2>3, TreeTried DEF Rooted
    <3> QED BY <1>2, <2>1, <3>1
  <2> QED BY <2>2, <2>3
<1> QED BY <1>2, <1>3 DEF Tree, Rooted, u

-----------------------------------------------------------------------------
(* Directories that are made: os.MkdirAll.                                 *)

(* What is left of the tree t after directories were made: nothing is lost. *)
Extends(t, u) == \A q \in Path : u[q] = t[q] \/ (t[q] = None /\ u[q] = Dir)

(* What was found before directories were made is found after.              *)
LEMMA ExtendsKeeps == ASSUME NEW t, NEW u, Tried(t), Extends(t, u) PROVE KeepsBut(t, u, {})
BY DEF Extends, KeepsBut, Alike, None

(* A directory that was made: there is nothing below it.                    *)
Fresh(t, u, d) ==
  /\ d \in Path /\ t[d] = None /\ u[d] = Dir
  /\ \A q \in Path : Under(d, q) /\ q # d => u[q] = None

Make(done, dir) ==
  CASE ~done.ok \/ IsDir(done.tree, dir) -> done
    [] done.ok /\ ~Finds(done.tree, dir) /\ HasPlace(done.tree, dir)
         /\ Lstat(done.tree, dir) = None ->
         Leaves(TRUE, Put(done.tree, Place(done.tree, dir), Dir))
    [] OTHER -> Leaves(FALSE, done.tree)

MadeOf(t, p) ==
  LET made[n \in Nat] ==
        IF n = 0 THEN Leaves(TRUE, t)
        ELSE LET done == made[n - 1]
                 dir  == SubSeq(p, 1, n)
             IN CASE ~done.ok \/ IsDir(done.tree, dir) -> done
                  [] done.ok /\ ~Finds(done.tree, dir) /\ HasPlace(done.tree, dir)
                       /\ Lstat(done.tree, dir) = None ->
                       Leaves(TRUE, Put(done.tree, Place(done.tree, dir), Dir))
                  [] OTHER -> Leaves(FALSE, done.tree)
  IN made

(* MkdirAll is the last of the steps it is made of.                         *)
LEMMA MkdirAllIsMade == ASSUME NEW t, NEW p PROVE MkdirAll(t, p) = MadeOf(t, p)[Len(p)]
BY DEF MkdirAll, MadeOf

(* The function MkdirAll defines, by what it is chosen for.                 *)
LEMMA MadeChosen ==
  ASSUME NEW t, NEW p
  PROVE  MadeOf(t, p) = CHOOSE f : f = [n \in Nat |-> IF n = 0 THEN Leaves(TRUE, t)
                                                      ELSE Make(f[n - 1], SubSeq(p, 1, n))]
BY DEF MadeOf, Make

(* MkdirAll, directory by directory.                                        *)
LEMMA MadeStep ==
  ASSUME NEW t, Tried(t), NEW p
  PROVE  /\ MadeOf(t, p)[0] = Leaves(TRUE, t)
         /\ \A n \in Nat : MadeOf(t, p)[n + 1] = Make(MadeOf(t, p)[n], SubSeq(p, 1, n + 1))
<1> DEFINE X == [ok : BOOLEAN, tree : [Path -> Entry]]
           x0 == Leaves(TRUE, t)
           F == [n \in Nat |-> [d \in X |-> Make(d, SubSeq(p, 1, n + 1))]]
<1>1. x0 \in X
  BY DEF Leaves, Tried
<1>2. ASSUME NEW d \in X, NEW dir PROVE Make(d, dir) \in X
  <2>1. d.ok \in BOOLEAN /\ d.tree \in [Path -> Entry] /\ Dir \in Entry
    BY DEF Entry
  <2>2. Leaves(FALSE, d.tree) \in X
    BY <2>1 DEF Leaves
  <2>3. Put(d.tree, Place(d.tree, dir), Dir) \in [Path -> Entry]
    BY <2>1 DEF Put
  <2>4. Leaves(TRUE, Put(d.tree, Place(d.tree, dir), Dir)) \in X
    BY <2>3 DEF Leaves
  <2> HIDE DEF X
  <2> QED BY <2>2, <2>4 DEF Make
<1>3. F \in [Nat -> [X -> X]]
  <2> HIDE DEF X
  <2> QED BY <1>2
<1>4. PICK f : Iterates(f, X, x0, F)
  <2> HIDE DEF X, x0, F
  <2> QED BY <1>1, <1>3, NatRec
<1>5. \A n \in Nat : f[n + 1] = Make(f[n], SubSeq(p, 1, n + 1))
  <2> SUFFICES ASSUME NEW n \in Nat PROVE f[n + 1] = Make(f[n], SubSeq(p, 1, n + 1))
    OBVIOUS
  <2>1. f[n] \in X /\ f[n + 1] = F[n][f[n]]
    BY <1>4 DEF Iterates
  <2> HIDE DEF X
  <2> QED BY <2>1
<1>6. f = [n \in Nat |-> IF n = 0 THEN Leaves(TRUE, t) ELSE Make(f[n - 1], SubSeq(p, 1, n))]
  <2>1. f = [n \in Nat |-> f[n]] /\ f[0] = Leaves(TRUE, t)
    BY <1>4 DEF Iterates
  <2>2. ASSUME NEW n \in Nat, n # 0 PROVE f[n] = Make(f[n - 1], SubSeq(p, 1, n))
    <3>1. n - 1 \in Nat /\ (n - 1) + 1 = n
      BY <2>2
    <3> QED BY <1>5, <3>1
  <2> QED BY <2>1, <2>2
<1> DEFINE g == MadeOf(t, p)
<1>7. g = [n \in Nat |-> IF n = 0 THEN Leaves(TRUE, t) ELSE Make(g[n - 1], SubSeq(p, 1, n))]
  BY <1>6, MadeChosen
<1> HIDE DEF g
<1>8. g[0] = Leaves(TRUE, t)
  BY <1>7
<1>9. \A n \in Nat : g[n + 1] = Make(g[n], SubSeq(p, 1, n + 1))
  <2> SUFFICES ASSUME NEW n \in Nat PROVE g[n + 1] = Make(g[n], SubSeq(p, 1, n + 1))
    OBVIOUS
  <2>1. n + 1 \in Nat /\ n + 1 # 0 /\ (n + 1) - 1 = n
    OBVIOUS
  <2> QED BY <1>7, <2>1
<1> QED BY <1>8, <1>9 DEF g

(* One more directory.                                                      *)
LEMMA MakeOne ==
  ASSUME NEW d, d.ok \in BOOLEAN, d.tree \in Tree, NEW dir \in Seq(Names), dir # <<>>
  PROVE  LET m == Make(d, dir)
             place == Place(d.tree, dir)
         IN /\ m.ok \in BOOLEAN /\ m.tree \in Tree /\ Extends(d.tree, m.tree)
            /\ m.ok => d.ok /\ IsDir(m.tree, dir)
            /\ m.tree # d.tree => /\ d.ok /\ m.ok /\ HasPlace(d.tree, dir) /\ d.tree[place] = None
                                  /\ m.tree = Put(d.tree, place, Dir) /\ Target(m.tree, dir) = place
<1> DEFINE m == Make(d, dir)
           place == Place(d.tree, dir)
           made == Put(d.tree, place, Dir)
<1>1. Tried(d.tree) /\ Rooted(d.tree)
  BY TreeTried
<1>2. CASE ~d.ok \/ IsDir(d.tree, dir)
  <2>1. m = d
    BY <1>2 DEF Make, IsDir
  <2> QED BY <1>2, <2>1 DEF Extends
<1>3. CASE /\ d.ok /\ ~IsDir(d.tree, dir) /\ ~Finds(d.tree, dir) /\ HasPlace(d.tree, dir)
           /\ Lstat(d.tree, dir) = None
  <2>1. m.ok = TRUE /\ m.tree = made
    BY <1>3 DEF Make, Leaves
  <2>2. /\ place \in Path /\ d.tree[place] = None /\ IsPlaceOfDir(d.tree, Front(place))
        /\ IsDir(d.tree, Front(dir)) /\ place = Append(Target(d.tree, Front(dir)), Last(dir))
    BY <1>1, <1>3, AtPlace DEF HasPlace, Place
  <2>3. made \in Tree
    BY <2>2, PutRooted DEF None, Dir, Entry
  <2>4. Tried(made) /\ Extends(d.tree, made) /\ made[place] = Dir
    <3>1. \A q \in Path : made[q] = IF q = place THEN Dir ELSE d.tree[q]
      <4> HIDE DEF place
      <4> QED BY <1>1, <2>2 DEF Put, Tried
    <3> HIDE DEF made, place
    <3> QED BY <2>2, <2>3, <3>1, TreeTried DEF Extends
  <2>5. Front(dir) \in Seq(Names)
    BY PathParts
  <2> HIDE DEF made, place, m
  <2>6. IsDir(made, Front(dir)) /\ Target(made, Front(dir)) = Target(d.tree, Front(dir))
    <3>1. KeepsBut(d.tree, made, {})
      BY <1>1, <2>4, ExtendsKeeps
    <3>2. Finds(d.tree, Front(dir))
      BY <2>2 DEF IsDir
    <3> QED BY <1>1, <2>2, <2>4, <2>5, <3>1, <3>2, FoundKept
  <2>7. HasPlace(made, dir) /\ Place(made, dir) = place
    BY <2>2, <2>6 DEF HasPlace, Place
  <2>8. EvalSymlinks(made, dir) = [got |-> "found", at |-> place]
    BY <2>4, <2>7, AtPlace DEF Dir
  <2>9. IsDir(made, dir) /\ Target(made, dir) = place
    BY <2>4, <2>8 DEF IsDir, Finds, Target
  <2> QED BY <1>3, <2>1, <2>2, <2>3, <2>4, <2>9 DEF m, place, made
<1>4. CASE /\ d.ok /\ ~IsDir(d.tree, dir)
           /\ ~(~Finds(d.tree, dir) /\ HasPlace(d.tree, dir) /\ Lstat(d.tree, dir) = None)
  <2>1. m.ok = FALSE /\ m.tree = d.tree
    BY <1>4 DEF Make, Leaves
  <2> QED BY <2>1 DEF Extends
<1> QED BY <1>2, <1>3, <1>4

(* The first names of a path.                                               *)
LEMMA Prefix ==
  ASSUME NEW p \in Seq(Names), NEW n \in 0 .. Len(p)
  PROVE  /\ SubSeq(p, 1, n) \in Seq(Names) /\ Len(SubSeq(p, 1, n)) = n
         /\ n = 0 => SubSeq(p, 1, n) = <<>>
         /\ n > 0 => SubSeq(p, 1, n) # <<>> /\ Front(SubSeq(p, 1, n)) = SubSeq(p, 1, n - 1)
         /\ n = Len(p) => SubSeq(p, 1, n) = p
<1> DEFINE s == SubSeq(p, 1, n)
<1>1. Len(p) \in Nat /\ n \in Nat
  OBVIOUS
<1>2. s \in Seq(Names) /\ Len(s) = n /\ \A i \in 1 .. n : s[i] = p[i]
  <2>1. \A i \in 1 .. n : p[i] \in Names
    BY <1>1
  <2>2. /\ s \in Seq(Names) /\ Len(s) = IF 1 <= n THEN n - 1 + 1 ELSE 0
        /\ \A i \in 1 .. n - 1 + 1 : s[i] = p[1 + i - 1]
    BY <1>1, <2>1, SubSeqProperties
  <2> HIDE DEF s
  <2> QED BY <1>1, <2>2
<1>3. n = 0 => s = <<>>
  BY SubSeqEmpty
<1>4. ASSUME n > 0 PROVE s # <<>> /\ Front(s) = SubSeq(p, 1, n - 1)
  <2>1. s # <<>>
    BY <1>2, <1>4
  <2>2. n - 1 \in Int /\ n - 1 >= 0
    BY <1>1, <1>4
  <2>3. \A i \in 1 .. n - 1 : p[i] \in Names /\ s[i] \in Names /\ s[i] = p[i]
    BY <1>1, <1>2
  <2> DEFINE x == SubSeq(s, 1, n - 1)
             y == SubSeq(p, 1, n - 1)
  <2>4. /\ x \in Seq(Names) /\ Len(x) = n - 1
        /\ \A i \in 1 .. n - 1 : x[i] = s[i]
    <3>1. /\ x \in Seq(Names) /\ Len(x) = IF 1 <= n - 1 THEN (n - 1) - 1 + 1 ELSE 0
          /\ \A i \in 1 .. (n - 1) - 1 + 1 : x[i] = s[1 + i - 1]
      <4> HIDE DEF s
      <4> QED BY <2>2, <2>3, SubSeqProperties
    <3> HIDE DEF x, s
    <3> QED BY <1>1, <1>4, <3>1
  <2>5. /\ y \in Seq(Names) /\ Len(y) = n - 1
        /\ \A i \in 1 .. n - 1 : y[i] = p[i]
    <3>1. /\ y \in Seq(Names) /\ Len(y) = IF 1 <= n - 1 THEN (n - 1) - 1 + 1 ELSE 0
          /\ \A i \in 1 .. (n - 1) - 1 + 1 : y[i] = p[1 + i - 1]
      BY <2>2, <2>3, SubSeqProperties
    <3> HIDE DEF y
    <3> QED BY <1>1, <1>4, <3>1
  <2>6. x = y
    <3> HIDE DEF x, y, s
    <3> QED BY <2>3, <2>4, <2>5, SeqEqual
  <2> QED BY <1>2, <2>1, <2>6 DEF Front
<1>5. n = Len(p) => s = p
  BY SubSeqFull
<1> QED BY <1>2, <1>3, <1>4, <1>5

(* No link on the way, looked up from the root.                             *)
Unlinked(t, p) == \A n \in 1 .. Len(p) : Lstat(t, SubSeq(p, 1, n)).is # "link"

MakesWay(t, p, n) ==
  LET d   == MadeOf(t, p)[n]
      dir == SubSeq(p, 1, n)
  IN /\ d.ok \in BOOLEAN /\ d.tree \in Tree /\ Extends(t, d.tree)
     /\ d.ok => /\ IsDir(d.tree, dir)
                /\ d.tree = t \/ Fresh(t, d.tree, Target(d.tree, dir))
                /\ Unlinked(t, p) => Target(d.tree, dir) = dir

(* One directory more.                                                      *)
LEMMA MakesStep ==
  ASSUME NEW t \in Tree, NEW p \in Seq(Names), NEW n \in Nat, n < Len(p), MakesWay(t, p, n)
  PROVE  MakesWay(t, p, n + 1)
<1> DEFINE d == MadeOf(t, p)[n]
           m == MadeOf(t, p)[n + 1]
           dir == SubSeq(p, 1, n + 1)
           up == SubSeq(p, 1, n)
           place == Place(d.tree, dir)
<1>1. m = Make(d, dir)
  BY MadeStep, TreeTried
<1>2. /\ dir \in Seq(Names) /\ dir # <<>> /\ Front(dir) = up /\ up \in Seq(Names)
      /\ n + 1 \in 1 .. Len(p) /\ Len(dir) = n + 1
  <2>1. n + 1 \in 0 .. Len(p) /\ n \in 0 .. Len(p) /\ n + 1 > 0 /\ (n + 1) - 1 = n /\ n + 1 \in 1 .. Len(p)
    OBVIOUS
  <2>2. /\ SubSeq(p, 1, n + 1) \in Seq(Names) /\ Len(SubSeq(p, 1, n + 1)) = n + 1
        /\ SubSeq(p, 1, n + 1) # <<>> /\ Front(SubSeq(p, 1, n + 1)) = SubSeq(p, 1, (n + 1) - 1)
    BY <2>1, Prefix
  <2>3. SubSeq(p, 1, n) \in Seq(Names)
    BY <2>1, Prefix
  <2> QED BY <2>1, <2>2, <2>3
<1>3. /\ d.ok \in BOOLEAN /\ d.tree \in Tree /\ Extends(t, d.tree)
      /\ d.ok => /\ IsDir(d.tree, up)
                 /\ d.tree = t \/ Fresh(t, d.tree, Target(d.tree, up))
                 /\ Unlinked(t, p) => Target(d.tree, up) = up
  BY DEF MakesWay
<1> HIDE DEF d, m, dir, up, place
<1>4. /\ m.ok \in BOOLEAN /\ m.tree \in Tree /\ Extends(d.tree, m.tree)
      /\ m.ok => d.ok /\ IsDir(m.tree, dir)
      /\ m.tree # d.tree => /\ d.ok /\ m.ok /\ HasPlace(d.tree, dir) /\ d.tree[place] = None
                            /\ m.tree = Put(d.tree, place, Dir) /\ Target(m.tree, dir) = place
  BY <1>1, <1>2, <1>3, MakeOne DEF place
<1>5. Extends(t, m.tree)
  BY <1>3, <1>4 DEF Extends, None, Dir
<1>6. Tried(t) /\ Rooted(t) /\ Tried(d.tree) /\ Tried(m.tree)
  BY <1>3, <1>4, TreeTried
<1>7. d.ok /\ HasPlace(d.tree, dir) =>
        /\ place = Append(Target(d.tree, up), Last(dir)) /\ place \in Path
        /\ Front(place) = Target(d.tree, up)
        /\ Unlinked(t, p) => place = dir
  <2>1. dir = Append(up, Last(dir))
    BY <1>2, PathParts
  <2>2. Place(d.tree, dir) = Append(Target(d.tree, up), Last(dir))
    BY <1>2 DEF Place
  <2> QED BY <1>2, <1>3, <1>6, <2>1, <2>2, AtPlace DEF place
<1>8. CASE m.tree # d.tree
  <2>1. Fresh(t, m.tree, place)
    <3>1. place \in Path /\ d.tree[place] = None
      BY <1>4, <1>7, <1>8
    <3>2. t[place] = None
      BY <1>3, <3>1 DEF Extends, None, Dir
    <3>3. \A q \in Path : m.tree[q] = IF q = place THEN Dir ELSE d.tree[q]
      BY <1>4, <1>6, <1>8, <3>1 DEF Put, Tried
    <3>4. \A q \in Path : Under(place, q) /\ q # place => d.tree[q] = None
      BY <1>3, <3>1, NothingBelow DEF None, Dir
    <3> QED BY <3>1, <3>2, <3>3, <3>4 DEF Fresh
  <2> QED BY <1>4, <1>5, <1>7, <1>8, <2>1 DEF MakesWay, m, dir
<1>9. CASE m.tree = d.tree
  <2>1. ASSUME m.ok
        PROVE  /\ IsDir(d.tree, dir) /\ HasPlace(d.tree, dir)
               /\ d.tree[place].is # "none"
    <3>1. IsDir(d.tree, dir) /\ Finds(d.tree, dir)
      BY <1>4, <1>9, <2>1 DEF IsDir
    <3>2. HasPlace(d.tree, dir)
      BY <1>2, <1>6, <3>1, FoundHasPlace
    <3>3. d.tree[place] # None /\ place \in Path
      BY <1>2, <1>6, <3>1, <3>2, AtPlace DEF Finds, place
    <3>4. d.tree[place] \in Entry
      BY <1>6, <3>3 DEF Tried
    <3> QED BY <3>1, <3>2, <3>3, <3>4, EntryKinds
  <2>2. ASSUME m.ok PROVE d.tree = t
    <3> SUFFICES ASSUME Fresh(t, d.tree, Target(d.tree, up)) PROVE FALSE
      BY <1>3, <1>4, <2>2
    <3>1. place \in Path /\ Front(place) = Target(d.tree, up) /\ Front(place) \in Path
      BY <1>4, <1>7, <2>1, <2>2 DEF Fresh
    <3>2. Under(Front(place), place) /\ Front(place) # place
      <4>1. place \in Seq(Names) /\ Front(place) \in Seq(Names) /\ place # <<>>
        BY <3>1, PathFront
      <4>2. Under(Front(place), Front(place))
        BY <4>1, UnderOrder
      <4> QED BY <4>1, <4>2, UnderFront
    <3>3. d.tree[place] = None
      BY <3>1, <3>2 DEF Fresh
    <3> QED BY <2>1, <2>2, <3>3 DEF None
  <2>3. ASSUME m.ok, Unlinked(t, p) PROVE Target(d.tree, dir) = dir
    <3>1. place = dir /\ dir \in Path /\ d.tree = t /\ HasPlace(t, dir)
      BY <1>4, <1>7, <2>1, <2>2, <2>3
    <3>2. Lstat(t, dir) = t[dir] /\ t[dir].is # "link"
      <4>1. Lstat(t, dir) = t[dir]
        BY <1>2, <1>6, <3>1, AtPlace DEF place
      <4>2. Lstat(t, dir).is # "link"
        BY <1>2, <2>3 DEF Unlinked, dir
      <4> QED BY <4>1, <4>2
    <3>3. t[dir].is \in {"dir", "file"}
      <4>1. t[dir] \in Entry
        BY <1>6, <3>1 DEF Tried
      <4> QED BY <2>1, <2>3, <3>1, <3>2, <4>1, EntryKinds
    <3>4. EvalSymlinks(t, dir) = [got |-> "found", at |-> dir]
      BY <1>2, <1>6, <3>1, <3>3, AtPlace DEF place
    <3> QED BY <3>1, <3>4 DEF Target
  <2> QED BY <1>4, <1>5, <1>9, <2>1, <2>2, <2>3 DEF MakesWay, m, dir
<1> QED BY <1>8, <1>9

(* os.MkdirAll loses nothing; where it works the path leads to a directory, *)
(* one with nothing below it when it was not there before.                  *)
LEMMA MakesAll ==
  ASSUME NEW t \in Tree, NEW p \in Seq(Names)
  PROVE  LET m == MkdirAll(t, p)
         IN /\ m.ok \in BOOLEAN /\ m.tree \in Tree /\ Extends(t, m.tree)
            /\ m.ok => /\ IsDir(m.tree, p)
                       /\ m.tree = t \/ Fresh(t, m.tree, Target(m.tree, p))
                       /\ Unlinked(t, p) => Target(m.tree, p) = p
<1>1. Tried(t) /\ Len(p) \in Nat
  BY TreeTried
<1> DEFINE S == {n \in Nat : n <= Len(p) => MakesWay(t, p, n)}
<1>2. 0 \in S
  <2>1. MadeOf(t, p)[0] = [ok |-> TRUE, tree |-> t]
    BY <1>1, MadeStep DEF Leaves
  <2>2. SubSeq(p, 1, 0) = <<>> /\ <<>> \in Seq(Names)
    BY SubSeqEmpty
  <2>3. EvalSymlinks(t, <<>>) = [got |-> "found", at |-> <<>>]
    BY <2>2, RealPath DEF Leads, IsPlaceOfDir
  <2>4. IsDir(t, <<>>) /\ Target(t, <<>>) = <<>>
    BY <2>3 DEF IsDir, Finds, Target
  <2>5. MakesWay(t, p, 0)
    <3> DEFINE d == MadeOf(t, p)[0]
               dir == SubSeq(p, 1, 0)
    <3>1. d.ok = TRUE /\ d.tree = t
      BY <2>1
    <3>2. IsDir(t, dir) /\ Target(t, dir) = dir
      BY <2>2, <2>4
    <3>3. Extends(t, t)
      BY DEF Extends
    <3>4. MakesWay(t, p, 0) <=> /\ d.ok \in BOOLEAN /\ d.tree \in Tree /\ Extends(t, d.tree)
                                /\ d.ok => /\ IsDir(d.tree, dir)
                                           /\ d.tree = t \/ Fresh(t, d.tree, Target(d.tree, dir))
                                           /\ Unlinked(t, p) => Target(d.tree, dir) = dir
      BY DEF MakesWay
    <3> HIDE DEF d, dir
    <3> QED BY <3>1, <3>2, <3>3, <3>4
  <2> QED BY <2>5
<1>3. ASSUME NEW n \in Nat, n \in S PROVE n + 1 \in S
  BY <1>1, <1>3, MakesStep
<1> HIDE DEF S
<1>4. Nat \subseteq S
  BY <1>2, <1>3, NatInd
<1>5. MakesWay(t, p, Len(p))
  BY <1>1, <1>4 DEF S
<1>6. SubSeq(p, 1, Len(p)) = p
  BY SubSeqFull
<1> QED BY <1>5, <1>6, MkdirAllIsMade DEF MakesWay

-----------------------------------------------------------------------------
(* Write.                                                                  *)

(* The path a write goes to is no link that leads anywhere.                 *)
LEMMA PlainPath ==
  ASSUME NEW t \in Tree, NEW p \in Path, Resolves(t, p), ~IsDir(t, WrittenPath(t, p))
  PROVE  LET abs == WrittenPath(t, p)
         IN /\ abs \in Path
            /\ HasPlace(t, abs) /\ t[Place(t, abs)].is = "link" =>
                 abs = p /\ ~Finds(t, p) /\ EvalSymlinks(t, p).got = "missing"
            /\ IsFile(t, p) => /\ HasPlace(t, abs) /\ Place(t, abs) = Target(t, p)
                               /\ t[Place(t, abs)].is = "file"
<1> DEFINE abs == WrittenPath(t, p)
<1>1. Tried(t) /\ p \in Seq(Names) /\ p # <<>> /\ Len(p) \in Nat
  BY TreeTried, PathFront
<1>2. CASE Lstat(t, p).is = "link" /\ Finds(t, p)
  <2>1. abs = Target(t, p)
    BY <1>2 DEF WrittenPath
  <2>2. Leads(t, abs)
    BY <1>1, <1>2, <2>1, Found
  <2>3. abs \in Seq(Names)
    <3>1. abs = <<>> \/ abs \in Path
      BY <2>2 DEF Leads, IsPlaceOfDir
    <3>2. <<>> \in Seq(Names)
      OBVIOUS
    <3>3. abs \in Path => abs \in Seq(Names)
      BY PathFront
    <3> HIDE DEF abs
    <3> QED BY <3>1, <3>2, <3>3
  <2>4. EvalSymlinks(t, abs) = [got |-> "found", at |-> abs]
    BY <2>2, <2>3, RealPath
  <2>5. ~IsPlaceOfDir(t, abs)
    BY <1>1, <2>3, <2>4, Found DEF Finds, Target
  <2>6. abs \in Path /\ t[abs].is = "file"
    BY <2>2, <2>5 DEF Leads
  <2>7. HasPlace(t, abs) /\ Place(t, abs) = abs
    <3>1. t[abs] # None /\ abs # <<>> /\ Front(abs) \in Seq(Names) /\ abs = Append(Front(abs), Last(abs))
      <4> HIDE DEF abs
      <4>1. t[abs] # None
        BY <2>6 DEF None
      <4>2. abs # <<>>
        BY <2>6, PathFront
      <4> QED BY <2>3, <4>1, <4>2, PathParts
    <3>2. IsPlaceOfDir(t, Front(abs))
      BY <2>6, <3>1, InDirectory
    <3>3. EvalSymlinks(t, Front(abs)) = [got |-> "found", at |-> Front(abs)]
      BY <3>1, <3>2, RealPath DEF Leads
    <3>4. IsDir(t, Front(abs)) /\ Target(t, Front(abs)) = Front(abs)
      BY <1>1, <3>1, <3>2, <3>3, Found DEF Finds, Target
    <3> HIDE DEF abs
    <3> QED BY <2>6, <3>1, <3>4 DEF HasPlace, Place
  <2> QED BY <2>1, <2>6, <2>7
<1>3. CASE ~(Lstat(t, p).is = "link" /\ Finds(t, p))
  <2>1. abs = p
    BY <1>3 DEF WrittenPath
  <2>2. ASSUME HasPlace(t, p), t[Place(t, p)].is = "link"
        PROVE  ~Finds(t, p) /\ EvalSymlinks(t, p).got = "missing"
    <3>1. ~Finds(t, p)
      BY <1>1, <1>3, <2>2, AtPlace
    <3>2. PICK n \in 0 .. Len(p) :
            /\ Finds(t, SubSeq(p, 1, n))
            /\ \A m \in n + 1 .. Len(p) : EvalSymlinks(t, SubSeq(p, 1, m)).got = "missing"
      BY DEF Resolves
    <3>3. SubSeq(p, 1, Len(p)) = p
      BY <1>1, SubSeqFull
    <3>4. n # Len(p)
      BY <3>1, <3>2, <3>3
    <3>5. Len(p) \in n + 1 .. Len(p)
      BY <1>1, <3>4
    <3> QED BY <3>1, <3>2, <3>3, <3>5
  <2>3. ASSUME IsFile(t, p)
        PROVE  HasPlace(t, p) /\ Place(t, p) = Target(t, p) /\ t[Place(t, p)].is = "file"
    <3>1. Finds(t, p) /\ Target(t, p) \in Path /\ t[Target(t, p)].is = "file"
      BY <1>1, <2>3, Found DEF IsFile
    <3>2. HasPlace(t, p)
      BY <1>1, <3>1, FoundHasPlace
    <3>3. t[Place(t, p)].is # "link" /\ t[Place(t, p)] # None /\ Place(t, p) \in Path
      BY <1>1, <1>3, <3>1, <3>2, AtPlace DEF Finds
    <3>4. t[Place(t, p)].is \in {"dir", "file"}
      <4>1. t[Place(t, p)] \in Entry
        BY <1>1, <3>3 DEF Tried
      <4> QED BY <3>3, <4>1, EntryKinds
    <3>5. EvalSymlinks(t, p) = [got |-> "found", at |-> Place(t, p)]
      BY <1>1, <3>2, <3>4, AtPlace
    <3> QED BY <3>1, <3>2, <3>5 DEF Target
  <2> QED BY <2>1, <2>2, <2>3
<1> QED BY <1>2, <1>3

(* A link that leads nowhere has not been followed on the way to anything.  *)
LEMMA NotFollowed ==
  ASSUME NEW t \in Tree, NEW p \in Path, HasPlace(t, p), t[Place(t, p)].is = "link",
         EvalSymlinks(t, p).got = "missing"
  PROVE  ~Followed(t, Place(t, p))
<1> DEFINE q == Place(t, p)
           to == t[q].to
           W(k) == [at |-> <<>>, rest |-> to, links |-> k]
<1>1. Tried(t) /\ p \in Seq(Names) /\ p # <<>>
  BY TreeTried, PathFront
<1>2. q \in Path /\ t[q] \in Entry
  BY <1>1, AtPlace DEF Tried
<1>3. to \in Seq(Names) /\ <<>> \in Seq(Names)
  <2>1. to \in Path \cup {<<>>}
    BY <1>2, EntryKinds
  <2>2. <<>> \in Seq(Names)
    OBVIOUS
  <2> HIDE DEF to
  <2> QED BY <2>1, <2>2, PathFront
<1>4. \A k \in 0 .. MaxLinks : W(k) \in Walks
  BY <1>3 DEF Walks
<1>5. PICK k \in 0 .. MaxLinks : EvalSymlinks(t, p) = Walk(t, W(k))
  BY <1>1, AtPlace
<1>6. Walk(t, W(k)).got = "missing"
  BY <1>5
<1> SUFFICES ASSUME Followed(t, q) PROVE FALSE
  OBVIOUS
<1>7. PICK r \in Seq(Names), j \in 0 .. MaxLinks :
        Walk(t, [at |-> <<>>, rest |-> to \o r, links |-> j]).got = "found"
  BY DEF Followed
<1>8. Walk(t, And(W(j), r)).got = "found"
  BY <1>7 DEF And
<1>9. Walk(t, W(j)).got = "found"
  BY <1>1, <1>4, <1>8, WalkGoesOn DEF Ongoing
<1>10. MaxLinks \in Nat /\ j \in Nat /\ k \in Nat
  BY ConfTreeAssumption
<1>11. CASE k <= j
  <2>1. j \in W(k).links .. MaxLinks /\ [W(k) EXCEPT !.links = j] = W(j)
    BY <1>10, <1>11
  <2> HIDE DEF W
  <2> QED BY <1>1, <1>4, <1>6, <1>9, <2>1, WalkWithMore
<1>12. CASE j <= k
  <2>1. k \in W(j).links .. MaxLinks /\ [W(j) EXCEPT !.links = k] = W(k)
    BY <1>10, <1>12
  <2> HIDE DEF W
  <2> QED BY <1>1, <1>4, <1>6, <1>9, <2>1, WalkWithMore
<1> QED BY <1>10, <1>11, <1>12

(* Write.                                                                   *)
Kept(t, u, q) == u[q] = t[q] \/ (t[q] = None /\ u[q] = Dir)

(* A write that works changes one entry, which is no directory, and finds it*)
(* again; the file that was read is the one that is written.                *)
LEMMA WriteDoes ==
  ASSUME NEW t \in Tree, NEW p \in Path, NEW c \in Contents, Write(t, p, c).ok
  PROVE  LET abs == WrittenPath(t, p)
             u == Write(t, p, c).tree
             q == Place(u, abs)
         IN /\ u \in Tree /\ abs \in Path /\ HasPlace(u, abs) /\ q \in Path
            /\ u[q] = File(c) /\ t[q] # Dir
            /\ \A o \in Path \ {q} : Kept(t, u, o)
            /\ t[q].is = "file" <=> IsFile(t, abs)
            /\ IsFile(t, abs) => Content(t, abs) = t[q].content
            /\ IsFile(t, p) => Target(t, p) = q
<1> DEFINE abs == WrittenPath(t, p)
           m == MkdirAll(t, Front(abs))
           q == Place(m.tree, abs)
           u == Put(m.tree, q, File(c))
<1>1. /\ Resolves(t, p) /\ ~IsDir(t, abs) /\ m.ok /\ HasPlace(m.tree, abs)
      /\ Write(t, p, c).tree = u
  BY DEF Write, Leaves
<1>2. /\ abs \in Path
      /\ HasPlace(t, abs) /\ t[Place(t, abs)].is = "link" =>
           abs = p /\ ~Finds(t, p) /\ EvalSymlinks(t, p).got = "missing"
      /\ IsFile(t, p) => HasPlace(t, abs) /\ Place(t, abs) = Target(t, p) /\ t[Place(t, abs)].is = "file"
  BY <1>1, PlainPath
<1> HIDE DEF abs
<1>3. abs \in Seq(Names) /\ abs # <<>> /\ Front(abs) \in Seq(Names)
  BY <1>2, PathFront
<1>4. /\ m.tree \in Tree /\ Extends(t, m.tree) /\ IsDir(m.tree, Front(abs))
      /\ m.tree = t \/ Fresh(t, m.tree, Target(m.tree, Front(abs)))
  BY <1>1, <1>3, MakesAll
<1> HIDE DEF m
<1>5. Tried(t) /\ Tried(m.tree)
  BY <1>4, TreeTried
<1>6. /\ q \in Path /\ Front(q) = Target(m.tree, Front(abs)) /\ IsPlaceOfDir(m.tree, Front(q))
      /\ m.tree[q].is \in {"dir", "file"} => EvalSymlinks(m.tree, abs) = [got |-> "found", at |-> q]
  BY <1>1, <1>3, <1>5, AtPlace
<1>7. q \in Seq(Names) /\ q # <<>> /\ Front(q) \in Seq(Names) /\ Under(Front(q), q) /\ Front(q) # q
  <2>1. q \in Seq(Names) /\ q # <<>> /\ Front(q) \in Seq(Names) /\ Front(q) # q
    BY <1>6, PathFront
  <2>2. Under(Front(q), Front(q))
    BY <2>1, UnderOrder
  <2> HIDE DEF q
  <2> QED BY <2>1, <2>2, UnderFront
<1> HIDE DEF q
<1>8. Fresh(t, m.tree, Front(q)) => m.tree[q] = None /\ t[q] = None
  BY <1>4, <1>6, <1>7 DEF Fresh, Extends, None, Dir
<1>9. m.tree = t => HasPlace(t, abs) /\ Place(t, abs) = q
  BY <1>1 DEF q
<1>10. m.tree[q] # Dir /\ t[q] # Dir
  <2>1. m.tree = t => t[q] # Dir
    <3> SUFFICES ASSUME m.tree = t, t[q] = Dir PROVE FALSE
      OBVIOUS
    <3>1. EvalSymlinks(t, abs) = [got |-> "found", at |-> q]
      BY <1>6 DEF Dir
    <3> QED BY <1>1, <3>1 DEF IsDir, Finds, Target
  <2> QED BY <1>4, <1>6, <1>8, <2>1 DEF None, Dir
<1>11. u \in Tree
  BY <1>4, <1>6, <1>10, PutRooted DEF Entry
<1>12. \A o \in Path : u[o] = IF o = q THEN File(c) ELSE m.tree[o]
  BY <1>5, <1>6 DEF Put, Tried
<1> HIDE DEF u
<1>13. IsDir(u, Front(abs)) /\ Target(u, Front(abs)) = Front(q)
  <2> DEFINE K == IF m.tree[q].is = "link" THEN {q} ELSE {}
             w == Start(Front(abs))
  <2>1. K \in SUBSET Path
    BY <1>6
  <2>2. KeepsBut(m.tree, u, K)
    <3> SUFFICES ASSUME NEW o \in Path \ K, m.tree[o].is # "none" PROVE Alike(m.tree[o], u[o])
      BY DEF KeepsBut
    <3>1. m.tree[o] \in Entry
      BY <1>5 DEF Tried
    <3>2. CASE o = q
      <4>1. m.tree[o].is = "file"
        BY <1>10, <3>1, <3>2, EntryKinds
      <4> QED BY <1>12, <3>2, <4>1 DEF Alike, File
    <3>3. CASE o # q
      BY <1>12, <3>3 DEF Alike
    <3> QED BY <3>2, <3>3
  <2>3. \A o \in K : m.tree[o].is = "link" /\ ~Followed(m.tree, o)
    <3> SUFFICES ASSUME m.tree[q].is = "link" PROVE ~Followed(m.tree, q)
      OBVIOUS
    <3>1. m.tree = t
      BY <1>4, <1>6, <1>8 DEF None
    <3>2. HasPlace(t, abs) /\ Place(t, abs) = q /\ t[q].is = "link"
      BY <1>9, <3>1
    <3>3. EvalSymlinks(t, abs).got = "missing"
      BY <1>2, <3>2
    <3> QED BY <1>2, <3>1, <3>2, <3>3, NotFollowed
  <2>4. w \in Walks /\ EvalSymlinks(m.tree, Front(abs)) = Walk(m.tree, w)
        /\ EvalSymlinks(u, Front(abs)) = Walk(u, w)
    BY <1>3, StartWalk
  <2>5. Walk(m.tree, w).got = "found"
    BY <1>4, <2>4 DEF IsDir, Finds
  <2>6. Tried(u)
    BY <1>11, TreeTried
  <2>7. Walk(u, w) = Walk(m.tree, w)
    <3> HIDE DEF K, w
    <3> QED BY <1>5, <2>1, <2>2, <2>3, <2>4, <2>5, <2>6, WalkKept
  <2>8. Finds(u, Front(abs)) /\ Target(u, Front(abs)) = Front(q)
    BY <1>6, <2>4, <2>5, <2>7 DEF Finds, Target
  <2>9. IsPlaceOfDir(u, Front(q))
    BY <1>6, <1>7, <1>12 DEF IsPlaceOfDir
  <2> QED BY <1>3, <2>6, <2>8, <2>9, Found
<1>14. HasPlace(u, abs) /\ Place(u, abs) = q
  <2>1. Append(Front(q), Last(abs)) = q
    BY <1>6 DEF q, Place
  <2> QED BY <1>6, <1>13, <2>1 DEF HasPlace, Place
<1>15. IsFile(t, abs) => /\ HasPlace(t, abs) /\ t[Place(t, abs)].is = "file"
                         /\ Target(t, abs) = Place(t, abs) /\ Place(t, abs) \in Path
  <2> SUFFICES ASSUME IsFile(t, abs)
               PROVE  /\ HasPlace(t, abs) /\ t[Place(t, abs)].is = "file"
                      /\ Target(t, abs) = Place(t, abs) /\ Place(t, abs) \in Path
    OBVIOUS
  <2>1. Finds(t, abs) /\ HasPlace(t, abs) /\ Target(t, abs) \in Path /\ t[Target(t, abs)].is = "file"
    BY <1>3, <1>5, Found, FoundHasPlace DEF IsFile
  <2>2. t[Place(t, abs)].is # "link" /\ t[Place(t, abs)] # None /\ Place(t, abs) \in Path
    BY <1>2, <1>3, <1>5, <2>1, AtPlace DEF Finds
  <2>3. t[Place(t, abs)].is \in {"dir", "file"}
    <3>1. t[Place(t, abs)] \in Entry
      BY <1>5, <2>2 DEF Tried
    <3> QED BY <2>2, <3>1, EntryKinds
  <2>4. EvalSymlinks(t, abs) = [got |-> "found", at |-> Place(t, abs)]
    BY <1>3, <1>5, <2>1, <2>3, AtPlace
  <2> QED BY <2>1, <2>2, <2>4 DEF Target
<1>16. HasPlace(t, abs) => Place(t, abs) = q
  <2> SUFFICES ASSUME HasPlace(t, abs) PROVE Place(t, abs) = q
    OBVIOUS
  <2>1. Finds(t, Front(abs))
    BY DEF HasPlace, IsDir
  <2>2. KeepsBut(t, m.tree, {})
    BY <1>4, <1>5, ExtendsKeeps
  <2>3. Target(m.tree, Front(abs)) = Target(t, Front(abs))
    BY <1>3, <1>5, <2>1, <2>2, FoundKept
  <2> QED BY <2>3 DEF q, Place
<1>17. t[q].is = "file" => IsFile(t, abs)
  <2> SUFFICES ASSUME t[q].is = "file" PROVE IsFile(t, abs)
    OBVIOUS
  <2>1. m.tree = t
    BY <1>4, <1>6, <1>8 DEF None
  <2>2. EvalSymlinks(t, abs) = [got |-> "found", at |-> q]
    BY <1>6, <2>1
  <2> QED BY <1>7, <2>2 DEF IsFile, Finds, Target
<1>18. IsFile(t, abs) => t[q].is = "file" /\ Content(t, abs) = t[q].content
  BY <1>15, <1>16 DEF Content
<1>19. IsFile(t, p) => Target(t, p) = q
  BY <1>2, <1>16
<1>20. \A o \in Path \ {q} : Kept(t, u, o)
  BY <1>4, <1>12 DEF Kept, Extends
<1> QED BY <1>1, <1>2, <1>6, <1>10, <1>11, <1>12, <1>14, <1>17, <1>18, <1>19, <1>20 DEF abs

(* The restore closure of a write.                                          *)
LEMMA WriteUndoes ==
  ASSUME NEW u \in Tree, NEW abs \in Path, NEW old \in Entry, HasPlace(u, abs),
         u[Place(u, abs)] # Dir
  PROVE  LET v == WriteRestore(u, abs, old).tree
         IN /\ v \in Tree
            /\ \A o \in Path : v[o] = IF o = Place(u, abs) THEN old ELSE u[o]
<1>1. Tried(u) /\ abs \in Seq(Names) /\ abs # <<>>
  BY TreeTried, PathFront
<1>2. Place(u, abs) \in Path /\ IsPlaceOfDir(u, Front(Place(u, abs)))
  BY <1>1, AtPlace
<1>3. WriteRestore(u, abs, old).tree = Put(u, Place(u, abs), old)
  BY DEF WriteRestore, Leaves
<1>4. Put(u, Place(u, abs), old) \in Tree
  BY <1>2, PutRooted
<1> QED BY <1>1, <1>2, <1>3, <1>4 DEF Put, Tried

-----------------------------------------------------------------------------
(* Delete.                                                                 *)

(* A directory found outside what goes away is still found.                 *)
LEMMA FoundAfter ==
  ASSUME NEW t \in Tree, NEW a \in Path, NEW u \in Tree, NEW p \in Seq(Names), p # <<>>,
         \A q \in Path : ~Under(a, q) /\ t[q] # None => u[q] = t[q],
         HasPlace(t, p), ~Through(t, p, a), ~Under(a, Front(Place(t, p)))
  PROVE  HasPlace(u, p) /\ Place(u, p) = Place(t, p)
<1> DEFINE r == Removed(t, a)
           d == Front(Place(t, p))
<1>1. Tried(t) /\ Tried(u) /\ Front(p) \in Seq(Names)
  BY TreeTried, PathParts
<1>2. r \in [Path -> Entry] /\ \A q \in Path : r[q] = IF Under(a, q) THEN None ELSE t[q]
  BY <1>1 DEF Removed, Tried, Entry
<1>3. KeepsBut(r, u, {})
  <2> SUFFICES ASSUME NEW q \in Path, r[q].is # "none" PROVE r[q] = u[q]
    BY DEF KeepsBut, Alike
  <2>1. ~Under(a, q) /\ r[q] = t[q] /\ t[q] # None
    BY <1>2 DEF None
  <2> QED BY <2>1
<1>4. EvalSymlinks(r, Front(p)) = EvalSymlinks(t, Front(p))
  BY DEF Through
<1>5. Finds(t, Front(p)) /\ d = Target(t, Front(p)) /\ IsPlaceOfDir(t, d) /\ Place(t, p) \in Path
  BY <1>1, AtPlace DEF HasPlace, IsDir
<1>6. Finds(r, Front(p)) /\ Target(r, Front(p)) = d
  BY <1>4, <1>5 DEF Finds, Target
<1> HIDE DEF r
<1>7. Finds(u, Front(p)) /\ Target(u, Front(p)) = d
  <2>1. Tried(r)
    BY <1>2 DEF Tried
  <2> QED BY <1>1, <1>3, <1>6, <2>1, FoundKept
<1>8. IsPlaceOfDir(u, d)
  BY <1>5 DEF IsPlaceOfDir, None, Dir
<1>9. IsDir(u, Front(p))
  BY <1>1, <1>7, <1>8, Found
<1> QED BY <1>5, <1>7, <1>9 DEF HasPlace, Place

(* A tree without an entry and all below it is a tree.                      *)
LEMMA RemovedTree ==
  ASSUME NEW t \in Tree, NEW a \in Path
  PROVE  /\ Removed(t, a) \in Tree
         /\ \A q \in Path : Removed(t, a)[q] = IF Under(a, q) THEN None ELSE t[q]
<1> DEFINE r == Removed(t, a)
<1>1. Tried(t) /\ Rooted(t)
  BY TreeTried
<1>2. r \in [Path -> Entry] /\ \A q \in Path : r[q] = IF Under(a, q) THEN None ELSE t[q]
  BY <1>1 DEF Removed, Tried, Entry
<1> HIDE DEF r
<1>3. Rooted(r)
  <2> SUFFICES ASSUME NEW q \in Path, Len(q) > 1, r[q] # None PROVE r[Front(q)] = Dir
    BY DEF Rooted
  <2>1. q \in Seq(Names) /\ q # <<>> /\ Front(q) \in Path /\ a \in Seq(Names)
    BY PathFront
  <2>2. ~Under(a, q) /\ t[q] # None
    BY <1>2
  <2>3. ~Under(a, Front(q))
    BY <2>1, <2>2, UnderFront
  <2>4. t[Front(q)] = Dir
    BY <1>1, <2>2 DEF Rooted
  <2> QED BY <1>2, <2>1, <2>3, <2>4
<1>4. r \in Tree
  BY <1>2, <1>3 DEF Tree
<1> QED BY <1>2, <1>4 DEF r

(* Delete.                                                                  *)
LEMMA DeleteDoes ==
  ASSUME NEW t \in Tree, NEW p \in Path, Delete(t, p).ok
  PROVE  LET a == Place(t, p)
             u == Delete(t, p).tree
         IN /\ HasPlace(t, p) /\ a \in Path
            /\ u \in Tree /\ \A q \in Path : u[q] = IF Under(a, q) THEN None ELSE t[q]
            /\ ~Through(t, p, a) => HasPlace(u, p) /\ Place(u, p) = a
            /\ HasPlace(u, p) => Place(u, p) = a
<1> DEFINE a == Place(t, p)
           u == Removed(t, a)
<1>1. Lstat(t, p) # None /\ Delete(t, p).tree = u
  BY DEF Delete, Leaves
<1>2. Tried(t) /\ p \in Seq(Names) /\ p # <<>> /\ Front(p) \in Seq(Names)
  BY TreeTried, PathFront
<1>3. HasPlace(t, p)
  BY <1>1 DEF Lstat
<1>4. a \in Path /\ Front(a) = Target(t, Front(p)) /\ Finds(t, Front(p))
  BY <1>2, <1>3, AtPlace DEF HasPlace, IsDir
<1> HIDE DEF a
<1>6. u \in Tree /\ \A q \in Path : u[q] = IF Under(a, q) THEN None ELSE t[q]
  BY <1>4, RemovedTree
<1>7. ~Under(a, Front(a))
  <2>1. a \in Seq(Names) /\ a # <<>>
    BY <1>4, PathFront
  <2> QED BY <2>1, UnderFront
<1>8. Tried(u)
  BY <1>6, TreeTried
<1> HIDE DEF u
<1>9. ASSUME ~Through(t, p, a) PROVE HasPlace(u, p) /\ Place(u, p) = a
  <2>1. \A q \in Path : ~Under(a, q) /\ t[q] # None => u[q] = t[q]
    BY <1>6
  <2>2. a = Place(t, p)
    BY DEF a
  <2> QED BY <1>2, <1>3, <1>4, <1>6, <1>7, <1>9, <2>1, <2>2, FoundAfter
<1>10. ASSUME HasPlace(u, p) PROVE Place(u, p) = a
  <2>1. KeepsBut(u, t, {})
    BY <1>6 DEF KeepsBut, Alike, None
  <2>2. Finds(u, Front(p))
    BY <1>10 DEF HasPlace, IsDir
  <2>3. Target(t, Front(p)) = Target(u, Front(p))
    BY <1>2, <1>8, <2>1, <2>2, FoundKept
  <2> QED BY <2>3 DEF Place, a
<1> QED BY <1>1, <1>3, <1>4, <1>6, <1>9, <1>10 DEF a

(* Its restore closure puts back everything, or nothing at all.             *)
LEMMA DeleteUndoes ==
  ASSUME NEW t \in Tree, NEW p \in Path, Delete(t, p).ok
  PROVE  LET u == Delete(t, p).tree
             v == DeleteRestore(u, p, t).tree
         IN /\ v = t \/ v = u
            /\ HasPlace(u, p) => v = t
            /\ ~Through(t, p, Place(t, p)) => v = t
<1> DEFINE a == Place(t, p)
           u == Delete(t, p).tree
           v == DeleteRestore(u, p, t).tree
<1>1. /\ a \in Path /\ u \in Tree /\ \A q \in Path : u[q] = IF Under(a, q) THEN None ELSE t[q]
      /\ ~Through(t, p, a) => HasPlace(u, p) /\ Place(u, p) = a
      /\ HasPlace(u, p) => Place(u, p) = a
  BY DeleteDoes
<1>2. Tried(t) /\ Tried(u)
  BY <1>1, TreeTried
<1> HIDE DEF u, a
<1>3. ~HasPlace(u, p) => v = u
  BY DEF DeleteRestore, Leaves
<1>4. HasPlace(u, p) => v = [q \in Path |-> IF Under(a, q) THEN t[q] ELSE u[q]]
  BY <1>1 DEF DeleteRestore, Leaves
<1>5. t = [q \in Path |-> t[q]]
  BY <1>2 DEF Tried
<1>6. HasPlace(u, p) => v = t
  <2> HIDE DEF v
  <2> QED BY <1>1, <1>4, <1>5
<1> QED BY <1>1, <1>3, <1>6 DEF u, v, a

-----------------------------------------------------------------------------
(* Moves.                                                                  *)

(* The path q, below a, when a is called b.                                 *)
LEMMA Rebased ==
  ASSUME NEW a \in Path, NEW b \in Path, NEW q \in Path, Under(a, q)
  PROVE  LET n == b \o SubSeq(q, Len(a) + 1, Len(q)) IN
           /\ n \in Seq(Names) /\ Len(n) = Len(b) + Len(q) - Len(a) /\ Under(b, n)
           /\ a \o SubSeq(n, Len(b) + 1, Len(n)) = q
<1> DEFINE rest == SubSeq(q, Len(a) + 1, Len(q))
           n == b \o rest
<1>1. /\ a \in Seq(Names) /\ b \in Seq(Names) /\ q \in Seq(Names)
      /\ Len(a) \in Nat /\ Len(b) \in Nat /\ Len(q) \in Nat /\ Len(a) >= 1 /\ Len(b) >= 1
  BY PathSeq, ConfTreeAssumption
<1>2. /\ Len(a) <= Len(q) /\ SubSeq(a, 1, Len(a)) = SubSeq(q, 1, Len(a))
  BY DEF Under, IsPrefix
<1>3. a = SubSeq(q, 1, Len(a))
  BY <1>1, <1>2, SubSeqFull
<1>4. /\ rest \in Seq(Names) /\ Len(rest) = Len(q) - Len(a)
      /\ \A i \in 1 .. Len(q) - Len(a) : rest[i] = q[Len(a) + i]
  BY <1>1, <1>2
<1>5. a \o rest = q
  BY <1>1, <1>2, <1>3, ConcatAdjacentSubSeq
<1> HIDE DEF rest
<1>6. /\ n \in Seq(Names) /\ Len(n) = Len(b) + Len(rest)
      /\ \A i \in 1 .. Len(b) + Len(rest) : n[i] = IF i <= Len(b) THEN b[i] ELSE rest[i - Len(b)]
  BY <1>1, <1>4, ConcatProperties
<1> HIDE DEF n
<1>7. SubSeq(n, Len(b) + 1, Len(n)) = rest
  <2>1. /\ SubSeq(n, Len(b) + 1, Len(n)) \in Seq(Names)
        /\ Len(SubSeq(n, Len(b) + 1, Len(n))) = Len(rest)
        /\ \A i \in 1 .. Len(rest) : SubSeq(n, Len(b) + 1, Len(n))[i] = n[Len(b) + i]
    <3>1. Len(rest) \in Nat /\ Len(n) = Len(b) + Len(rest)
      BY <1>1, <1>2, <1>4, <1>6
    <3>2. \A i \in Len(b) + 1 .. Len(n) : n[i] \in Names
      BY <1>1, <1>6, <3>1
    <3>3. /\ SubSeq(n, Len(b) + 1, Len(n)) \in Seq(Names)
          /\ Len(SubSeq(n, Len(b) + 1, Len(n)))
               = IF Len(b) + 1 <= Len(n) THEN Len(n) - (Len(b) + 1) + 1 ELSE 0
          /\ \A i \in 1 .. Len(n) - (Len(b) + 1) + 1 :
               SubSeq(n, Len(b) + 1, Len(n))[i] = n[Len(b) + 1 + i - 1]
      BY <1>1, <3>1, <3>2, SubSeqProperties
    <3> QED BY <1>1, <3>1, <3>3
  <2>2. ASSUME NEW i \in 1 .. Len(rest) PROVE n[Len(b) + i] = rest[i]
    <3>1. Len(rest) \in Nat /\ i \in Nat /\ i >= 1 /\ i <= Len(rest)
      BY <1>1, <1>2, <1>4
    <3>2. /\ Len(b) + i \in 1 .. Len(b) + Len(rest) /\ ~(Len(b) + i <= Len(b))
          /\ (Len(b) + i) - Len(b) = i
      BY <1>1, <3>1
    <3> QED BY <1>6, <3>2
  <2> QED BY <1>4, <2>1, <2>2, SeqEqual
<1>8. SubSeq(n, 1, Len(b)) = SubSeq(b, 1, Len(b))
  <2>1. /\ SubSeq(n, 1, Len(b)) \in Seq(Names) /\ Len(SubSeq(n, 1, Len(b))) = Len(b)
        /\ \A i \in 1 .. Len(b) : SubSeq(n, 1, Len(b))[i] = b[i]
    <3>1. \A i \in 1 .. Len(b) : n[i] = b[i] /\ b[i] \in Names
      <4> SUFFICES ASSUME NEW i \in 1 .. Len(b) PROVE n[i] = b[i] /\ b[i] \in Names
        OBVIOUS
      <4>1. Len(rest) \in Nat /\ i \in 1 .. Len(b) + Len(rest) /\ i <= Len(b)
        BY <1>1, <1>2, <1>4
      <4> QED BY <1>1, <1>6, <4>1
    <3>2. /\ SubSeq(n, 1, Len(b)) \in Seq(Names)
          /\ Len(SubSeq(n, 1, Len(b))) = IF 1 <= Len(b) THEN Len(b) - 1 + 1 ELSE 0
          /\ \A i \in 1 .. Len(b) - 1 + 1 : SubSeq(n, 1, Len(b))[i] = n[1 + i - 1]
      BY <1>1, <3>1, SubSeqProperties
    <3> QED BY <1>1, <3>1, <3>2
  <2> QED BY <1>1, <2>1, SeqEqual, SubSeqFull
<1>9. Under(b, n)
  <2>1. Len(b) <= Len(n)
    BY <1>1, <1>2, <1>4, <1>6
  <2> QED BY <1>8, <2>1 DEF Under, IsPrefix
<1>10. Len(n) = Len(b) + Len(q) - Len(a)
  BY <1>1, <1>2, <1>4, <1>6
<1> QED BY <1>5, <1>6, <1>7, <1>9, <1>10 DEF n, rest

(* What RenameRestore does undoes the move, entry by entry: a place that was*)
(* free is free again, and everything that was below the other is back, as  *)
(* long as neither place is below the other and nothing was cut off by the  *)
(* bound on depth.                                                          *)
THEOREM MovesBack ==
  ASSUME NEW t, NEW a \in Path, NEW b \in Path, ~Under(a, b), ~Under(b, a),
         \A q \in Path : Under(b, q) => t[q] = None, Fits(t, a, b)
  PROVE  \A q \in Path : Moved(Moved(t, a, b), b, a)[q] = t[q]
<1> DEFINE Old(from, to, q) == from \o SubSeq(q, Len(to) + 1, Len(q))
           moved == Moved(t, a, b)
<1>1. ASSUME NEW q \in Path
      PROVE  /\ Under(b, q) => moved[q] = IF Old(a, b, q) \in Path THEN t[Old(a, b, q)] ELSE None
             /\ Under(a, q) /\ ~Under(b, q) => moved[q] = None
             /\ ~Under(a, q) /\ ~Under(b, q) => moved[q] = t[q]
  BY DEF Moved
<1>2. ASSUME NEW q \in Path
      PROVE  Moved(moved, b, a)[q] =
               CASE Under(a, q) -> IF Old(b, a, q) \in Path THEN moved[Old(b, a, q)] ELSE None
                 [] Under(b, q) /\ ~Under(a, q) -> None
                 [] OTHER -> moved[q]
  BY DEF Moved
<1> HIDE DEF moved
<1>3. ASSUME NEW q \in Path, Under(a, q)
      PROVE  Moved(moved, b, a)[q] = t[q]
  <2> DEFINE old == Old(b, a, q)
  <2>1. /\ old \in Seq(Names) /\ Len(old) = Len(b) + Len(q) - Len(a) /\ Under(b, old)
        /\ Old(a, b, old) = q
    BY <1>3, Rebased
  <2>2. CASE old \in Path
    BY <1>1, <1>2, <1>3, <2>1, <2>2
  <2>3. CASE old \notin Path
    <3>1. Len(old) > MaxDepth
      <4>1. Len(q) \in Nat /\ Len(a) \in Nat /\ Len(b) \in Nat /\ Len(b) >= 1 /\ Len(a) <= Len(q)
        BY <1>3, PathSeq, ConfTreeAssumption DEF Under, IsPrefix
      <4>2. Len(old) \in Nat /\ Len(old) >= 1
        BY <2>1, <4>1
      <4>3. ~(Len(old) \in 1 .. MaxDepth)
        BY <2>1, <2>3, PathSeq
      <4> QED BY <4>2, <4>3, ConfTreeAssumption
    <3>2. t[q] = None
      <4>1. Len(q) \in Nat /\ Len(a) \in Nat /\ Len(b) \in Nat
        BY PathSeq, ConfTreeAssumption
      <4>2. ~(Len(b) + Len(q) - Len(a) <= MaxDepth)
        BY <2>1, <3>1, <4>1, ConfTreeAssumption
      <4> QED BY <1>3, <4>2 DEF Fits
    <3> QED BY <1>2, <1>3, <2>3, <3>2
  <2> QED BY <2>2, <2>3
<1>4. ASSUME NEW q \in Path, ~Under(a, q)
      PROVE  Moved(moved, b, a)[q] = t[q]
  BY <1>1, <1>2, <1>4
<1> QED BY <1>3, <1>4 DEF moved

(* The way up to a path that is called otherwise.                           *)
LEMMA RebasedFront ==
  ASSUME NEW a \in Path, NEW b \in Path, NEW q \in Path, Under(b, q), q # b,
         a \o SubSeq(q, Len(b) + 1, Len(q)) \in Path
  PROVE  LET old == a \o SubSeq(q, Len(b) + 1, Len(q))
         IN /\ Len(old) > 1 /\ Front(q) \in Path /\ Under(b, Front(q))
            /\ a \o SubSeq(Front(q), Len(b) + 1, Len(Front(q))) = Front(old)
<1> DEFINE old == a \o SubSeq(q, Len(b) + 1, Len(q))
           f == Front(q)
           g == a \o SubSeq(f, Len(b) + 1, Len(f))
<1>1. /\ a \in Seq(Names) /\ b \in Seq(Names) /\ q \in Seq(Names) /\ q # <<>> /\ f \in Seq(Names)
      /\ Len(a) \in Nat /\ Len(b) \in Nat /\ Len(q) \in Nat /\ Len(a) >= 1 /\ Len(b) >= 1
      /\ Len(f) \in Nat /\ Len(f) = Len(q) - 1
  <2>1. q \in Seq(Names) /\ q # <<>> /\ f \in Seq(Names)
    BY PathFront
  <2>2. /\ a \in Seq(Names) /\ b \in Seq(Names)
        /\ Len(a) \in Nat /\ Len(b) \in Nat /\ Len(q) \in Nat /\ Len(a) >= 1 /\ Len(b) >= 1
    BY PathSeq, ConfTreeAssumption
  <2>3. Len(f) \in Nat /\ Len(f) = Len(q) - 1
    <3>1. Len(Front(q)) = Len(q) - 1
      BY <2>1, PathParts
    <3> HIDE DEF f
    <3>2. Len(f) \in Nat
      BY <2>1
    <3> QED BY <3>1, <3>2 DEF f
  <2> QED BY <2>1, <2>2, <2>3
<1>2. Len(b) < Len(q) /\ Under(b, f)
  BY <1>1, UnderOrder, UnderFront
<1>3. Len(q) > 1 /\ f \in Path
  BY <1>1, <1>2, PathFront
<1>4. /\ old \in Seq(Names) /\ Len(old) = Len(a) + Len(q) - Len(b)
      /\ b \o SubSeq(old, Len(a) + 1, Len(old)) = q
  BY Rebased
<1>5. /\ g \in Seq(Names) /\ Len(g) = Len(a) + Len(f) - Len(b)
      /\ b \o SubSeq(g, Len(a) + 1, Len(g)) = f
  BY <1>2, <1>3, Rebased
<1>6. \A i \in 1 .. Len(old) : old[i] = IF i <= Len(a) THEN a[i] ELSE q[i - Len(a) + Len(b)]
  <2> DEFINE rest == SubSeq(q, Len(b) + 1, Len(q))
  <2>1. /\ rest \in Seq(Names) /\ Len(rest) = Len(q) - Len(b)
        /\ \A i \in 1 .. Len(q) - Len(b) : rest[i] = q[Len(b) + i]
    BY <1>1, <1>2
  <2>2. \A i \in 1 .. Len(a) + Len(rest) : old[i] = IF i <= Len(a) THEN a[i] ELSE rest[i - Len(a)]
    <3> HIDE DEF rest
    <3> QED BY <1>1, <2>1, ConcatProperties DEF rest
  <2> HIDE DEF rest, old
  <2> SUFFICES ASSUME NEW i \in 1 .. Len(old)
               PROVE  old[i] = IF i <= Len(a) THEN a[i] ELSE q[i - Len(a) + Len(b)]
    OBVIOUS
  <2>3. i \in Nat /\ i >= 1 /\ i <= Len(a) + Len(q) - Len(b)
    BY <1>1, <1>4
  <2>4. i \in 1 .. Len(a) + Len(rest)
    BY <1>1, <1>2, <2>1, <2>3
  <2>5. ASSUME ~(i <= Len(a)) PROVE rest[i - Len(a)] = q[i - Len(a) + Len(b)]
    <3>1. i - Len(a) \in 1 .. Len(q) - Len(b) /\ Len(b) + (i - Len(a)) = i - Len(a) + Len(b)
      BY <1>1, <1>2, <2>3, <2>5
    <3> QED BY <2>1, <3>1
  <2> QED BY <2>2, <2>4, <2>5
<1>7. \A i \in 1 .. Len(g) : g[i] = IF i <= Len(a) THEN a[i] ELSE f[i - Len(a) + Len(b)]
  <2> DEFINE rest == SubSeq(f, Len(b) + 1, Len(f))
  <2>1. /\ rest \in Seq(Names) /\ Len(rest) = Len(f) - Len(b)
        /\ \A i \in 1 .. Len(f) - Len(b) : rest[i] = f[Len(b) + i]
    <3> HIDE DEF f
    <3> QED BY <1>1, <1>2
  <2>2. \A i \in 1 .. Len(a) + Len(rest) : g[i] = IF i <= Len(a) THEN a[i] ELSE rest[i - Len(a)]
    <3> HIDE DEF rest, f
    <3> QED BY <1>1, <2>1, ConcatProperties DEF rest
  <2> HIDE DEF rest, g, f
  <2> SUFFICES ASSUME NEW i \in 1 .. Len(g)
               PROVE  g[i] = IF i <= Len(a) THEN a[i] ELSE f[i - Len(a) + Len(b)]
    OBVIOUS
  <2>3. i \in Nat /\ i >= 1 /\ i <= Len(a) + Len(f) - Len(b)
    BY <1>1, <1>5
  <2>4. i \in 1 .. Len(a) + Len(rest)
    BY <1>1, <1>2, <2>1, <2>3
  <2>5. ASSUME ~(i <= Len(a)) PROVE rest[i - Len(a)] = f[i - Len(a) + Len(b)]
    <3>1. i - Len(a) \in 1 .. Len(f) - Len(b) /\ Len(b) + (i - Len(a)) = i - Len(a) + Len(b)
      BY <1>1, <1>2, <2>3, <2>5
    <3> QED BY <2>1, <3>1
  <2> QED BY <2>2, <2>4, <2>5
<1>8. \A i \in 1 .. Len(f) : f[i] = q[i]
  <2>1. q = Append(f, Last(q)) /\ Last(q) \in Names
    BY <1>1, PathParts
  <2> HIDE DEF f
  <2> QED BY <1>1, <2>1
<1> HIDE DEF old, g, f
<1>9. Len(old) > 1 /\ old # <<>>
  BY <1>1, <1>2, <1>4
<1>10. Front(old) \in Seq(Names) /\ Len(Front(old)) = Len(old) - 1
       /\ \A i \in 1 .. Len(Front(old)) : Front(old)[i] = old[i]
  <2>1. /\ old = Append(Front(old), Last(old)) /\ Last(old) \in Names /\ Front(old) \in Seq(Names)
        /\ Len(Front(old)) = Len(old) - 1
    BY <1>4, <1>9, PathParts
  <2> DEFINE h == Front(old)
  <2> HIDE DEF h
  <2>2. \A i \in 1 .. Len(h) : Append(h, Last(old))[i] = h[i]
    BY <2>1 DEF h
  <2> QED BY <2>1, <2>2 DEF h
<1>11. g = Front(old)
  <2>1. Len(g) = Len(Front(old)) /\ Len(g) \in Nat
    BY <1>1, <1>2, <1>4, <1>5, <1>10
  <2>2. ASSUME NEW i \in 1 .. Len(g) PROVE g[i] = Front(old)[i]
    <3>1. i \in 1 .. Len(old)
      BY <1>4, <1>10, <2>1
    <3>2. ASSUME ~(i <= Len(a)) PROVE i - Len(a) + Len(b) \in 1 .. Len(f)
      BY <1>1, <1>2, <1>5, <3>2
    <3> QED BY <1>6, <1>7, <1>8, <1>10, <2>1, <3>1, <3>2
  <2> QED BY <1>5, <1>10, <2>1, <2>2, SeqEqual
<1> QED BY <1>2, <1>3, <1>9, <1>11 DEF old, g, f

(* A move: the places, and what is where afterwards.                        *)
LEMMA MovedIs ==
  ASSUME NEW t \in Tree, NEW a \in Path, NEW b \in Path, NEW q \in Path
  PROVE  LET u == Moved(t, a, b)
             old == a \o SubSeq(q, Len(b) + 1, Len(q))
         IN /\ u \in [Path -> Entry]
            /\ Under(b, q) => u[q] = IF old \in Path THEN t[old] ELSE None
            /\ Under(a, q) /\ ~Under(b, q) => u[q] = None
            /\ ~Under(a, q) /\ ~Under(b, q) => u[q] = t[q]
<1>1. t \in [Path -> Entry] /\ None \in Entry
  BY DEF Tree, Entry
<1>2. Moved(t, a, b) \in [Path -> Entry]
  BY <1>1 DEF Moved
<1> QED BY <1>2 DEF Moved

(* Two places of a move: neither is below the other.                        *)
LEMMA Apart ==
  ASSUME NEW t \in Tree, NEW a \in Path, NEW b \in Path, t[a] # None, IsPlaceOfDir(t, Front(b)),
         t[b] = None \/ (t[a] # Dir /\ t[b] # Dir), t[a] = Dir => ~Under(a, b)
  PROVE  a = b \/ (~Under(a, b) /\ ~Under(b, a))
<1>1. /\ a \in Seq(Names) /\ a # <<>> /\ b \in Seq(Names) /\ b # <<>> /\ Front(b) \in Seq(Names)
  BY PathFront
<1>2. ASSUME Under(a, b), a # b PROVE FALSE
  <2>1. Under(a, Front(b))
    BY <1>1, <1>2, UnderFront
  <2>2. Front(b) # <<>>
    <3> SUFFICES ASSUME Front(b) = <<>> PROVE FALSE
      OBVIOUS
    <3>1. Len(a) <= Len(<<>>)
      BY <1>1, <2>1, UnderIs
    <3>2. Len(a) \in Nat /\ Len(a) # 0
      BY <1>1, EmptySeq
    <3> QED BY <3>1, <3>2
  <2>3. Front(b) \in Path /\ t[Front(b)] = Dir
    BY <2>2 DEF IsPlaceOfDir
  <2>4. Front(b) = a
    BY <1>2, <2>1, <2>3, NothingBelow DEF None, Dir
  <2> QED BY <1>2, <2>3, <2>4
<1>3. ASSUME Under(b, a), a # b PROVE FALSE
  BY <1>3, NothingBelow DEF None, Dir
<1> QED BY <1>2, <1>3

(* A tree with an entry and all below it moved to a free place is a tree.   *)
LEMMA MovedTree ==
  ASSUME NEW t \in Tree, NEW a \in Path, NEW b \in Path, ~Under(a, b), ~Under(b, a),
         IsPlaceOfDir(t, Front(b))
  PROVE  Moved(t, a, b) \in Tree
<1> DEFINE u == Moved(t, a, b)
           Old(q) == a \o SubSeq(q, Len(b) + 1, Len(q))
<1>0. ASSUME NEW q \in Path, Under(b, q), q # b, Old(q) \in Path
      PROVE  Len(Old(q)) > 1 /\ Under(b, Front(q)) /\ Old(Front(q)) = Front(Old(q))
  BY ONLY <1>0, RebasedFront, a \in Path, b \in Path
<1>1. Rooted(t) /\ u \in [Path -> Entry]
  BY TreeTried, MovedIs
<1>2. /\ a \in Seq(Names) /\ b \in Seq(Names) /\ b # <<>> /\ Front(b) \in Seq(Names)
  BY PathFront
<1>3. \A q \in Path :
        /\ Under(b, q) => u[q] = IF Old(q) \in Path THEN t[Old(q)] ELSE None
        /\ Under(a, q) /\ ~Under(b, q) => u[q] = None
        /\ ~Under(a, q) /\ ~Under(b, q) => u[q] = t[q]
  BY MovedIs
<1> HIDE DEF u
<1>4. Rooted(u)
  <2> SUFFICES ASSUME NEW q \in Path, Len(q) > 1, u[q] # None PROVE u[Front(q)] = Dir
    BY DEF Rooted
  <2>1. q \in Seq(Names) /\ q # <<>> /\ Front(q) \in Path /\ Front(q) \in Seq(Names) /\ Front(q) # <<>>
    BY PathFront
  <2>2. CASE q = b
    <3>1. t[Front(q)] = Dir
      BY <2>1, <2>2 DEF IsPlaceOfDir
    <3>2. ~Under(a, Front(q)) /\ ~Under(b, Front(q))
      BY <1>2, <2>1, <2>2, UnderFront
    <3> QED BY <1>3, <2>1, <3>1, <3>2
  <2>3. CASE Under(b, q) /\ q # b
    <3>1. Old(q) \in Path /\ t[Old(q)] # None
      BY <1>3, <2>3
    <3>2. Len(Old(q)) > 1 /\ Under(b, Front(q)) /\ Old(Front(q)) = Front(Old(q))
      BY <1>0, <2>3, <3>1
    <3> HIDE DEF Old
    <3>3. t[Front(Old(q))] = Dir
      BY <1>1, <3>1, <3>2 DEF Rooted
    <3>4. Front(Old(q)) \in Path
      BY <3>1, <3>2, PathFront
    <3> QED BY <1>3, <2>1, <3>2, <3>3, <3>4
  <2>4. CASE ~Under(b, q)
    <3>1. ~Under(a, q) /\ t[q] # None
      BY <1>3, <2>4
    <3>2. ~Under(a, Front(q)) /\ ~Under(b, Front(q))
      BY <1>2, <2>1, <2>4, <3>1, UnderFront
    <3>3. t[Front(q)] = Dir
      BY <1>1, <3>1 DEF Rooted
    <3> QED BY <1>3, <2>1, <3>2, <3>3
  <2> QED BY <2>2, <2>3, <2>4
<1> QED BY <1>1, <1>4 DEF u, Tree

(* os.Rename leaves a tree.                                                 *)
LEMMA MovedToTree ==
  ASSUME NEW t \in Tree, NEW a \in Path, NEW b \in Path, t[a] # None, IsPlaceOfDir(t, Front(b))
  PROVE  MovedTo(t, a, b).tree \in Tree
<1>1. CASE ~MovedTo(t, a, b).ok
  BY <1>1 DEF MovedTo, Leaves
<1>2. CASE MovedTo(t, a, b).ok
  <2>1. /\ t[b] = None \/ (t[a] # Dir /\ t[b] # Dir)
        /\ t[a] = Dir => ~Under(a, b)
        /\ MovedTo(t, a, b).tree = Moved(t, a, b)
    BY <1>2 DEF MovedTo, Leaves
  <2>2. CASE a = b
    <3>1. \A q \in Path : Moved(t, a, a)[q] = t[q]
      <4> SUFFICES ASSUME NEW q \in Path PROVE Moved(t, a, a)[q] = t[q]
        OBVIOUS
      <4>1. Under(a, q) => a \o SubSeq(q, Len(a) + 1, Len(q)) = q
        <5> SUFFICES ASSUME Under(a, q) PROVE a \o SubSeq(q, Len(a) + 1, Len(q)) = q
          OBVIOUS
        <5>1. a \in Seq(Names) /\ q \in Seq(Names) /\ Len(a) \in Nat /\ Len(q) \in Nat /\ Len(a) >= 1
          BY PathSeq, ConfTreeAssumption
        <5>2. Len(a) <= Len(q) /\ SubSeq(a, 1, Len(a)) = SubSeq(q, 1, Len(a))
          BY DEF Under, IsPrefix
        <5>3. a = SubSeq(q, 1, Len(a))
          BY <5>1, <5>2, SubSeqFull
        <5> QED BY <5>1, <5>2, <5>3, ConcatAdjacentSubSeq
      <4>2. /\ Under(a, q) => Moved(t, a, a)[q]
                 = IF a \o SubSeq(q, Len(a) + 1, Len(q)) \in Path
                   THEN t[a \o SubSeq(q, Len(a) + 1, Len(q))] ELSE None
            /\ ~Under(a, q) => Moved(t, a, a)[q] = t[q]
        BY MovedIs
      <4> QED BY <4>1, <4>2
    <3>2. Moved(t, a, a) \in [Path -> Entry] /\ t \in [Path -> Entry]
      BY TreeTried, MovedIs DEF Tried
    <3>3. Moved(t, a, a) = t
      BY <3>1, <3>2
    <3> QED BY <2>1, <2>2, <3>3
  <2>3. CASE a # b
    <3>1. ~Under(a, b) /\ ~Under(b, a)
      BY <2>1, <2>3, Apart
    <3> QED BY <2>1, <3>1, MovedTree
  <2> QED BY <2>2, <2>3
<1> QED BY <1>1, <1>2

-----------------------------------------------------------------------------
(* Rename.                                                                 *)

(* The place a move goes to is free, before and after the way is made.      *)
LEMMA FreePlace ==
  ASSUME NEW t \in Tree, NEW to \in Path, Lstat(t, to) = None,
         MkdirAll(t, Front(to)).ok, HasPlace(MkdirAll(t, Front(to)).tree, to)
  PROVE  LET m == MkdirAll(t, Front(to)).tree
             b == Place(m, to)
         IN /\ m \in Tree /\ Extends(t, m) /\ b \in Path /\ IsPlaceOfDir(m, Front(b))
            /\ Front(b) = Target(m, Front(to)) /\ Last(b) = Last(to)
            /\ \A q \in Path : Under(b, q) => m[q] = None /\ t[q] = None
            /\ Finds(t, Front(to)) => HasPlace(t, to) /\ Place(t, to) = b /\ m = t
            /\ Unlinked(t, Front(to)) => Target(m, Front(to)) = Front(to) /\ b = to
<1> DEFINE m == MkdirAll(t, Front(to)).tree
           b == Place(m, to)
           d == Target(m, Front(to))
<1>1. Tried(t) /\ to \in Seq(Names) /\ to # <<>> /\ Front(to) \in Seq(Names)
  BY TreeTried, PathFront
<1>2. /\ m \in Tree /\ Extends(t, m) /\ IsDir(m, Front(to))
      /\ m = t \/ Fresh(t, m, d)
      /\ Unlinked(t, Front(to)) => d = Front(to)
  BY <1>1, MakesAll
<1> HIDE DEF m
<1>3. Tried(m)
  BY <1>2, TreeTried
<1>4. b \in Path /\ Front(b) = d /\ IsPlaceOfDir(m, Front(b)) /\ b = Append(d, Last(to)) /\ Last(b) = Last(to)
  BY <1>1, <1>3, AtPlace DEF m, Place
<1> HIDE DEF b, d
<1>5. b \in Seq(Names) /\ b # <<>> /\ Front(b) \in Seq(Names) /\ Under(Front(b), b) /\ Front(b) # b
  <2>1. b \in Seq(Names) /\ b # <<>> /\ Front(b) \in Seq(Names) /\ Front(b) # b
    BY <1>4, PathFront
  <2>2. Under(Front(b), Front(b))
    BY <2>1, UnderOrder
  <2> QED BY <2>1, <2>2, UnderFront
<1>6. ASSUME Finds(t, Front(to))
      PROVE  HasPlace(t, to) /\ Place(t, to) = b /\ m = t /\ t[b] = None
  <2>1. KeepsBut(t, m, {})
    BY <1>1, <1>2, <1>3, ExtendsKeeps
  <2>2. Target(t, Front(to)) = d /\ (IsFile(t, Front(to)) => IsFile(m, Front(to)))
    BY <1>1, <1>3, <1>6, <2>1, FoundKept DEF d
  <2>3. IsDir(t, Front(to))
    BY <1>1, <1>2, <1>3, <1>6, <2>2, Found
  <2>4. HasPlace(t, to) /\ Place(t, to) = b
    BY <1>4, <2>2, <2>3 DEF HasPlace, Place
  <2>5. t[b] = None
    BY <2>4 DEF Lstat
  <2>6. ~Fresh(t, m, d)
    <3>1. IsPlaceOfDir(t, d)
      BY <1>1, <2>2, <2>3, Found
    <3>2. d \in Path => d # <<>>
      BY PathFront
    <3> QED BY <3>1, <3>2 DEF Fresh, IsPlaceOfDir, None, Dir
  <2> QED BY <1>2, <2>4, <2>5, <2>6
<1>7. m[b] = None /\ t[b] = None
  <2>1. CASE Finds(t, Front(to))
    BY <1>6, <2>1
  <2>2. CASE ~Finds(t, Front(to))
    <3>1. Fresh(t, m, Front(b))
      BY <1>2, <1>4, <2>2 DEF IsDir
    <3>2. m[b] = None
      BY <1>4, <1>5, <3>1 DEF Fresh
    <3> QED BY <1>2, <1>4, <3>2 DEF Extends, None, Dir
  <2> QED BY <2>1, <2>2
<1>8. ASSUME NEW q \in Path, Under(b, q) PROVE m[q] = None /\ t[q] = None
  BY <1>2, <1>4, <1>7, <1>8, NothingBelow DEF None, Dir
<1>9. ASSUME Unlinked(t, Front(to)) PROVE d = Front(to) /\ b = to
  BY <1>1, <1>2, <1>4, <1>9, PathParts
<1> QED BY <1>2, <1>4, <1>6, <1>8, <1>9 DEF b, d, m

(* What a rename asks of its paths: see Straight.                           *)
StraightWay(t, from, to) ==
  /\ ~Through(t, from, Place(t, from)) /\ ~Through(t, to, Place(t, from))
  /\ Finds(t, Front(to)) \/ Unlinked(t, Front(to))

(* What a rename that is done makes of the tree: the entry moved, to a      *)
(* place that was free, the directories above it made.                      *)
LEMMA RenameDoes ==
  ASSUME NEW t \in Tree, NEW from \in Path, NEW to \in Path, Rename(t, from, to).ok
  PROVE  LET m == MkdirAll(t, Front(to)).tree
             a == Place(t, from)
             b == Place(m, to)
             u == Rename(t, from, to).tree
         IN /\ HasPlace(t, from) /\ a \in Path /\ b \in Path
            /\ m \in Tree /\ Extends(t, m) /\ u \in Tree /\ u = Moved(m, a, b)
            /\ t[a] # None /\ m[a] = t[a] /\ ~Under(a, b) /\ ~Under(b, a) /\ Fits(m, a, b)
            /\ \A q \in Path : Under(b, q) => m[q] = None /\ t[q] = None
            /\ StraightWay(t, from, to) =>
                 /\ HasPlace(u, from) /\ Place(u, from) = a
                 /\ HasPlace(u, to) /\ Place(u, to) = b
                 /\ Finds(t, Front(to)) => b = Place(t, to)
                 /\ ~Finds(t, Front(to)) => b = to
<1> DEFINE made == MkdirAll(t, Front(to))
           m == made.tree
           a == Place(t, from)
           b == Place(m, to)
           u == Rename(t, from, to).tree
<1>1. /\ Lstat(t, from) # None /\ Lstat(t, to) = None /\ made.ok /\ HasPlace(m, to)
      /\ MovedTo(m, a, b).ok /\ u = MovedTo(m, a, b).tree
  BY DEF Rename, Leaves
<1>2. /\ from \in Seq(Names) /\ from # <<>> /\ to \in Seq(Names) /\ to # <<>> /\ Front(to) \in Seq(Names)
      /\ Tried(t)
  BY TreeTried, PathFront
<1>3. HasPlace(t, from) /\ a \in Path /\ t[a] # None /\ IsPlaceOfDir(t, Front(a))
  <2>1. HasPlace(t, from)
    BY <1>1 DEF Lstat
  <2> QED BY <1>1, <1>2, <2>1, AtPlace
<1>4. /\ m \in Tree /\ Extends(t, m) /\ b \in Path /\ IsPlaceOfDir(m, Front(b))
      /\ Front(b) = Target(m, Front(to)) /\ Last(b) = Last(to)
      /\ \A q \in Path : Under(b, q) => m[q] = None /\ t[q] = None
      /\ Finds(t, Front(to)) => HasPlace(t, to) /\ Place(t, to) = b /\ m = t
      /\ Unlinked(t, Front(to)) => Target(m, Front(to)) = Front(to) /\ b = to
  BY <1>1, FreePlace
<1> HIDE DEF made, u
<1>5. /\ m[b] = None \/ (m[a] # Dir /\ m[b] # Dir)
      /\ m[a] = Dir => ~Under(a, b)
      /\ Fits(m, a, b) /\ u = Moved(m, a, b)
  <2> HIDE DEF a, b
  <2> QED BY <1>1 DEF MovedTo, Leaves
<1>6. m[a] = t[a]
  BY <1>3, <1>4 DEF Extends
<1>7. a \in Seq(Names) /\ b \in Seq(Names) /\ a # <<>> /\ b # <<>>
  BY <1>3, <1>4, PathFront
<1> HIDE DEF a, b
<1>8. ~Under(a, b) /\ ~Under(b, a)
  <2>1. Under(b, b)
    BY <1>7, UnderOrder
  <2>2. a # b
    BY <1>3, <1>4, <1>6, <2>1
  <2> QED BY <1>3, <1>4, <1>5, <1>6, <2>2, Apart
<1>9. u \in Tree
  BY <1>3, <1>4, <1>5, <1>8, MovedTree
<1>10. \A q \in Path : ~Under(a, q) /\ m[q] # None => u[q] = m[q]
  <2> SUFFICES ASSUME NEW q \in Path, ~Under(a, q), m[q] # None PROVE u[q] = m[q]
    OBVIOUS
  <2>1. ~Under(b, q)
    BY <1>4
  <2>2. ~Under(a, q) /\ ~Under(b, q) => Moved(m, a, b)[q] = m[q]
    BY <1>3, <1>4, MovedIs
  <2> QED BY <1>5, <2>1, <2>2
<1>11. \A q \in Path : ~Under(a, q) /\ t[q] # None => u[q] = t[q]
  BY <1>4, <1>10 DEF Extends, None, Dir
<1>12. ASSUME StraightWay(t, from, to)
       PROVE  /\ HasPlace(u, from) /\ Place(u, from) = a
              /\ HasPlace(u, to) /\ Place(u, to) = b
              /\ Finds(t, Front(to)) => b = Place(t, to)
              /\ ~Finds(t, Front(to)) => b = to
  <2>1. ~Through(t, from, a) /\ ~Through(t, to, a) /\ (Finds(t, Front(to)) \/ Unlinked(t, Front(to)))
    BY <1>12 DEF StraightWay, a
  <2>2. ~Under(a, Front(a)) /\ ~Under(a, Front(b)) /\ ~Under(b, Front(b))
    BY <1>7, <1>8, UnderFront
  <2>3. HasPlace(u, from) /\ Place(u, from) = a
    <3>1. a = Place(t, from)
      BY DEF a
    <3> QED BY <1>2, <1>3, <1>9, <1>11, <2>1, <2>2, <3>1, FoundAfter
  <2>4. CASE Finds(t, Front(to))
    <3>1. HasPlace(t, to) /\ Place(t, to) = b
      BY <1>4, <2>4
    <3>2. HasPlace(u, to) /\ Place(u, to) = b
      BY <1>2, <1>3, <1>9, <1>11, <2>1, <2>2, <3>1, FoundAfter
    <3> QED BY <2>3, <2>4, <3>1, <3>2
  <2>5. CASE ~Finds(t, Front(to))
    <3>1. b = to /\ Front(b) = Front(to) /\ IsPlaceOfDir(m, Front(to))
      BY <1>4, <2>1, <2>5
    <3>2. IsPlaceOfDir(u, Front(to))
      BY <1>10, <2>2, <3>1 DEF IsPlaceOfDir, None, Dir
    <3>3. EvalSymlinks(u, Front(to)) = [got |-> "found", at |-> Front(to)]
      BY <1>2, <1>9, <3>2, RealPath DEF Leads
    <3>4. IsDir(u, Front(to)) /\ Target(u, Front(to)) = Front(to)
      <4>1. Tried(u)
        BY <1>9, TreeTried
      <4> QED BY <1>2, <3>2, <3>3, <4>1, Found DEF Finds, Target
    <3>5. Append(Front(to), Last(to)) = to
      BY <1>2, PathParts
    <3>6. HasPlace(u, to) /\ Place(u, to) = b
      BY <3>1, <3>4, <3>5 DEF HasPlace, Place
    <3> QED BY <2>3, <2>5, <3>1, <3>6
  <2> QED BY <2>4, <2>5
<1> QED BY <1>3, <1>4, <1>5, <1>6, <1>8, <1>9, <1>12 DEF a, b, u, made

(* Its restore closure.                                                     *)
LEMMA RenameUndoes ==
  ASSUME NEW t \in Tree, NEW from \in Path, NEW to \in Path, Rename(t, from, to).ok
  PROVE  LET m == MkdirAll(t, Front(to)).tree
             u == Rename(t, from, to).tree
             v == RenameRestore(u, from, to).tree
         IN v \in Tree /\ (StraightWay(t, from, to) => v = m)
<1> DEFINE m == MkdirAll(t, Front(to)).tree
           a == Place(t, from)
           b == Place(m, to)
           u == Rename(t, from, to).tree
           v == RenameRestore(u, from, to).tree
<1>1. /\ a \in Path /\ b \in Path /\ m \in Tree /\ u \in Tree /\ u = Moved(m, a, b)
      /\ m[a] # None /\ ~Under(a, b) /\ ~Under(b, a) /\ Fits(m, a, b)
      /\ \A q \in Path : Under(b, q) => m[q] = None
      /\ StraightWay(t, from, to) =>
           /\ HasPlace(u, from) /\ Place(u, from) = a
           /\ HasPlace(u, to) /\ Place(u, to) = b
  BY RenameDoes
<1> HIDE DEF m, a, b, u
<1>2. Tried(u) /\ from \in Seq(Names) /\ from # <<>> /\ to \in Seq(Names) /\ to # <<>>
  BY <1>1, TreeTried, PathFront
<1>3. v \in Tree
  <2>1. CASE HasPlace(u, from) /\ Lstat(u, to) # None
    <3>1. v = MovedTo(u, Place(u, to), Place(u, from)).tree
      BY <2>1 DEF RenameRestore
    <3>2. HasPlace(u, to)
      BY <2>1 DEF Lstat
    <3>3. /\ Place(u, to) \in Path /\ u[Place(u, to)] # None
          /\ Place(u, from) \in Path /\ IsPlaceOfDir(u, Front(Place(u, from)))
      BY <1>2, <2>1, <3>2, AtPlace
    <3> QED BY <1>1, <3>1, <3>3, MovedToTree
  <2>2. CASE ~(HasPlace(u, from) /\ Lstat(u, to) # None)
    BY <1>1, <2>2 DEF RenameRestore, Leaves
  <2> QED BY <2>1, <2>2
<1>4. ASSUME StraightWay(t, from, to) PROVE v = m
  <2>1. a \in Seq(Names) /\ b \in Seq(Names) /\ Len(a) \in Nat /\ Len(b) \in Nat
        /\ Under(a, a) /\ Under(b, b)
    <3>1. a \in Seq(Names) /\ b \in Seq(Names)
      BY <1>1, PathFront
    <3> QED BY <3>1, UnderOrder
  <2>2. u[a] = None
    BY <1>1, <2>1, MovedIs
  <2>3. ASSUME NEW q \in Path, Under(b, q), u[q] # None
        PROVE  LET old == a \o SubSeq(q, Len(b) + 1, Len(q))
               IN old \in Path /\ u[q] = m[old] /\ Len(old) = Len(a) + Len(q) - Len(b)
    <3>1. /\ u[q] = IF a \o SubSeq(q, Len(b) + 1, Len(q)) \in Path
                    THEN m[a \o SubSeq(q, Len(b) + 1, Len(q))] ELSE None
      BY <1>1, <2>3, MovedIs
    <3>2. Len(a \o SubSeq(q, Len(b) + 1, Len(q))) = Len(a) + Len(q) - Len(b)
      BY <1>1, <2>3, Rebased
    <3> QED BY <2>3, <3>1, <3>2
  <2>4. u[b] # None
    <3>1. /\ u[b] = IF a \o SubSeq(b, Len(b) + 1, Len(b)) \in Path
                    THEN m[a \o SubSeq(b, Len(b) + 1, Len(b))] ELSE None
      BY <1>1, <2>1, MovedIs
    <3>2. a \o SubSeq(b, Len(b) + 1, Len(b)) = a
      <4>1. SubSeq(b, Len(b) + 1, Len(b)) = <<>>
        BY <2>1, SubSeqEmpty
      <4>2. a \o <<>> = a
        BY <2>1, ConcatEmptySeq
      <4> QED BY <4>1, <4>2
    <3> QED BY <1>1, <3>1, <3>2
  <2>5. Fits(u, b, a)
    <3> SUFFICES ASSUME NEW q \in Path, Under(b, q), u[q] # None
                 PROVE  Len(a) + Len(q) - Len(b) <= MaxDepth
      BY DEF Fits
    <3>1. a \o SubSeq(q, Len(b) + 1, Len(q)) \in Path
          /\ Len(a \o SubSeq(q, Len(b) + 1, Len(q))) = Len(a) + Len(q) - Len(b)
      BY <2>3
    <3> DEFINE old == a \o SubSeq(q, Len(b) + 1, Len(q))
    <3> HIDE DEF old
    <3>2. old \in Path /\ Len(old) = Len(a) + Len(q) - Len(b)
      BY <3>1 DEF old
    <3>3. Len(old) \in 1 .. MaxDepth
      BY <3>2, PathSeq
    <3> QED BY <3>2, <3>3, ConfTreeAssumption
  <2>6. HasPlace(u, from) /\ Place(u, from) = a /\ HasPlace(u, to) /\ Place(u, to) = b
    BY <1>1, <1>4
  <2>7. Lstat(u, to) # None
    BY <1>2, <2>4, <2>6, AtPlace
  <2>8. v = Moved(u, b, a)
    BY <1>1, <2>2, <2>5, <2>6, <2>7 DEF RenameRestore, MovedTo, Leaves
  <2>9. \A q \in Path : Moved(u, b, a)[q] = m[q]
    BY <1>1, MovesBack
  <2>10. Moved(u, b, a) \in [Path -> Entry] /\ m \in [Path -> Entry]
    BY <1>1, MovedIs DEF Tree
  <2> QED BY <2>8, <2>9, <2>10
<1> QED BY <1>3, <1>4 DEF m, u, v

-----------------------------------------------------------------------------
(* What holding mutate makes of a change.                                  *)

Served == Writes \cup OnPath \cup Renames

(* The save r is over the content it names.                                 *)
OverBase(t, r) ==
  r.act = "write" /\ r.base # Absent =>
    Resolves(t, r.path) /\ IsFile(t, r.path) /\ Content(t, r.path) = r.base

(* A handler at work serves a request.                                      *)
TypeInv ==
  /\ pc \in [Procs -> Steps] /\ req \in [Procs -> Served \cup {NoRequest}]
  /\ \A p \in Procs : pc[p] # "idle" => req[p] \in Served
  /\ undo = [p \in Procs |-> undo[p]]
  /\ mutate \in Procs \cup {NoOne}

(* Who changes the directory holds mutate.                                  *)
LockInv == \A p \in Procs : mutate = p <=> pc[p] # "idle"

(* A candidate on disk is what its request makes of the directory that its  *)
(* handler found.                                                           *)
CandidateInv ==
  \A p \in Procs : Staged(p) =>
    /\ Changed(undo[p].tree, req[p]).ok
    /\ tree = Changed(undo[p].tree, req[p]).tree
    /\ req[p].act \in {"write", "delete", "rename"}

(* The store is asked to follow only what nginx accepted.                   *)
AcceptedInv == \A p \in Procs : pc[p] = "meta" => Valid(tree)

(* The content a save is based on is still there when it is written.        *)
SaveInv ==
  \A p \in Procs :
    /\ pc[p] = "apply" => OverBase(tree, req[p])
    /\ Staged(p) => OverBase(undo[p].tree, req[p])

IInv == TypeInv /\ LockInv /\ CandidateInv /\ AcceptedInv /\ SaveInv

-----------------------------------------------------------------------------
(* It holds of the directory lightngx starts on.                            *)
LEMMA InitInv == Init => IInv
<1> SUFFICES ASSUME Init PROVE IInv
  OBVIOUS
<1>1. TypeInv /\ LockInv
  BY GuardedConfigAssumption DEF Init, TypeInv, LockInv, Steps
<1>2. CandidateInv /\ AcceptedInv /\ SaveInv
  BY DEF Init, CandidateInv, AcceptedInv, SaveInv, Staged
<1> QED BY <1>1, <1>2 DEF IInv

(* A handler takes the request r: only when nobody else is at work.         *)
LEMMA BeginInv ==
  ASSUME IInv, NEW p \in Procs, NEW r \in Served, Begin(p, r)
  PROVE  IInv'
<1>1. /\ mutate = NoOne /\ mutate' = p /\ pc[p] = "idle"
      /\ pc' = [pc EXCEPT ![p] = IF r.act = "write" /\ r.base # Absent THEN "check" ELSE "apply"]
      /\ req' = [req EXCEPT ![p] = r] /\ UNCHANGED <<tree, tagged, undo>>
  BY DEF Begin, Goto
<1>2. \A q \in Procs : pc[q] = "idle"
  BY <1>1, GuardedConfigAssumption DEF IInv, LockInv
<1>3. TypeInv'
  BY <1>1 DEF IInv, TypeInv, Steps
<1>4. LockInv'
  BY <1>1, <1>2 DEF IInv, TypeInv, LockInv
<1>5. \A q \in Procs : ~Staged(q)' /\ pc'[q] # "meta"
  BY <1>1, <1>2 DEF IInv, TypeInv, Staged
<1>6. CandidateInv' /\ AcceptedInv'
  BY <1>5 DEF CandidateInv, AcceptedInv
<1>7. SaveInv'
  <2>1. \A q \in Procs : pc'[q] = "apply" => q = p /\ ~(r.act = "write" /\ r.base # Absent)
    BY <1>1, <1>2 DEF IInv, TypeInv
  <2>2. req'[p] = r
    BY <1>1 DEF IInv, TypeInv
  <2> QED BY <1>5, <2>1, <2>2 DEF SaveInv, OverBase
<1> QED BY <1>3, <1>4, <1>6, <1>7 DEF IInv

(* A handler answers and releases mutate: nothing is said of its change any *)
(* more, and nobody else is at work.                                        *)
LEMMA AnswerInv ==
  ASSUME IInv, NEW p \in Procs, NEW from \in Steps \ {"idle"}, Answer(p, from)
  PROVE  IInv'
<1>1. /\ pc[p] = from /\ pc' = [pc EXCEPT ![p] = "idle"] /\ mutate' = NoOne
      /\ req' = [req EXCEPT ![p] = NoRequest] /\ undo' = [undo EXCEPT ![p] = NoUndo]
  BY DEF Answer, Goto
<1>2. \A q \in Procs : q # p => pc[q] = "idle"
  BY <1>1 DEF IInv, LockInv
<1>3. \A q \in Procs : pc'[q] = "idle"
  BY <1>1, <1>2 DEF IInv, TypeInv
<1>4. TypeInv'
  BY <1>1 DEF IInv, TypeInv, Steps
<1>5. LockInv'
  BY <1>1, <1>3, GuardedConfigAssumption DEF LockInv
<1>6. CandidateInv' /\ AcceptedInv' /\ SaveInv'
  BY <1>3 DEF CandidateInv, AcceptedInv, SaveInv, Staged
<1> QED BY <1>4, <1>5, <1>6 DEF IInv

(* A handler goes on, the directory as it is.                               *)
LEMMA GoesOnInv ==
  ASSUME IInv, NEW p \in Procs, NEW from \in Steps \ {"idle"}, NEW to \in Steps \ {"idle"},
         Goto(p, from, to), UNCHANGED <<tree, tagged, mutate, req, undo>>,
         to \in {"test", "meta", "rollback"} => from \in {"test", "meta", "rollback"},
         to = "meta" => Valid(tree),
         to = "apply" => OverBase(tree, req[p])
  PROVE  IInv'
<1>1. pc[p] = from /\ pc' = [pc EXCEPT ![p] = to]
  BY DEF Goto
<1>2. \A q \in Procs : q # p => pc[q] = "idle" /\ pc'[q] = "idle"
  BY <1>1 DEF IInv, TypeInv, LockInv
<1>3. pc'[p] = to
  BY <1>1 DEF IInv, TypeInv
<1>4. TypeInv'
  BY <1>1 DEF IInv, TypeInv
<1>5. LockInv'
  BY <1>1, <1>2, <1>3 DEF IInv, LockInv
<1>6. \A q \in Procs : Staged(q)' => Staged(q)
  BY <1>1, <1>2, <1>3 DEF Staged
<1>7. CandidateInv'
  BY <1>6 DEF IInv, CandidateInv
<1>8. AcceptedInv'
  BY <1>2, <1>3 DEF AcceptedInv, Valid
<1>9. SaveInv'
  BY <1>2, <1>3, <1>6 DEF IInv, SaveInv
<1> QED BY <1>4, <1>5, <1>7, <1>8, <1>9 DEF IInv

(* The change goes to disk: over the directory the handler remembers.       *)
LEMMA ApplyInv == ASSUME IInv, NEW p \in Procs, Apply(p) PROVE IInv'
<1>1. /\ pc[p] = "apply" /\ pc' = [pc EXCEPT ![p] = "test"] /\ req[p].act # "mkdir"
      /\ Changed(tree, req[p]).ok /\ tree' = Changed(tree, req[p]).tree
      /\ UNCHANGED <<mutate, req>>
  BY DEF Apply, Goto
<1>2. undo' = [undo EXCEPT ![p] = undo'[p]] /\ undo'[p].tree = tree
  BY DEF Apply, Remember, IInv, TypeInv
<1>3. \A q \in Procs : q # p => pc[q] = "idle" /\ pc'[q] = "idle"
  BY <1>1 DEF IInv, TypeInv, LockInv
<1>4. pc'[p] = "test"
  BY <1>1 DEF IInv, TypeInv
<1>5. TypeInv'
  BY <1>1, <1>2 DEF IInv, TypeInv, Steps
<1>6. LockInv'
  BY <1>1, <1>3, <1>4 DEF IInv, LockInv
<1>7. req[p].act \in {"write", "delete", "rename"}
  <2>1. req[p] \in Served
    BY <1>1 DEF IInv, TypeInv
  <2> QED BY <1>1, <2>1 DEF Served, Writes, OnPath, Renames
<1>8. CandidateInv'
  BY <1>1, <1>2, <1>3, <1>4, <1>7 DEF CandidateInv, Staged
<1>9. AcceptedInv'
  BY <1>3, <1>4 DEF AcceptedInv
<1>10. SaveInv'
  BY <1>1, <1>2, <1>3, <1>4 DEF IInv, SaveInv, Staged
<1> QED BY <1>5, <1>6, <1>8, <1>9, <1>10 DEF IInv

(* What happens while no handler has the directory in its hands.            *)
LEMMA QuietInv ==
  ASSUME IInv, UNCHANGED <<tree, mutate, pc, req, undo>>
  PROVE  IInv'
BY DEF IInv, TypeInv, LockInv, CandidateInv, AcceptedInv, SaveInv, Staged, Valid

(* Every step of a handler keeps it.                                        *)
LEMMA HandleInv == ASSUME IInv, NEW p \in Procs, Handle(p) PROVE IInv'
<1>1. CASE CheckBase(p)
  <2>1. OverBase(tree, req[p])
    BY <1>1 DEF CheckBase, BaseIsCurrent, OverBase
  <2> QED BY <1>1, <2>1, GoesOnInv DEF CheckBase, Steps
<1>2. CASE Conflict(p)
  BY <1>2, AnswerInv DEF Conflict, Steps
<1>3. CASE Apply(p)
  BY <1>3, ApplyInv
<1>4. CASE ApplyEnds(p)
  BY <1>4, AnswerInv DEF ApplyEnds, Steps
<1>5. CASE TestPasses(p)
  <2>1. CASE Answer(p, "test")
    BY <2>1, AnswerInv DEF Steps
  <2>2. CASE Goto(p, "test", "meta") /\ UNCHANGED <<mutate, req, undo>>
    BY <1>5, <2>2, GoesOnInv DEF TestPasses, Steps
  <2> QED BY <1>5, <2>1, <2>2 DEF TestPasses
<1>6. CASE TestFails(p)
  BY <1>6, GoesOnInv DEF TestFails, Steps
<1>7. CASE StoreCommits(p)
  BY <1>7, AnswerInv DEF StoreCommits, Steps
<1>8. CASE StoreFails(p)
  BY <1>8, GoesOnInv DEF StoreFails, Steps
<1>9. CASE Rollback(p)
  BY <1>9, AnswerInv DEF Rollback, Steps
<1> QED BY <1>1, <1>2, <1>3, <1>4, <1>5, <1>6, <1>7, <1>8, <1>9 DEF Handle

(* And every step.                                                          *)
LEMMA StepInv == ASSUME IInv, [Next]_vars PROVE IInv'
<1>1. CASE \E p \in Procs, r \in Writes \cup OnPath \cup Renames : Begin(p, r)
  BY <1>1, BeginInv DEF Served
<1>2. CASE \E p \in Procs : Handle(p)
  BY <1>2, HandleInv
<1>3. CASE UNCHANGED <<tree, mutate, pc, req, undo>>
  BY <1>3, QuietInv
<1>4. \A p \in Path, on \in BOOLEAN :
        SetFileTags(p, on) => UNCHANGED <<tree, mutate, pc, req, undo>>
  BY DEF SetFileTags
<1>5. RestartBegins \/ RestartStep \/ Respawn \/ UNCHANGED vars
        => UNCHANGED <<tree, mutate, pc, req, undo>>
  BY DEF RestartBegins, RestartStep, RestartTests, RestartStops, RestartStarts, Respawn, Edits, vars
<1> QED BY <1>1, <1>2, <1>3, <1>4, <1>5 DEF Next

(* So it always holds.                                                      *)
LEMMA AlwaysIInv == Spec => []IInv
<1>1. Init => IInv
  BY InitInv
<1>2. IInv /\ [Next]_vars => IInv'
  BY StepInv
<1> QED BY <1>1, <1>2, PTL DEF Spec

-----------------------------------------------------------------------------
(* One change at a time: a handler that is at work, and nobody else, holds  *)
(* mutate (the mutex every handler that changes the directory takes first). *)
OneChange == \A p \in Procs : pc[p] # "idle" <=> mutate = p

(* No two handlers ever change the directory at once.                       *)
THEOREM OneChangeAtATime == Spec => []OneChange
<1>1. IInv => OneChange
  BY DEF IInv, LockInv, OneChange
<1> QED BY <1>1, AlwaysIInv, PTL

(* Which handler a step belongs to: only its own steps move it, and of them *)
(* TestPasses and StoreCommits end a change that counts, Rollback one that  *)
(* does not.                                                                *)
LEMMA Ends ==
  ASSUME IInv, [Next]_vars, NEW p \in Procs, pc[p] # "idle", pc'[p] = "idle"
  PROVE  /\ pc[p] \in {"test", "meta"} => Valid(tree) /\ UNCHANGED tree
         /\ pc[p] = "rollback" => Rollback(p)
<1>1. ASSUME NEW q \in Procs, NEW r \in Served, Begin(q, r) PROVE FALSE
  BY <1>1, GuardedConfigAssumption DEF Begin, IInv, LockInv
<1>2. \A q \in Procs : Handle(q) => \E to \in Steps : pc' = [pc EXCEPT ![q] = to]
  BY DEF Handle, CheckBase, Conflict, Apply, ApplyEnds, TestPasses, TestFails, StoreCommits,
         StoreFails, Rollback, Answer, Goto, Steps
<1>3. \A q \in Procs : Handle(q) => q = p
  BY <1>2 DEF IInv, TypeInv
<1>4. ~UNCHANGED pc
  OBVIOUS
<1>5. Handle(p)
  <2>1. \A q \in Path, on \in BOOLEAN : ~SetFileTags(q, on)
    BY <1>4 DEF SetFileTags
  <2>2. ~RestartBegins /\ ~RestartStep /\ ~Respawn /\ ~UNCHANGED vars
    BY <1>4 DEF RestartBegins, RestartStep, RestartTests, RestartStops, RestartStarts, Respawn,
                Edits, vars
  <2> QED BY <1>1, <1>3, <2>1, <2>2 DEF Next, Served
<1>6. ASSUME pc[p] \in {"test", "meta"} PROVE Valid(tree) /\ UNCHANGED tree
  <2>1. TestPasses(p) \/ StoreCommits(p)
    BY <1>5, <1>6 DEF Handle, CheckBase, Conflict, Apply, ApplyEnds, TestFails, StoreFails,
                      Rollback, Answer, Goto, IInv, TypeInv
  <2> QED BY <2>1 DEF TestPasses, StoreCommits, Answer, Goto, IInv, AcceptedInv
<1>7. ASSUME pc[p] = "rollback" PROVE Rollback(p)
  BY <1>5, <1>7 DEF Handle, CheckBase, Conflict, Apply, ApplyEnds, TestPasses, TestFails,
                    StoreCommits, StoreFails, Answer, Goto
<1> QED BY <1>6, <1>7

(* "Every write, rename, delete and site toggle runs nginx -t before it     *)
(* counts" (editor.md): when a change counts, the directory is one nginx    *)
(* accepts, and is what the request makes of the directory its handler      *)
(* found, whatever other handlers and restarts did in between.              *)
OnlyAcceptedCounts ==
  [][\A p \in Procs :
       pc[p] \in {"test", "meta"} /\ pc'[p] = "idle" =>
         /\ Valid(tree) /\ UNCHANGED tree
         /\ Changed(undo[p].tree, req[p]).ok
         /\ tree = Changed(undo[p].tree, req[p]).tree]_vars

(* What counts was accepted by nginx -t and is what was asked for.          *)
THEOREM CountsOnlyAccepted == Spec => OnlyAcceptedCounts
<1> DEFINE Accepted ==
      \A p \in Procs :
        pc[p] \in {"test", "meta"} /\ pc'[p] = "idle" =>
          /\ Valid(tree) /\ UNCHANGED tree
          /\ Changed(undo[p].tree, req[p]).ok
          /\ tree = Changed(undo[p].tree, req[p]).tree
<1>1. ASSUME IInv, [Next]_vars PROVE Accepted
  <2> SUFFICES ASSUME NEW p \in Procs, pc[p] \in {"test", "meta"}, pc'[p] = "idle"
               PROVE  /\ Valid(tree) /\ UNCHANGED tree
                      /\ Changed(undo[p].tree, req[p]).ok
                      /\ tree = Changed(undo[p].tree, req[p]).tree
    OBVIOUS
  <2>1. Valid(tree) /\ UNCHANGED tree
    BY <1>1, Ends
  <2>2. Changed(undo[p].tree, req[p]).ok /\ tree = Changed(undo[p].tree, req[p]).tree
    BY <1>1 DEF IInv, CandidateInv, Staged
  <2> QED BY <2>1, <2>2
<1>2. Spec => [][Accepted]_vars
  BY <1>1, AlwaysIInv, PTL DEF Spec
<1> QED BY <1>2 DEF OnlyAcceptedCounts

(* A save that names the content it is based on replaces that content: the  *)
(* base hash is compared and the file written in two calls, and mutate lets *)
(* nothing come between them (handleWriteFile).                              *)
SavesOverBase == \A p \in Procs : Staged(p) => OverBase(undo[p].tree, req[p])

(* A save never replaces a content its client has not seen.                 *)
THEOREM SavesReplaceTheirBase == Spec => []SavesOverBase
<1>1. IInv => SavesOverBase
  BY DEF IInv, SaveInv, SavesOverBase
<1> QED BY <1>1, AlwaysIInv, PTL

-----------------------------------------------------------------------------
(* What the handlers make of the tree, the tags and their memory of both.  *)

(* What a request holds.                                                    *)
LEMMA Requests ==
  ASSUME NEW r \in Served
  PROVE  /\ r.act \in {"write", "mkdir", "delete", "rename"} /\ r.path \in Path
         /\ r.act = "write" => r.content \in Contents /\ r.base \in Contents \cup {Absent} /\ r.to = <<>>
         /\ r.act = "rename" => r.to \in Path
         /\ r.act # "write" => r.content = Absent /\ r.base = Absent
         /\ r \in Request
<1>1. CASE r \in Writes
  <2>1. PICK p \in Path, c \in Contents, b \in Contents \cup {Absent} :
          r = [act |-> "write", path |-> p, to |-> <<>>, content |-> c, base |-> b]
    BY <1>1 DEF Writes
  <2> QED BY <2>1 DEF Request, Acts
<1>2. CASE r \in OnPath
  <2>1. PICK a \in {"mkdir", "delete"}, p \in Path :
          r = [act |-> a, path |-> p, to |-> <<>>, content |-> Absent, base |-> Absent]
    BY <1>2 DEF OnPath
  <2> QED BY <2>1 DEF Request, Acts
<1>3. CASE r \in Renames
  <2>1. PICK p \in Path, q \in Path :
          r = [act |-> "rename", path |-> p, to |-> q, content |-> Absent, base |-> Absent]
    BY <1>3 DEF Renames
  <2> QED BY <2>1 DEF Request, Acts
<1> QED BY <1>1, <1>2, <1>3 DEF Served

(* A change that is refused, or that only makes directories, loses nothing. *)
LEMMA RefusedDoes ==
  ASSUME NEW t \in Tree, NEW r \in Served, ~Changed(t, r).ok \/ r.act = "mkdir"
  PROVE  Changed(t, r).tree \in Tree /\ Extends(t, Changed(t, r).tree)
<1> DEFINE u == Changed(t, r).tree
<1>1. /\ r.act \in {"write", "mkdir", "delete", "rename"} /\ r.path \in Path
      /\ r.act = "rename" => r.to \in Path
      /\ r.act = "write" => r.content \in Contents
  BY Requests
<1>2. Extends(t, t)
  BY DEF Extends
<1>3. \A p \in Seq(Names) : MkdirAll(t, p).tree \in Tree /\ Extends(t, MkdirAll(t, p).tree)
  BY MakesAll
<1>4. r.path \in Seq(Names)
  BY <1>1, PathFront
<1>5. CASE r.act = "write"
  <2> DEFINE abs == WrittenPath(t, r.path)
             m == MkdirAll(t, Front(abs))
  <2>1. u = Write(t, r.path, r.content).tree /\ ~Write(t, r.path, r.content).ok
    BY <1>5 DEF Changed
  <2>2. CASE ~Resolves(t, r.path) \/ IsDir(t, abs)
    <3>1. u = t
      BY <2>1, <2>2 DEF Write, Leaves
    <3> QED BY <1>2, <3>1
  <2>3. CASE ~(~Resolves(t, r.path) \/ IsDir(t, abs))
    <3>1. u = m.tree
      BY <2>1, <2>3 DEF Write, Leaves
    <3>2. abs \in Path
      BY <1>1, <2>3, PlainPath
    <3>3. Front(abs) \in Seq(Names)
      <4> HIDE DEF abs
      <4> QED BY <3>2, PathFront
    <3>4. m.tree \in Tree /\ Extends(t, m.tree)
      <4> HIDE DEF abs
      <4> QED BY <1>3, <3>3
    <3> HIDE DEF m
    <3> QED BY <3>1, <3>4
  <2> QED BY <2>2, <2>3
<1>6. CASE r.act = "mkdir"
  <2>1. u = Mkdir(t, r.path).tree
    BY <1>6 DEF Changed
  <2>2. u = t \/ u = MkdirAll(t, r.path).tree
    BY <2>1 DEF Mkdir, Leaves
  <2> QED BY <1>2, <1>3, <1>4, <2>2
<1>7. CASE r.act = "delete"
  <2>1. u = Delete(t, r.path).tree /\ ~Delete(t, r.path).ok
    BY <1>7 DEF Changed
  <2>2. u = t
    BY <2>1 DEF Delete, Leaves
  <2> QED BY <1>2, <2>2
<1>8. CASE r.act = "rename"
  <2>1. u = Rename(t, r.path, r.to).tree /\ ~Rename(t, r.path, r.to).ok
    BY <1>8 DEF Changed
  <2>2. u = t \/ u = MkdirAll(t, Front(r.to)).tree
    BY <2>1 DEF Rename, MovedTo, Leaves
  <2>3. Front(r.to) \in Seq(Names)
    BY <1>1, <1>8, PathFront
  <2> QED BY <1>2, <1>3, <2>2, <2>3
<1> QED BY <1>1, <1>5, <1>6, <1>7, <1>8

(* A tree stays a tree, whatever is asked for.                              *)
LEMMA ChangedTree ==
  ASSUME NEW t \in Tree, NEW r \in Served
  PROVE  Changed(t, r).tree \in Tree
<1>1. CASE ~Changed(t, r).ok \/ r.act = "mkdir"
  BY <1>1, RefusedDoes
<1>2. CASE Changed(t, r).ok /\ r.act # "mkdir"
  <2>1. /\ r.act \in {"write", "delete", "rename"} /\ r.path \in Path
        /\ r.act = "rename" => r.to \in Path
        /\ r.act = "write" => r.content \in Contents
    BY <1>2, Requests
  <2>2. CASE r.act = "write"
    <3>1. Changed(t, r) = Write(t, r.path, r.content)
      BY <2>2 DEF Changed
    <3> QED BY <1>2, <2>1, <2>2, <3>1, WriteDoes
  <2>3. CASE r.act = "delete"
    <3>1. Changed(t, r) = Delete(t, r.path)
      BY <2>3 DEF Changed
    <3> QED BY <1>2, <2>1, <2>3, <3>1, DeleteDoes
  <2>4. CASE r.act = "rename"
    <3>1. Changed(t, r) = Rename(t, r.path, r.to)
      BY <2>4 DEF Changed
    <3> QED BY <1>2, <2>1, <2>4, <3>1, RenameDoes
  <2> QED BY <2>1, <2>2, <2>3, <2>4
<1> QED BY <1>1, <1>2

-----------------------------------------------------------------------------
(* What the handler of a staged change remembers of the directory it found. *)
Remembered(t, r) ==
  LET abs == IF r.act = "write" THEN WrittenPath(t, r.path) ELSE <<>>
  IN [abs  |-> abs,
      old  |-> IF r.act = "write" /\ IsFile(t, abs) THEN File(Content(t, abs)) ELSE None,
      tree |-> t, from |-> MetadataPath(t, r.path),
      to   |-> IF r.act = "rename" THEN MetadataPath(t, r.to) ELSE <<>>]

(* What is on disk, and what a handler found there, is a tree.              *)
TreeInv == tree \in Tree /\ \A p \in Procs : undo[p].tree \in Tree

(* A handler remembers what follows from the directory it found and from    *)
(* its request; one with nothing staged remembers nothing.                  *)
MemoryInv ==
  \A p \in Procs : undo[p] = IF Staged(p) THEN Remembered(undo[p].tree, req[p]) ELSE NoUndo

(* A request that is straight, if it has to be.                             *)
Straightly(t, r) == r.act \in {"delete", "rename"} => Straight(t, r)

(* Only straight deletions and renames are done (unless Twisted).           *)
StraightInv ==
  ~Twisted =>
    \A p \in Procs :
      /\ pc[p] \in {"check", "apply"} => ~Changed(tree, req[p]).ok \/ Straightly(tree, req[p])
      /\ Staged(p) => Straightly(undo[p].tree, req[p])

(* The tags are on the files of the directory as it is but for the change   *)
(* under way.                                                               *)
TagsInv == ~Twisted => \A k \in tagged : k \in Path /\ Committed[k].is = "file"

(* The restart and the master.                                              *)
RestartInv == restart \in {"idle", "test", "stop", "start"} /\ nginx \in {"up", "stopped", "exited"}

(* A save asks nothing of the store.                                        *)
MetaInv == \A p \in Procs : pc[p] = "meta" => req[p].act # "write"

(* The inductive invariant. The tags cannot be followed without the trees,  *)
(* nor what a restore closure makes of them without what its handler        *)
(* remembers.                                                               *)
WholeInv == IInv /\ TreeInv /\ MemoryInv /\ StraightInv /\ TagsInv /\ RestartInv /\ MetaInv

(* The files of a tree.                                                     *)
LEMMA FilesAre ==
  ASSUME NEW t \in Tree
  PROVE  /\ FilesOf(t) \in [Path -> Contents \cup {Absent}]
         /\ \A q \in Path : /\ FilesOf(t)[q] = IF t[q].is = "file" THEN t[q].content ELSE Absent
                            /\ t[q].is = "file" <=> FilesOf(t)[q] # Absent
<1>1. \A q \in Path : t[q] \in Entry
  BY DEF Tree
<1>2. \A q \in Path : t[q].is = "file" => t[q].content \in Contents
  BY <1>1, EntryKinds
<1> QED BY <1>2, GuardedConfigAssumption DEF FilesOf

(* Trees that differ in directories and links have the same files.          *)
LEMMA SameFiles ==
  ASSUME NEW t \in Tree, NEW u \in Tree,
         \A q \in Path : u[q] = t[q] \/ (u[q].is # "file" /\ t[q].is # "file")
  PROVE  FilesOf(u) = FilesOf(t)
<1>1. \A q \in Path : FilesOf(u)[q] = FilesOf(t)[q]
  BY FilesAre
<1>2. FilesOf(u) \in [Path -> Contents \cup {Absent}] /\ FilesOf(t) \in [Path -> Contents \cup {Absent}]
  BY FilesAre
<1> QED BY <1>1, <1>2

(* Directories that are made are no files.                                  *)
LEMMA ExtendsFiles ==
  ASSUME NEW t \in Tree, NEW u \in Tree, Extends(t, u)
  PROVE  FilesOf(u) = FilesOf(t)
BY SameFiles DEF Extends, None, Dir

(* A save puts a content where its handler found the file.                  *)
LEMMA WriteChange ==
  ASSUME NEW t \in Tree, NEW r \in Served, r.act = "write", Changed(t, r).ok
  PROVE  LET u == Changed(t, r).tree
             q == Place(u, WrittenPath(t, r.path))
         IN /\ u \in Tree /\ q \in Path
            /\ FilesOf(u) = [FilesOf(t) EXCEPT ![q] = r.content]
            /\ \A k \in Path : t[k].is = "file" => u[k].is = "file"
            /\ OverBase(t, r) => r.base \in {Absent, FilesOf(t)[q]}
<1> DEFINE u == Changed(t, r).tree
           abs == WrittenPath(t, r.path)
           q == Place(u, abs)
<1>1. r.path \in Path /\ r.content \in Contents
  BY Requests
<1>2. Changed(t, r) = Write(t, r.path, r.content)
  BY DEF Changed
<1>3. /\ u \in Tree /\ q \in Path /\ u[q] = File(r.content) /\ t[q] # Dir
      /\ \A o \in Path \ {q} : Kept(t, u, o)
      /\ IsFile(t, r.path) => Target(t, r.path) = q
  BY <1>1, <1>2, WriteDoes
<1> HIDE DEF u, q
<1>4. \A o \in Path : FilesOf(u)[o] = IF o = q THEN r.content ELSE FilesOf(t)[o]
  <2> SUFFICES ASSUME NEW o \in Path
               PROVE  FilesOf(u)[o] = IF o = q THEN r.content ELSE FilesOf(t)[o]
    OBVIOUS
  <2>1. CASE o = q
    BY <1>3, <2>1, FilesAre DEF File
  <2>2. CASE o # q
    <3>1. u[o] = t[o] \/ (t[o] = None /\ u[o] = Dir)
      BY <1>3, <2>2 DEF Kept
    <3> QED BY <1>3, <2>2, <3>1, FilesAre DEF None, Dir
  <2> QED BY <2>1, <2>2
<1>5. FilesOf(u) = [FilesOf(t) EXCEPT ![q] = r.content]
  <2>1. FilesOf(u) \in [Path -> Contents \cup {Absent}] /\ FilesOf(t) \in [Path -> Contents \cup {Absent}]
    BY <1>3, FilesAre
  <2> QED BY <1>3, <1>4, <2>1
<1>6. \A k \in Path : t[k].is = "file" => u[k].is = "file"
  BY <1>3 DEF Kept, File, None
<1>7. OverBase(t, r) => r.base \in {Absent, FilesOf(t)[q]}
  <2> SUFFICES ASSUME OverBase(t, r), r.base # Absent PROVE r.base = FilesOf(t)[q]
    OBVIOUS
  <2>1. IsFile(t, r.path) /\ Content(t, r.path) = r.base
    BY DEF OverBase
  <2>2. Tried(t) /\ r.path \in Seq(Names)
    BY <1>1, TreeTried, PathFront
  <2>3. Target(t, r.path) = q /\ t[q].is = "file"
    BY <1>3, <2>1, <2>2, Found
  <2> QED BY <1>3, <2>1, <2>3, FilesAre DEF Content
<1> QED BY <1>3, <1>5, <1>6, <1>7 DEF u, q

(* A deletion takes away what is at the key of its tags, and below.         *)
LEMMA DeleteChange ==
  ASSUME NEW t \in Tree, NEW r \in Served, r.act = "delete", Changed(t, r).ok
  PROVE  LET u == Changed(t, r).tree
             a == MetadataPath(t, r.path)
         IN /\ u \in Tree /\ a \in Path
            /\ FilesOf(u) = [q \in Path |-> IF Under(a, q) THEN Absent ELSE FilesOf(t)[q]]
            /\ \A k \in Path : t[k].is = "file" /\ ~Under(a, k) => u[k].is = "file"
<1> DEFINE u == Changed(t, r).tree
           a == MetadataPath(t, r.path)
<1>1. r.path \in Path
  BY Requests
<1>2. Changed(t, r) = Delete(t, r.path)
  BY DEF Changed
<1>3. /\ HasPlace(t, r.path) /\ Place(t, r.path) \in Path /\ u \in Tree
      /\ \A q \in Path : u[q] = IF Under(Place(t, r.path), q) THEN None ELSE t[q]
  BY <1>1, <1>2, DeleteDoes
<1>4. a = Place(t, r.path)
  BY <1>3 DEF MetadataPath, Place, HasPlace, IsDir
<1> HIDE DEF a, u
<1>5. \A q \in Path : FilesOf(u)[q] = IF Under(a, q) THEN Absent ELSE FilesOf(t)[q]
  BY <1>3, <1>4, FilesAre DEF None
<1>6. FilesOf(u) = [q \in Path |-> IF Under(a, q) THEN Absent ELSE FilesOf(t)[q]]
  <2>1. FilesOf(u) \in [Path -> Contents \cup {Absent}]
    BY <1>3, FilesAre
  <2> QED BY <1>5, <2>1
<1> QED BY <1>3, <1>4, <1>6 DEF a, u

(* A move takes what is at one key, and below, to the other, which is free. *)
LEMMA RenameChange ==
  ASSUME NEW t \in Tree, NEW r \in Served, r.act = "rename", Changed(t, r).ok, Straight(t, r)
  PROVE  LET u == Changed(t, r).tree
             a == MetadataPath(t, r.path)
             b == MetadataPath(t, r.to)
         IN /\ u \in Tree /\ a \in Path /\ b \in Path /\ ~Under(a, b) /\ ~Under(b, a)
            /\ \A q \in Path : Under(b, q) => t[q] = None
            /\ FilesOf(u) =
                 [q \in Path |->
                    LET old == a \o SubSeq(q, Len(b) + 1, Len(q)) IN
                      CASE Under(b, q) -> IF old \in Path THEN FilesOf(t)[old] ELSE Absent
                        [] Under(a, q) /\ ~Under(b, q) -> Absent
                        [] OTHER -> FilesOf(t)[q]]
            /\ \A k \in Path : t[k].is = "file" /\ ~Under(a, k) => u[k].is = "file"
            /\ \A k \in Path : t[k].is = "file" /\ Under(a, k) =>
                 LET n == b \o SubSeq(k, Len(a) + 1, Len(k))
                 IN n \in Path /\ Under(b, n) /\ u[n].is = "file"
<1> DEFINE u == Changed(t, r).tree
           a == MetadataPath(t, r.path)
           b == MetadataPath(t, r.to)
           m == MkdirAll(t, Front(r.to)).tree
           Old(q) == a \o SubSeq(q, Len(b) + 1, Len(q))
           New(k) == b \o SubSeq(k, Len(a) + 1, Len(k))
<1>1. r.path \in Path /\ r.to \in Path
  BY Requests
<1>2. Changed(t, r) = Rename(t, r.path, r.to)
  BY DEF Changed
<1>3. StraightWay(t, r.path, r.to)
  BY DEF Straight, StraightWay, Unlinked
<1>4. /\ HasPlace(t, r.path) /\ Place(t, r.path) \in Path /\ Place(m, r.to) \in Path
      /\ m \in Tree /\ Extends(t, m) /\ u \in Tree /\ u = Moved(m, Place(t, r.path), Place(m, r.to))
      /\ ~Under(Place(t, r.path), Place(m, r.to)) /\ ~Under(Place(m, r.to), Place(t, r.path))
      /\ Fits(m, Place(t, r.path), Place(m, r.to))
      /\ \A q \in Path : Under(Place(m, r.to), q) => m[q] = None /\ t[q] = None
      /\ Finds(t, Front(r.to)) => Place(m, r.to) = Place(t, r.to)
      /\ ~Finds(t, Front(r.to)) => Place(m, r.to) = r.to
  BY <1>1, <1>2, <1>3, RenameDoes
<1>5. a = Place(t, r.path)
  BY <1>4 DEF MetadataPath, Place, HasPlace, IsDir
<1>6. b = Place(m, r.to)
  <2>1. Finds(t, Front(r.to)) => b = Place(t, r.to)
    BY DEF MetadataPath, Place
  <2>2. ~Finds(t, Front(r.to)) => b = r.to
    BY DEF MetadataPath
  <2> HIDE DEF b, m
  <2> QED BY <1>4, <2>1, <2>2
<1> HIDE DEF a, b, m, u
<1>7. /\ a \in Path /\ b \in Path /\ m \in Tree /\ Extends(t, m) /\ u \in Tree /\ u = Moved(m, a, b)
      /\ ~Under(a, b) /\ ~Under(b, a) /\ Fits(m, a, b)
      /\ \A q \in Path : Under(b, q) => m[q] = None /\ t[q] = None
  BY <1>4, <1>5, <1>6
<1>8. FilesOf(m) = FilesOf(t)
  BY <1>7, ExtendsFiles
<1>9. \A q \in Path :
        /\ Under(b, q) => u[q] = IF Old(q) \in Path THEN m[Old(q)] ELSE None
        /\ Under(a, q) /\ ~Under(b, q) => u[q] = None
        /\ ~Under(a, q) /\ ~Under(b, q) => u[q] = m[q]
  BY <1>7, MovedIs
<1> DEFINE G(q) == CASE Under(b, q) -> IF Old(q) \in Path THEN FilesOf(t)[Old(q)] ELSE Absent
                     [] Under(a, q) /\ ~Under(b, q) -> Absent
                     [] OTHER -> FilesOf(t)[q]
<1>10. \A q \in Path : FilesOf(u)[q] = G(q)
  <2> SUFFICES ASSUME NEW q \in Path PROVE FilesOf(u)[q] = G(q)
    OBVIOUS
  <2>1. FilesOf(u)[q] = IF u[q].is = "file" THEN u[q].content ELSE Absent
    BY <1>7, FilesAre
  <2>2. \A o \in Path : FilesOf(t)[o] = IF m[o].is = "file" THEN m[o].content ELSE Absent
    BY <1>7, <1>8, FilesAre
  <2> HIDE DEF Old
  <2> QED BY <1>9, <2>1, <2>2 DEF None
<1>11. FilesOf(u) = [q \in Path |-> G(q)]
  <2>1. FilesOf(u) \in [Path -> Contents \cup {Absent}]
    BY <1>7, FilesAre
  <2> HIDE DEF G
  <2> QED BY <1>10, <2>1
<1>12. ASSUME NEW k \in Path, t[k].is = "file"
       PROVE  m[k] = t[k] /\ ~Under(b, k) /\ m[k] # None
  BY <1>7, <1>12 DEF Extends, None
<1>13. ASSUME NEW k \in Path, t[k].is = "file", ~Under(a, k) PROVE u[k].is = "file"
  BY <1>9, <1>12, <1>13
<1>14. ASSUME NEW k \in Path, t[k].is = "file", Under(a, k)
       PROVE  New(k) \in Path /\ Under(b, New(k)) /\ u[New(k)].is = "file"
  <2>1. /\ New(k) \in Seq(Names) /\ Len(New(k)) = Len(b) + Len(k) - Len(a) /\ Under(b, New(k))
        /\ Old(New(k)) = k
    BY <1>7, <1>14, Rebased
  <2>2. Len(b) + Len(k) - Len(a) <= MaxDepth
    BY <1>7, <1>12, <1>14 DEF Fits
  <2>3. Len(b) + Len(k) - Len(a) >= 1 /\ Len(b) + Len(k) - Len(a) \in Int
    <3>1. /\ a \in Seq(Names) /\ b \in Seq(Names) /\ k \in Seq(Names) /\ Len(a) \in Nat
          /\ Len(b) \in Nat /\ Len(b) >= 1 /\ Len(k) \in Nat
      BY <1>7, PathSeq, ConfTreeAssumption
    <3>2. Len(a) <= Len(k)
      BY <1>14, <3>1, UnderIs
    <3> QED BY <3>1, <3>2
  <2> HIDE DEF New, Old
  <2>4. New(k) \in Path
    BY <2>1, <2>2, <2>3, PathSeq, ConfTreeAssumption
  <2> QED BY <1>9, <1>12, <1>14, <2>1, <2>4
<1> QED BY <1>7, <1>11, <1>13, <1>14 DEF a, b, u

(* Who has staged a change, and what the directory is but for it.           *)
LEMMA CommittedIs ==
  ASSUME IInv
  PROVE  /\ \A p \in Procs : Staged(p) => Candidate /\ mutate = p /\ Committed = undo[p].tree
         /\ (\A p \in Procs : ~Staged(p)) => ~Candidate /\ Committed = tree
         /\ \A p \in Procs : pc[p] # "idle" /\ ~Staged(p) => ~Candidate /\ Committed = tree
<1>1. \A p \in Procs : Staged(p) => pc[p] # "idle"
  BY DEF Staged
<1>2. \A p \in Procs : mutate = p <=> pc[p] # "idle"
  BY DEF IInv, LockInv
<1> QED BY <1>1, <1>2 DEF Candidate, Committed

(* And after a step.                                                        *)
LEMMA CommittedNext ==
  ASSUME IInv'
  PROVE  /\ \A p \in Procs : Staged(p)' => Candidate' /\ mutate' = p /\ Committed' = undo'[p].tree
         /\ (\A p \in Procs : ~Staged(p)') => ~Candidate' /\ Committed' = tree'
         /\ \A p \in Procs : pc'[p] # "idle" /\ ~Staged(p)' => ~Candidate' /\ Committed' = tree'
<1>1. \A p \in Procs : Staged(p)' => pc'[p] # "idle"
  BY DEF Staged
<1>2. \A p \in Procs : mutate' = p <=> pc'[p] # "idle"
  BY DEF IInv, LockInv
<1> QED BY <1>1, <1>2 DEF Candidate, Committed

(* What is staged: the change of the holder of mutate to the directory it   *)
(* found.                                                                   *)
LEMMA StagedIs ==
  ASSUME WholeInv, NEW p \in Procs, Staged(p)
  PROVE  /\ req[p] \in Served /\ req[p].act \in {"write", "delete", "rename"}
         /\ undo[p].tree \in Tree /\ Changed(undo[p].tree, req[p]).ok
         /\ tree = Changed(undo[p].tree, req[p]).tree /\ tree \in Tree
         /\ undo[p] = Remembered(undo[p].tree, req[p])
         /\ OverBase(undo[p].tree, req[p])
         /\ ~Twisted => Straightly(undo[p].tree, req[p])
<1>1. pc[p] # "idle"
  BY DEF Staged
<1> QED BY <1>1 DEF WholeInv, IInv, TypeInv, CandidateInv, SaveInv, TreeInv, MemoryInv, StraightInv

(* Rollback: what was there is there again, but for a link that led nowhere *)
(* and was written over; directories made on the way stay.                  *)
RolledBack(t, r, v) ==
  \A q \in Path : \/ v[q] = t[q]
                  \/ t[q] = None /\ v[q] = Dir
                  \/ t[q].is = "link" /\ v[q] = None /\ r.act = "write"

(* That is what the closures do.                                            *)
LEMMA RestoredDoes ==
  ASSUME WholeInv, NEW p \in Procs, Staged(p)
  PROVE  /\ Restored(p).tree \in Tree
         /\ Straightly(undo[p].tree, req[p]) => RolledBack(undo[p].tree, req[p], Restored(p).tree)
<1> DEFINE t == undo[p].tree
           r == req[p]
           u == Changed(t, r).tree
           v == Restored(p).tree
<1>1. /\ r \in Served /\ r.act \in {"write", "delete", "rename"} /\ t \in Tree /\ Changed(t, r).ok
      /\ tree = u /\ undo[p] = Remembered(t, r) /\ tree \in Tree
  BY StagedIs
<1>2. /\ r.path \in Path /\ (r.act = "rename" => r.to \in Path) /\ (r.act = "write" => r.content \in Contents)
  BY <1>1, Requests
<1>3. CASE r.act = "write"
  <2> DEFINE abs == WrittenPath(t, r.path)
             old == IF IsFile(t, abs) THEN File(Content(t, abs)) ELSE None
             q == Place(u, abs)
  <2>1. Changed(t, r) = Write(t, r.path, r.content)
    BY <1>3 DEF Changed
  <2>2. /\ u \in Tree /\ abs \in Path /\ HasPlace(u, abs) /\ q \in Path
        /\ u[q] = File(r.content) /\ t[q] # Dir
        /\ \A o \in Path \ {q} : Kept(t, u, o)
        /\ t[q].is = "file" <=> IsFile(t, abs)
        /\ IsFile(t, abs) => Content(t, abs) = t[q].content
    BY <1>1, <1>2, <1>3, <2>1, WriteDoes
  <2>3. undo[p].abs = abs /\ undo[p].old = old
    BY <1>1, <1>3 DEF Remembered
  <2>4. v = WriteRestore(u, abs, old).tree
    BY <1>1, <1>3, <2>3 DEF Restored
  <2> HIDE DEF abs, q, u, v, old, t, r
  <2>5. t[q] \in Entry
    BY <1>1, <2>2 DEF Tree
  <2>6. old = t[q] \/ (t[q].is = "link" /\ old = None)
    BY <2>2, <2>5, EntryKinds DEF old
  <2>7. old \in Entry /\ u[q] # Dir
    BY <2>2, <2>5, <2>6 DEF Entry, Dir, File
  <2>8. v \in Tree /\ \A o \in Path : v[o] = IF o = q THEN old ELSE u[o]
    BY <2>2, <2>4, <2>7, WriteUndoes DEF q
  <2>9. RolledBack(t, r, v)
    BY <1>3, <2>2, <2>6, <2>8 DEF RolledBack, Kept
  <2> QED BY <2>8, <2>9 DEF v, t, r
<1>4. CASE r.act = "delete"
  <2>1. Changed(t, r) = Delete(t, r.path)
    BY <1>4 DEF Changed
  <2>2. v = DeleteRestore(u, r.path, t).tree
    BY <1>1, <1>4 DEF Restored
  <2>3. /\ v = t \/ v = u
        /\ ~Through(t, r.path, Place(t, r.path)) => v = t
    BY <1>1, <1>2, <2>1, <2>2, DeleteUndoes
  <2>4. Straightly(t, r) => v = t
    BY <1>4, <2>3 DEF Straightly, Straight
  <2>5. RolledBack(t, r, t)
    BY DEF RolledBack
  <2> QED BY <1>1, <2>3, <2>4, <2>5
<1>5. CASE r.act = "rename"
  <2> DEFINE m == MkdirAll(t, Front(r.to)).tree
  <2>1. Changed(t, r) = Rename(t, r.path, r.to)
    BY <1>5 DEF Changed
  <2>2. v = RenameRestore(u, r.path, r.to).tree
    BY <1>1, <1>5 DEF Restored
  <2>3. v \in Tree /\ (StraightWay(t, r.path, r.to) => v = m)
    BY <1>1, <1>2, <1>5, <2>1, <2>2, RenameUndoes
  <2>4. Extends(t, m)
    <3>1. Rename(t, r.path, r.to).ok /\ r.path \in Path /\ r.to \in Path /\ t \in Tree
      BY <1>1, <1>2, <1>5, <2>1
    <3> HIDE DEF t, r
    <3> QED BY <3>1, RenameDoes
  <2>5. Straightly(t, r) => StraightWay(t, r.path, r.to)
    BY <1>5 DEF Straightly, Straight, StraightWay, Unlinked
  <2>6. RolledBack(t, r, m)
    BY <2>4 DEF RolledBack, Extends
  <2> QED BY <2>3, <2>5, <2>6
<1> QED BY <1>1, <1>3, <1>4, <1>5

(* WholeInv holds at the start.                                             *)
LEMMA InitJ == Init => WholeInv
<1> SUFFICES ASSUME Init PROVE WholeInv
  OBVIOUS
<1>1. IInv
  BY InitInv
<1>2. [q \in Path |-> None] \in Tree
  BY DEF Tree, Rooted, Entry
<1>3. TreeInv
  BY <1>2, GuardedConfigAssumption DEF Init, TreeInv, NoUndo
<1>4. MemoryInv /\ StraightInv /\ TagsInv /\ RestartInv /\ MetaInv
  BY DEF Init, MemoryInv, StraightInv, TagsInv, RestartInv, MetaInv, Staged
<1> QED BY <1>1, <1>3, <1>4 DEF WholeInv

(* The tags stay where they are, on files that stay files.                  *)
LEMMA TagsStay ==
  ASSUME TagsInv, UNCHANGED tagged,
         ~Twisted => \A k \in Path : Committed[k].is = "file" => Committed'[k].is = "file"
  PROVE  TagsInv'
BY DEF TagsInv

(* A request that is taken disturbs nothing.                                *)
LEMMA BeginJ == ASSUME WholeInv, NEW p \in Procs, NEW r \in Served, Begin(p, r) PROVE WholeInv'
<1>1. /\ mutate = NoOne /\ mutate' = p /\ pc[p] = "idle"
      /\ pc' = [pc EXCEPT ![p] = IF r.act = "write" /\ r.base # Absent THEN "check" ELSE "apply"]
      /\ req' = [req EXCEPT ![p] = r] /\ UNCHANGED <<tree, tagged, undo>> /\ Master
      /\ r.act \in {"delete", "rename"} => Twisted \/ ~Changed(tree, r).ok \/ Straight(tree, r)
  BY DEF Begin, Goto
<1>2. IInv /\ IInv'
  BY BeginInv DEF WholeInv
<1>3. \A q \in Procs : pc[q] = "idle" /\ ~Staged(q)
  BY <1>1, GuardedConfigAssumption DEF WholeInv, IInv, LockInv, Staged
<1>4. \A q \in Procs : /\ ~Staged(q)'
                       /\ pc'[q] \in {"check", "apply"} => q = p /\ req'[q] = r
  BY <1>1, <1>3 DEF WholeInv, IInv, TypeInv, Staged
<1>5. TreeInv' /\ MemoryInv' /\ RestartInv' /\ MetaInv'
  BY <1>1, <1>3, <1>4 DEF WholeInv, TreeInv, MemoryInv, RestartInv, MetaInv, Staged, Master
<1>6. StraightInv'
  BY <1>1, <1>4 DEF StraightInv, Straightly
<1>7. TagsInv'
  <2>1. Committed' = Committed
    BY <1>1, <1>2, <1>3, <1>4, CommittedIs, CommittedNext
  <2> QED BY <1>1, <2>1, TagsStay DEF WholeInv
<1> QED BY <1>2, <1>5, <1>6, <1>7 DEF WholeInv

(* A handler answers, and nothing is staged any more.                       *)
LEMMA AnswerJ ==
  ASSUME WholeInv, NEW p \in Procs, NEW from \in Steps \ {"idle"}, Answer(p, from), Master, tree' \in Tree
  PROVE  /\ Committed' = tree' /\ ~Candidate' /\ mutate' = NoOne
         /\ TagsInv' => WholeInv'
<1>1. /\ pc[p] = from /\ pc' = [pc EXCEPT ![p] = "idle"] /\ mutate' = NoOne
      /\ req' = [req EXCEPT ![p] = NoRequest] /\ undo' = [undo EXCEPT ![p] = NoUndo]
  BY DEF Answer, Goto
<1>2. IInv'
  BY AnswerInv DEF WholeInv
<1>3. \A q \in Procs : q # p => pc[q] = "idle"
  BY <1>1 DEF WholeInv, IInv, LockInv
<1>4. \A q \in Procs : pc'[q] = "idle" /\ ~Staged(q)' /\ undo'[q] = NoUndo
  BY <1>1, <1>3 DEF WholeInv, IInv, TypeInv, MemoryInv, Staged
<1>5. [q \in Path |-> None] \in Tree
  BY DEF Tree, Rooted, Entry
<1>6. TreeInv' /\ MemoryInv' /\ StraightInv' /\ RestartInv' /\ MetaInv'
  BY <1>4, <1>5 DEF WholeInv, TreeInv, MemoryInv, StraightInv, RestartInv, MetaInv, Master, NoUndo
<1>7. ~Candidate' /\ Committed' = tree'
  BY <1>2, <1>4, CommittedNext
<1> QED BY <1>1, <1>2, <1>6, <1>7 DEF WholeInv

(* A handler that goes on without touching the disk.                        *)
LEMMA GoesOnJ ==
  ASSUME WholeInv, NEW p \in Procs, NEW from \in Steps \ {"idle"}, NEW to \in Steps \ {"idle"},
         Goto(p, from, to), UNCHANGED <<tree, tagged, mutate, req, undo>>, Master,
         to \in {"test", "meta", "rollback"} <=> from \in {"test", "meta", "rollback"},
         to = "meta" => Valid(tree) /\ req[p].act # "write",
         to = "apply" => OverBase(tree, req[p])
  PROVE  WholeInv' /\ Candidate' = Candidate /\ Committed' = Committed
<1>1. pc[p] = from /\ pc' = [pc EXCEPT ![p] = to]
  BY DEF Goto
<1>2. IInv'
  BY GoesOnInv DEF WholeInv
<1>3. \A q \in Procs : q # p => pc[q] = "idle" /\ pc'[q] = "idle"
  BY <1>1 DEF WholeInv, IInv, TypeInv, LockInv
<1>4. pc'[p] = to
  BY <1>1 DEF WholeInv, IInv, TypeInv
<1>5. \A q \in Procs : Staged(q)' <=> Staged(q)
  BY <1>1, <1>3, <1>4 DEF Staged
<1>6. \A q \in Procs : pc'[q] \in {"check", "apply"} => pc[q] \in {"check", "apply"}
  BY <1>1, <1>3, <1>4 DEF Steps
<1>7. TreeInv' /\ MemoryInv' /\ StraightInv' /\ RestartInv' /\ MetaInv'
  BY <1>3, <1>4, <1>5, <1>6 DEF WholeInv, TreeInv, MemoryInv, StraightInv, RestartInv, MetaInv, Master
<1>8. Candidate' = Candidate /\ Committed' = Committed
  <2>1. mutate' \in Procs => (Staged(mutate)' <=> Staged(mutate))
    BY <1>5
  <2>2. Candidate' = Candidate
    BY <2>1 DEF Candidate
  <2> QED BY <2>2 DEF Committed
<1>9. TagsInv'
  BY <1>8, TagsStay DEF WholeInv
<1> QED BY <1>2, <1>7, <1>8, <1>9 DEF WholeInv

(* The change itself: it is remembered with the tree it is done to.         *)
LEMMA ApplyJ ==
  ASSUME WholeInv, NEW p \in Procs, Apply(p)
  PROVE  /\ WholeInv' /\ Candidate' /\ ~Candidate /\ mutate' = p /\ mutate = p /\ req' = req
         /\ Staged(p)' /\ Committed = tree /\ Committed' = tree /\ undo'[p] = Remembered(tree, req[p])
         /\ req[p] \in Served /\ req[p].act \in {"write", "delete", "rename"}
<1>1. /\ pc[p] = "apply" /\ pc' = [pc EXCEPT ![p] = "test"] /\ req[p].act # "mkdir"
      /\ Changed(tree, req[p]).ok /\ tree' = Changed(tree, req[p]).tree
      /\ UNCHANGED <<tagged, mutate, req>> /\ Master
  BY DEF Apply, Goto
<1>2. IInv /\ IInv'
  BY ApplyInv DEF WholeInv
<1>3. undo' = [undo EXCEPT ![p] = Remembered(tree, req[p])]
  BY <1>1 DEF Apply, Remember, Remembered
<1>4. \A q \in Procs : q # p => pc[q] = "idle" /\ pc'[q] = "idle" /\ ~Staged(q) /\ ~Staged(q)'
  BY <1>1 DEF WholeInv, IInv, TypeInv, LockInv, Staged
<1>5. pc'[p] = "test" /\ Staged(p)' /\ ~Staged(p)
  BY <1>1 DEF WholeInv, IInv, TypeInv, Staged
<1>6. /\ undo'[p] = Remembered(tree, req[p]) /\ undo'[p].tree = tree
      /\ \A q \in Procs : q # p => undo'[q] = undo[q]
  <2>1. undo = [q \in Procs |-> undo[q]]
    BY DEF WholeInv, IInv, TypeInv
  <2>2. undo'[p] = Remembered(tree, req[p]) /\ \A q \in Procs : q # p => undo'[q] = undo[q]
    BY <1>3, <2>1
  <2> QED BY <2>2 DEF Remembered
<1>7. req[p] \in Served
  BY <1>1 DEF WholeInv, IInv, TypeInv
<1>8. req[p].act \in {"write", "delete", "rename"}
  BY <1>1, <1>7, Requests
<1>9. TreeInv'
  <2>1. tree' \in Tree
    BY <1>1, <1>7, ChangedTree DEF WholeInv, TreeInv
  <2> QED BY <1>6, <2>1 DEF WholeInv, TreeInv
<1>10. MemoryInv'
  BY <1>1, <1>4, <1>5, <1>6 DEF WholeInv, MemoryInv
<1>11. StraightInv'
  BY <1>1, <1>4, <1>5, <1>6 DEF WholeInv, StraightInv
<1>12. RestartInv'
  BY <1>1 DEF WholeInv, RestartInv, Master
<1>15. MetaInv'
  BY <1>4, <1>5 DEF MetaInv, Staged
<1>13. Committed = tree /\ Committed' = tree /\ Candidate' /\ ~Candidate /\ mutate' = p
  <2>1. \A q \in Procs : ~Staged(q)
    BY <1>4, <1>5
  <2> QED BY <1>2, <1>5, <1>6, <2>1, CommittedIs, CommittedNext
<1>14. TagsInv'
  BY <1>1, <1>13, TagsStay DEF WholeInv
<1> QED BY <1>1, <1>2, <1>5, <1>6, <1>7, <1>8, <1>9, <1>10, <1>11, <1>12, <1>13, <1>14, <1>15 DEF WholeInv

(* Nobody's change is touched.                                              *)
LEMMA QuietJ ==
  ASSUME WholeInv, UNCHANGED <<tree, mutate, pc, req, undo>>, TagsInv', RestartInv'
  PROVE  WholeInv'
<1>1. IInv'
  BY QuietInv DEF WholeInv
<1> QED BY <1>1 DEF WholeInv, TreeInv, MemoryInv, StraightInv, MetaInv, Staged

(* What ConfigStore calls a prefix.                                         *)
LEMMA StorePrefix == \A p, q : Store!IsPrefix(p, q) <=> Under(p, q)
BY DEF Store!IsPrefix, IsPrefix, Under

(* The tags follow a deletion or a move that counts: none is left behind,   *)
(* and each that moves goes with its file.                                  *)
LEMMA TagsFollow ==
  ASSUME WholeInv, ~Twisted, NEW p \in Procs, StoreCommits(p)
  PROVE  /\ tagged' = Store!TaggedAfter(StagedChange, tagged)
         /\ \A k \in tagged' : k \in Path /\ tree[k].is = "file"
<1> DEFINE t == undo[p].tree
           r == req[p]
           a == undo[p].from
           b == undo[p].to
           New(k) == b \o SubSeq(k, Len(a) + 1, Len(k))
<1>1. pc[p] = "meta" /\ Staged(p)
  BY DEF StoreCommits, Answer, Goto, Staged
<1>2. /\ r \in Served /\ r.act \in {"delete", "rename"} /\ t \in Tree /\ Changed(t, r).ok
      /\ tree = Changed(t, r).tree /\ Straight(t, r)
      /\ a = MetadataPath(t, r.path) /\ (r.act = "rename" => b = MetadataPath(t, r.to))
  <2>1. undo[p] = Remembered(t, r)
    BY <1>1, StagedIs
  <2>2. a = MetadataPath(t, r.path) /\ (r.act = "rename" => b = MetadataPath(t, r.to))
    BY <2>1 DEF Remembered
  <2>3. r.act # "write"
    BY <1>1 DEF WholeInv, MetaInv
  <2> QED BY <1>1, <2>2, <2>3, StagedIs DEF Straightly
<1>3. mutate = p /\ \A k \in tagged : k \in Path /\ t[k].is = "file"
  BY <1>1, CommittedIs DEF WholeInv, TagsInv
<1>4. CASE r.act = "delete"
  <2>1. tagged' = {k \in tagged : ~Under(a, k)}
    BY <1>4 DEF StoreCommits, WithoutTags
  <2>2. \A k \in Path : t[k].is = "file" /\ ~Under(a, k) => tree[k].is = "file"
    BY <1>2, <1>4, DeleteChange
  <2>3. StagedChange.act = "remove" /\ StagedChange.path = a
    BY <1>3, <1>4 DEF StagedChange
  <2>4. Store!TaggedAfter(StagedChange, tagged) = {k \in tagged : ~Under(a, k)}
    BY <2>3, StorePrefix DEF Store!TaggedAfter
  <2> QED BY <1>3, <2>1, <2>2, <2>4
<1>5. CASE r.act = "rename"
  <2>1. /\ a \in Path /\ b \in Path /\ ~Under(a, b) /\ ~Under(b, a)
        /\ \A q \in Path : Under(b, q) => t[q] = None
        /\ \A k \in Path : t[k].is = "file" /\ ~Under(a, k) => tree[k].is = "file"
        /\ \A k \in Path : t[k].is = "file" /\ Under(a, k) =>
             New(k) \in Path /\ Under(b, New(k)) /\ tree[New(k)].is = "file"
    <3>1. Changed(t, r).ok /\ Straight(t, r) /\ r.act = "rename" /\ r \in Served /\ t \in Tree
      BY <1>2, <1>5
    <3>2. a = MetadataPath(t, r.path) /\ b = MetadataPath(t, r.to) /\ tree = Changed(t, r).tree
      BY <1>2, <1>5
    <3> HIDE DEF t, r, a, b
    <3> DEFINE x == MetadataPath(t, r.path)
               y == MetadataPath(t, r.to)
    <3>3. /\ x \in Path /\ y \in Path /\ ~Under(x, y) /\ ~Under(y, x)
          /\ \A q \in Path : Under(y, q) => t[q] = None
      BY ONLY <3>1, RenameChange
    <3>4. \A k \in Path : t[k].is = "file" /\ ~Under(x, k) => Changed(t, r).tree[k].is = "file"
      BY ONLY <3>1, RenameChange
    <3>5. \A k \in Path : t[k].is = "file" /\ Under(x, k) =>
            LET n == y \o SubSeq(k, Len(x) + 1, Len(k))
            IN n \in Path /\ Under(y, n) /\ Changed(t, r).tree[n].is = "file"
      BY ONLY <3>1, RenameChange
    <3> HIDE DEF x, y
    <3>6. x = a /\ y = b
      BY <3>2 DEF x, y
    <3> QED BY <3>2, <3>3, <3>4, <3>5, <3>6
  <2>2. a \in Seq(Names) /\ b \in Seq(Names) /\ a # b
    <3>1. a \in Seq(Names) /\ b \in Seq(Names)
      BY <2>1, PathFront
    <3> QED BY <2>1, <3>1, UnderOrder
  <2>3. \A k \in tagged : ~Under(b, k)
    BY <1>3, <2>1 DEF None
  <2> HIDE DEF t, r, a, b
  <2>4. WithoutTags(tagged, b) = tagged
    BY <2>3 DEF WithoutTags
  <2>5. MovedTags(tagged, a, b) = tagged \cup {New(k) : k \in {k \in tagged : Under(a, k)}}
    BY <2>4 DEF MovedTags
  <2>6. tagged' = WithoutTags(MovedTags(tagged, a, b), a)
    BY <1>5, <2>2 DEF StoreCommits, a, b, r
  <2>7. \A k \in tagged : Under(a, k) => ~Under(a, New(k))
    <3> SUFFICES ASSUME NEW k \in tagged, Under(a, k), Under(a, New(k)) PROVE FALSE
      OBVIOUS
    <3>1. New(k) \in Path /\ Under(b, New(k))
      BY <1>3, <2>1
    <3>2. New(k) \in Seq(Names)
      BY <3>1, PathFront
    <3> HIDE DEF New
    <3> QED BY <2>1, <2>2, <3>1, <3>2, UnderOrder
  <2>8. tagged' = {k \in tagged : ~Under(a, k)} \cup {New(k) : k \in {k \in tagged : Under(a, k)}}
    <3> HIDE DEF New
    <3> QED BY <2>5, <2>6, <2>7 DEF WithoutTags
  <2>9. StagedChange.act = "move" /\ StagedChange.path = a /\ StagedChange.to = b
    BY <1>3, <1>5 DEF StagedChange, a, b, r
  <2>10. Store!TaggedAfter(StagedChange, tagged)
           = {k \in tagged : ~Under(a, k)} \cup {New(k) : k \in {k \in tagged : Under(a, k)}}
    BY <2>9, StorePrefix DEF Store!TaggedAfter, Store!Rebase
  <2>11. \A k \in tagged' : k \in Path /\ tree[k].is = "file"
    <3> HIDE DEF New
    <3> QED BY <1>3, <2>1, <2>8
  <2> QED BY <2>8, <2>10, <2>11
<1> QED BY <1>2, <1>4, <1>5

(* What counts keeps the files that have tags: a save.                      *)
LEMMA SaveKeepsFiles ==
  ASSUME WholeInv, NEW p \in Procs, Staged(p), req[p].act = "write"
  PROVE  \A k \in Path : Committed[k].is = "file" => tree[k].is = "file"
<1>1. /\ req[p] \in Served /\ undo[p].tree \in Tree /\ Changed(undo[p].tree, req[p]).ok
      /\ tree = Changed(undo[p].tree, req[p]).tree /\ Committed = undo[p].tree
  BY StagedIs, CommittedIs DEF WholeInv
<1> QED BY <1>1, WriteChange

(* Every step of a handler keeps WholeInv.                                  *)
LEMMA HandleJ == ASSUME WholeInv, NEW p \in Procs, Handle(p) PROVE WholeInv'
<1>1. CASE CheckBase(p)
  <2>1. OverBase(tree, req[p])
    BY <1>1 DEF CheckBase, BaseIsCurrent, OverBase
  <2> QED BY <1>1, <2>1, GoesOnJ DEF CheckBase, Steps
<1>2. CASE Conflict(p)
  <2>1. pc[p] = "check" /\ tree' = tree /\ tagged' = tagged /\ Answer(p, "check") /\ Master
    BY <1>2 DEF Conflict, Answer, Goto
  <2>2. Committed = tree
    BY <2>1, CommittedIs DEF WholeInv, Staged
  <2>3. tree' \in Tree
    BY <2>1 DEF WholeInv, TreeInv
  <2>4. Committed' = tree' /\ (TagsInv' => WholeInv')
    BY <2>1, <2>3, AnswerJ DEF Steps
  <2> QED BY <2>1, <2>2, <2>4, TagsStay DEF WholeInv
<1>3. CASE Apply(p)
  BY <1>3, ApplyJ
<1>4. CASE ApplyEnds(p)
  <2>1. /\ pc[p] = "apply" /\ tree' = Changed(tree, req[p]).tree /\ tagged' = tagged
        /\ Answer(p, "apply") /\ Master /\ (~Changed(tree, req[p]).ok \/ req[p].act = "mkdir")
    BY <1>4 DEF ApplyEnds, Answer, Goto
  <2>2. Committed = tree
    BY <2>1, CommittedIs DEF WholeInv, Staged
  <2>3. tree' \in Tree /\ Extends(tree, tree')
    <3>1. req[p] \in Served /\ tree \in Tree
      BY <2>1 DEF WholeInv, IInv, TypeInv, TreeInv
    <3> QED BY <2>1, <3>1, RefusedDoes
  <2>4. Committed' = tree' /\ (TagsInv' => WholeInv')
    BY <2>1, <2>3, AnswerJ DEF Steps
  <2>5. \A k \in Path : Committed[k].is = "file" => Committed'[k].is = "file"
    BY <2>2, <2>3, <2>4 DEF Extends, None
  <2> QED BY <2>1, <2>4, <2>5, TagsStay DEF WholeInv
<1>5. CASE TestPasses(p)
  <2>1. pc[p] = "test" /\ Staged(p) /\ Valid(tree) /\ UNCHANGED <<tree, tagged>> /\ Master
    BY <1>5 DEF TestPasses, Staged
  <2>2. CASE req[p].act = "write" /\ Answer(p, "test")
    <3>1. tree' \in Tree
      BY <2>1 DEF WholeInv, TreeInv
    <3>2. Committed' = tree' /\ (TagsInv' => WholeInv')
      BY <2>1, <2>2, <3>1, AnswerJ DEF Steps
    <3>3. \A k \in Path : Committed[k].is = "file" => tree[k].is = "file"
      BY <2>1, <2>2, SaveKeepsFiles
    <3> QED BY <2>1, <3>2, <3>3, TagsStay DEF WholeInv
  <2>3. CASE req[p].act # "write" /\ Goto(p, "test", "meta") /\ UNCHANGED <<mutate, req, undo>>
    BY <2>1, <2>3, GoesOnJ DEF Steps
  <2> QED BY <1>5, <2>2, <2>3 DEF TestPasses
<1>6. CASE TestFails(p)
  BY <1>6, GoesOnJ DEF TestFails, Steps
<1>7. CASE StoreCommits(p)
  <2>1. tree' = tree /\ Answer(p, "meta") /\ Master
    BY <1>7 DEF StoreCommits
  <2>2. tree' \in Tree
    BY <2>1 DEF WholeInv, TreeInv
  <2>3. Committed' = tree' /\ (TagsInv' => WholeInv')
    BY <2>1, <2>2, AnswerJ DEF Steps
  <2>4. TagsInv'
    BY <1>7, <2>1, <2>3, TagsFollow DEF TagsInv
  <2> QED BY <2>3, <2>4
<1>8. CASE StoreFails(p)
  BY <1>8, GoesOnJ DEF StoreFails, Steps
<1>9. CASE Rollback(p)
  <2>1. /\ pc[p] = "rollback" /\ Staged(p) /\ tree' = Restored(p).tree /\ tagged' = tagged
        /\ Answer(p, "rollback") /\ Master
    BY <1>9 DEF Rollback, Answer, Goto, Staged
  <2>2. /\ tree' \in Tree
        /\ Straightly(undo[p].tree, req[p]) => RolledBack(undo[p].tree, req[p], tree')
    BY <2>1, RestoredDoes
  <2>3. Committed = undo[p].tree
    BY <2>1, CommittedIs DEF WholeInv
  <2>4. Committed' = tree' /\ (TagsInv' => WholeInv')
    BY <2>1, <2>2, AnswerJ DEF Steps
  <2>5. ~Twisted => RolledBack(undo[p].tree, req[p], tree')
    BY <2>1, <2>2, StagedIs
  <2>6. ~Twisted => \A k \in Path : Committed[k].is = "file" => Committed'[k].is = "file"
    BY <2>3, <2>4, <2>5 DEF RolledBack, None
  <2> QED BY <2>1, <2>4, <2>6, TagsStay DEF WholeInv
<1> QED BY <1>1, <1>2, <1>3, <1>4, <1>5, <1>6, <1>7, <1>8, <1>9 DEF Handle

(* PUT and POST of manual tags: on a file that is there.                    *)
LEMMA SetTagsFile ==
  ASSUME WholeInv, NEW path \in Path, NEW on \in BOOLEAN, SetFileTags(path, on)
  PROVE  /\ ~Candidate /\ Committed = tree /\ ~Candidate' /\ Committed' = tree'
         /\ Target(tree, path) \in Path /\ tree[Target(tree, path)].is = "file"
         /\ UNCHANGED <<tree, mutate, pc, req, undo>> /\ Master
         /\ tagged' = IF on THEN tagged \cup {Target(tree, path)} ELSE tagged \ {Target(tree, path)}
<1>1. /\ mutate = NoOne /\ IsFile(tree, path) /\ UNCHANGED <<tree, mutate, pc, req, undo>> /\ Master
      /\ tagged' = IF on THEN tagged \cup {Target(tree, path)} ELSE tagged \ {Target(tree, path)}
  BY DEF SetFileTags
<1>2. Tried(tree) /\ path \in Seq(Names)
  BY TreeTried, PathFront DEF WholeInv, TreeInv
<1>3. Target(tree, path) \in Path /\ tree[Target(tree, path)].is = "file"
  BY <1>1, <1>2, Found
<1>4. ~Candidate /\ ~Candidate' /\ Committed = tree /\ Committed' = tree'
  BY <1>1, GuardedConfigAssumption DEF Candidate, Committed
<1> QED BY <1>1, <1>3, <1>4

(* And every step.                                                          *)
LEMMA StepJ == ASSUME WholeInv, [Next]_vars PROVE WholeInv'
<1>1. CASE \E p \in Procs, r \in Writes \cup OnPath \cup Renames : Begin(p, r)
  BY <1>1, BeginJ DEF Served
<1>2. CASE \E p \in Procs : Handle(p)
  BY <1>2, HandleJ
<1>3. CASE \E p \in Path, on \in BOOLEAN : SetFileTags(p, on)
  <2>1. PICK p \in Path, on \in BOOLEAN : SetFileTags(p, on)
    BY <1>3
  <2>2. /\ Committed = tree /\ Committed' = tree' /\ UNCHANGED <<tree, mutate, pc, req, undo>> /\ Master
        /\ Target(tree, p) \in Path /\ tree[Target(tree, p)].is = "file"
        /\ tagged' = IF on THEN tagged \cup {Target(tree, p)} ELSE tagged \ {Target(tree, p)}
    BY <2>1, SetTagsFile
  <2>3. TagsInv' /\ RestartInv'
    BY <2>2 DEF WholeInv, TagsInv, RestartInv, Master
  <2> QED BY <2>2, <2>3, QuietJ
<1>4. CASE RestartBegins \/ RestartStep \/ Respawn \/ UNCHANGED vars
  <2>1. UNCHANGED <<tree, tagged, mutate, pc, req, undo>>
    BY <1>4 DEF RestartBegins, RestartStep, RestartTests, RestartStops, RestartStarts, Respawn, Edits, vars
  <2>2. RestartInv'
    BY <1>4 DEF WholeInv, RestartInv, RestartBegins, RestartStep, RestartTests, RestartStops, RestartStarts,
                Respawn, Started, vars
  <2>3. Committed' = Committed
    BY <2>1 DEF Committed, Candidate, Staged
  <2> QED BY <2>1, <2>2, <2>3, QuietJ, TagsStay DEF WholeInv
<1> QED BY <1>1, <1>2, <1>3, <1>4 DEF Next

(* So it always holds.                                                      *)
LEMMA AlwaysWholeInv == Spec => []WholeInv
<1>1. Init => WholeInv
  BY InitJ
<1>2. WholeInv /\ [Next]_vars => WholeInv'
  BY StepJ
<1> QED BY <1>1, <1>2, PTL DEF Spec

(* What ConfigStore sees of a step: nothing.                                *)
LEMMA SameStore ==
  ASSUME FilesOf(Committed') = FilesOf(Committed), FilesOf(tree') = FilesOf(tree), UNCHANGED tagged,
         (~Candidate /\ ~Candidate') \/ (Candidate' = Candidate /\ UNCHANGED <<tree, mutate, req, undo>>)
  PROVE  UNCHANGED Store!vars
<1>1. CommittedFiles' = CommittedFiles /\ Disk' = Disk
  BY DEF CommittedFiles, Disk
<1>2. ChangeUnderWay' = ChangeUnderWay
  BY DEF ChangeUnderWay, StagedChange
<1> QED BY <1>1, <1>2 DEF Store!vars

(* The change that is staged is one.                                        *)
LEMMA ChangeIs ==
  ASSUME WholeInv, ~Twisted, NEW p \in Procs, Staged(p)
  PROVE  /\ ChangeUnderWay = StagedChange /\ StagedChange \in Store!Change /\ ChangeUnderWay # NoOne
         /\ Disk = Store!After(StagedChange, CommittedFiles)
         /\ StagedChange.act = "put" => StagedChange.base \in {Absent, CommittedFiles[StagedChange.path]}
         /\ StagedChange.act = "move" =>
              \A q \in Path : Store!IsPrefix(StagedChange.to, q) => CommittedFiles[q] = Absent
<1> DEFINE t == undo[p].tree
           r == req[p]
           c == StagedChange
           f == FilesOf(t)
<1>1. /\ r \in Served /\ r.act \in {"write", "delete", "rename"} /\ t \in Tree /\ Changed(t, r).ok
      /\ tree = Changed(t, r).tree /\ tree \in Tree /\ undo[p] = Remembered(t, r) /\ OverBase(t, r)
      /\ Straightly(t, r)
  BY StagedIs
<1>2. Candidate /\ mutate = p /\ Committed = t
  BY CommittedIs DEF WholeInv
<1>3. CommittedFiles = f /\ ChangeUnderWay = c /\ Disk = FilesOf(tree)
  BY <1>2 DEF CommittedFiles, ChangeUnderWay, Disk
<1>4. /\ c = [act |-> c.act, path |-> c.path, to |-> c.to, content |-> c.content, base |-> c.base]
      /\ c.content = r.content /\ c.base = r.base
  BY <1>2 DEF StagedChange
<1>5. r.content \in Contents \cup {Absent} /\ r.base \in Contents \cup {Absent}
  BY <1>1, Requests DEF Request
<1>6. f \in [Path -> Contents \cup {Absent}] /\ \A q \in Path : t[q].is = "file" <=> f[q] # Absent
  BY <1>1, FilesAre
<1>7. CASE r.act = "write"
  <2> DEFINE q == Place(tree, WrittenPath(t, r.path))
  <2>1. undo[p].abs = WrittenPath(t, r.path)
    BY <1>1, <1>7 DEF Remembered
  <2>2. c.act = "put" /\ c.path = q /\ c.to = <<>>
    BY <1>2, <1>7, <2>1 DEF StagedChange
  <2>3. /\ q \in Path /\ FilesOf(tree) = [f EXCEPT ![q] = r.content]
        /\ r.base \in {Absent, f[q]}
    BY <1>1, <1>7, WriteChange
  <2> HIDE DEF c, q, f, t, r
  <2>4. Store!After(c, f) = [f EXCEPT ![q] = r.content]
    BY <1>4, <2>2 DEF Store!After
  <2>5. c \in Store!Change
    BY <1>4, <1>5, <2>2, <2>3 DEF Store!Change
  <2>6. c # NoOne
    BY <2>5, StoreAssumption
  <2> QED BY <1>3, <1>4, <2>2, <2>3, <2>4, <2>5, <2>6 DEF c
<1>8. CASE r.act = "delete"
  <2> DEFINE a == MetadataPath(t, r.path)
  <2>1. undo[p].from = a
    BY <1>1 DEF Remembered
  <2>2. c.act = "remove" /\ c.path = a /\ c.to = <<>>
    BY <1>2, <1>8, <2>1 DEF StagedChange
  <2>3. a \in Path /\ FilesOf(tree) = [q \in Path |-> IF Under(a, q) THEN Absent ELSE f[q]]
    BY <1>1, <1>8, DeleteChange
  <2> HIDE DEF c, a, f, t, r
  <2>4. Store!After(c, f) = [q \in Path |-> IF Under(a, q) THEN Absent ELSE f[q]]
    BY <2>2, StorePrefix DEF Store!After
  <2>5. c \in Store!Change
    BY <1>4, <1>5, <2>2, <2>3 DEF Store!Change
  <2>6. c # NoOne
    BY <2>5, StoreAssumption
  <2> QED BY <1>3, <2>2, <2>3, <2>4, <2>5, <2>6 DEF c
<1>9. CASE r.act = "rename"
  <2> DEFINE a == MetadataPath(t, r.path)
             b == MetadataPath(t, r.to)
             G == [q \in Path |->
                     LET old == a \o SubSeq(q, Len(b) + 1, Len(q)) IN
                       CASE Under(b, q) -> IF old \in Path THEN f[old] ELSE Absent
                         [] Under(a, q) /\ ~Under(b, q) -> Absent
                         [] OTHER -> f[q]]
  <2>1. undo[p].from = a /\ undo[p].to = b
    BY <1>1, <1>9 DEF Remembered
  <2>2. c.act = "move" /\ c.path = a /\ c.to = b
    BY <1>2, <1>9, <2>1 DEF StagedChange
  <2>3. Straight(t, r)
    BY <1>1, <1>9 DEF Straightly
  <2>4. a \in Path /\ b \in Path /\ \A q \in Path : Under(b, q) => t[q] = None
    BY <1>1, <1>9, <2>3, RenameChange
  <2>5. FilesOf(tree) = G
    BY <1>1, <1>9, <2>3, RenameChange
  <2> HIDE DEF c, a, b, f, t, r
  <2>6. Store!After(c, f) = G
    BY <2>2, StorePrefix DEF Store!After, Store!Rebase
  <2>7. c \in Store!Change
    BY <1>4, <1>5, <2>2, <2>4 DEF Store!Change
  <2>8. c # NoOne
    BY <2>7, StoreAssumption
  <2>9. \A q \in Path : Store!IsPrefix(c.to, q) => f[q] = Absent
    BY <1>6, <2>2, <2>4, StorePrefix DEF None
  <2> QED BY <1>3, <2>2, <2>5, <2>6, <2>7, <2>8, <2>9 DEF c
<1> QED BY <1>1, <1>7, <1>8, <1>9

(* The change under way is one ConfigStore knows, and the disk is what it   *)
(* makes of the files.                                                      *)
ChangeInv ==
  \A p \in Procs : Staged(p) =>
    /\ ChangeUnderWay = StagedChange /\ StagedChange \in Store!Change /\ ChangeUnderWay # NoOne
    /\ Disk = Store!After(StagedChange, CommittedFiles)
    /\ StagedChange.act = "put" => StagedChange.base \in {Absent, CommittedFiles[StagedChange.path]}
    /\ StagedChange.act = "move" =>
         \A q \in Path : Store!IsPrefix(StagedChange.to, q) => CommittedFiles[q] = Absent

(* ConfigStore starts where the handlers do.                                *)
LEMMA StoreInit == ASSUME Init PROVE Store!Init
<1>1. WholeInv /\ tree \in Tree /\ tagged = {} /\ \A p \in Procs : ~Staged(p)
  BY InitJ DEF Init, WholeInv, TreeInv, Staged
<1>2. ~Candidate /\ Committed = tree
  BY <1>1, CommittedIs DEF WholeInv
<1>3. CommittedFiles = FilesOf(tree) /\ Disk = FilesOf(tree) /\ ChangeUnderWay = NoOne
  BY <1>2 DEF CommittedFiles, Disk, ChangeUnderWay
<1>4. FilesOf(tree) \in [Path -> Contents \cup {Absent}]
  BY <1>1, FilesAre
<1> QED BY <1>1, <1>3, <1>4 DEF Store!Init, Store!Files

(* A change reaches the disk: it is staged.                                 *)
LEMMA StageStep ==
  ASSUME WholeInv, ChangeInv', NEW p \in Procs, Apply(p)
  PROVE  ChangeUnderWay' \in Store!Change /\ Store!Stage(ChangeUnderWay')
<1>1. /\ ~Candidate /\ Staged(p)' /\ Committed = tree /\ Committed' = tree
  BY ApplyJ
<1>2. tagged' = tagged
  BY DEF Apply
<1>3. ChangeUnderWay = NoOne
  BY <1>1 DEF ChangeUnderWay
<1>4. CommittedFiles' = CommittedFiles
  BY <1>1 DEF CommittedFiles
<1>5. /\ ChangeUnderWay' = StagedChange' /\ StagedChange' \in Store!Change
      /\ Disk' = Store!After(StagedChange', CommittedFiles')
      /\ StagedChange'.act = "put" => StagedChange'.base \in {Absent, CommittedFiles'[StagedChange'.path]}
      /\ StagedChange'.act = "move" =>
           \A q \in Path : Store!IsPrefix(StagedChange'.to, q) => CommittedFiles'[q] = Absent
  BY <1>1 DEF ChangeInv
<1> QED BY <1>2, <1>3, <1>4, <1>5 DEF Store!Stage

(* A handler answers: its change counts, with its tags, or leaves no trace. *)
LEMMA CommitStep ==
  ASSUME WholeInv, ChangeInv, NEW p \in Procs, Staged(p), NEW from \in Steps \ {"idle"}, Answer(p, from),
         Master, tree' = tree, tagged' = Store!TaggedAfter(StagedChange, tagged)
  PROVE  Store!Commit
<1>1. ChangeUnderWay = StagedChange /\ ChangeUnderWay # NoOne
  BY DEF ChangeInv
<1>2. tree' \in Tree
  BY DEF WholeInv, TreeInv
<1>3. Committed' = tree' /\ ~Candidate'
  BY <1>2, AnswerJ
<1>4. CommittedFiles' = Disk /\ Disk' = Disk /\ ChangeUnderWay' = NoOne
  BY <1>3 DEF CommittedFiles, Disk, ChangeUnderWay
<1> QED BY <1>1, <1>4 DEF Store!Commit

(* A rollback is an abort of ConfigStore.                                   *)
LEMMA AbortStep ==
  ASSUME WholeInv, ChangeInv, ~Twisted, NEW p \in Procs, Rollback(p)
  PROVE  Store!Abort
<1>1. /\ Staged(p) /\ tree' = Restored(p).tree /\ tagged' = tagged /\ Answer(p, "rollback") /\ Master
  BY DEF Rollback, Answer, Goto, Staged
<1>2. ChangeUnderWay # NoOne
  BY <1>1 DEF ChangeInv
<1>3. tree' \in Tree /\ RolledBack(undo[p].tree, req[p], tree') /\ undo[p].tree \in Tree
  BY <1>1, RestoredDoes, StagedIs
<1>4. Committed = undo[p].tree
  BY <1>1, CommittedIs DEF WholeInv
<1>5. Committed' = tree' /\ ~Candidate'
  BY <1>1, <1>3, AnswerJ DEF Steps
<1>6. FilesOf(tree') = FilesOf(undo[p].tree)
  BY <1>3, SameFiles DEF RolledBack, None, Dir
<1>7. CommittedFiles' = CommittedFiles /\ Disk' = CommittedFiles /\ ChangeUnderWay' = NoOne
  BY <1>4, <1>5, <1>6 DEF CommittedFiles, Disk, ChangeUnderWay
<1> QED BY <1>1, <1>2, <1>7 DEF Store!Abort

(* What a handler does, ConfigStore does.                                   *)
LEMMA HandleStep ==
  ASSUME WholeInv, ChangeInv, ChangeInv', ~Twisted, NEW p \in Procs, Handle(p)
  PROVE  Store!Next \/ UNCHANGED Store!vars
<1>1. CASE CheckBase(p)
  <2>1. OverBase(tree, req[p])
    BY <1>1 DEF CheckBase, BaseIsCurrent, OverBase
  <2>2. Candidate' = Candidate /\ Committed' = Committed /\ UNCHANGED <<tree, tagged, mutate, req, undo>>
    BY <1>1, <2>1, GoesOnJ DEF CheckBase, Steps
  <2> QED BY <2>2, SameStore
<1>2. CASE Conflict(p)
  <2>1. pc[p] = "check" /\ tree' = tree /\ tagged' = tagged /\ Answer(p, "check") /\ Master /\ tree' \in Tree
    BY <1>2 DEF Conflict, Answer, Goto, WholeInv, TreeInv
  <2>2. ~Candidate /\ Committed = tree
    BY <2>1, CommittedIs DEF WholeInv, Staged
  <2>3. ~Candidate' /\ Committed' = tree'
    BY <2>1, AnswerJ DEF Steps
  <2> QED BY <2>1, <2>2, <2>3, SameStore
<1>3. CASE Apply(p)
  BY <1>3, StageStep DEF Store!Next
<1>4. CASE ApplyEnds(p)
  <2>1. /\ pc[p] = "apply" /\ tree' = Changed(tree, req[p]).tree /\ tagged' = tagged
        /\ Answer(p, "apply") /\ Master /\ (~Changed(tree, req[p]).ok \/ req[p].act = "mkdir")
    BY <1>4 DEF ApplyEnds, Answer, Goto
  <2>2. tree \in Tree /\ tree' \in Tree /\ Extends(tree, tree')
    <3>1. req[p] \in Served /\ tree \in Tree
      BY <2>1 DEF WholeInv, IInv, TypeInv, TreeInv
    <3> QED BY <2>1, <3>1, RefusedDoes
  <2>3. ~Candidate /\ Committed = tree
    BY <2>1, CommittedIs DEF WholeInv, Staged
  <2>4. ~Candidate' /\ Committed' = tree'
    BY <2>1, <2>2, AnswerJ DEF Steps
  <2>5. FilesOf(tree') = FilesOf(tree)
    BY <2>2, ExtendsFiles
  <2> QED BY <2>1, <2>3, <2>4, <2>5, SameStore
<1>5. CASE TestPasses(p)
  <2>1. pc[p] = "test" /\ Staged(p) /\ Valid(tree) /\ UNCHANGED <<tree, tagged>> /\ Master
    BY <1>5 DEF TestPasses, Staged
  <2>2. CASE req[p].act = "write" /\ Answer(p, "test")
    <3>1. mutate = p
      BY <2>1, CommittedIs DEF WholeInv
    <3>2. StagedChange.act = "put"
      BY <2>2, <3>1 DEF StagedChange
    <3>3. tagged' = Store!TaggedAfter(StagedChange, tagged)
      BY <2>1, <3>2 DEF Store!TaggedAfter
    <3>4. Store!Commit
      BY <2>1, <2>2, <3>3, CommitStep DEF Steps
    <3> QED BY <3>4 DEF Store!Next
  <2>3. CASE req[p].act # "write" /\ Goto(p, "test", "meta") /\ UNCHANGED <<mutate, req, undo>>
    <3>1. Candidate' = Candidate /\ Committed' = Committed
      BY <2>1, <2>3, GoesOnJ DEF Steps
    <3> QED BY <2>1, <2>3, <3>1, SameStore
  <2> QED BY <1>5, <2>2, <2>3 DEF TestPasses
<1>6. CASE TestFails(p)
  <2>1. Candidate' = Candidate /\ Committed' = Committed /\ UNCHANGED <<tree, tagged, mutate, req, undo>>
    BY <1>6, GoesOnJ DEF TestFails, Steps
  <2> QED BY <2>1, SameStore
<1>7. CASE StoreCommits(p)
  <2>1. tree' = tree /\ Staged(p) /\ Answer(p, "meta") /\ Master
    BY <1>7 DEF StoreCommits, Answer, Goto, Staged
  <2>2. tagged' = Store!TaggedAfter(StagedChange, tagged)
    BY <1>7, TagsFollow
  <2>3. Store!Commit
    BY <2>1, <2>2, CommitStep DEF Steps
  <2> QED BY <2>3 DEF Store!Next
<1>8. CASE StoreFails(p)
  <2>1. Candidate' = Candidate /\ Committed' = Committed /\ UNCHANGED <<tree, tagged, mutate, req, undo>>
    BY <1>8, GoesOnJ DEF StoreFails, Steps
  <2> QED BY <2>1, SameStore
<1>9. CASE Rollback(p)
  BY <1>9, AbortStep DEF Store!Next
<1> QED BY <1>1, <1>2, <1>3, <1>4, <1>5, <1>6, <1>7, <1>8, <1>9 DEF Handle

(* Every step is one of ConfigStore, or nothing it sees.                    *)
LEMMA StoreStep ==
  ASSUME WholeInv, ChangeInv, ChangeInv', ~Twisted, [Next]_vars
  PROVE  [Store!Next]_(Store!vars)
<1>1. CASE \E p \in Procs, r \in Writes \cup OnPath \cup Renames : Begin(p, r)
  <2>1. PICK p \in Procs, r \in Served : Begin(p, r)
    BY <1>1 DEF Served
  <2>2. mutate = NoOne /\ UNCHANGED <<tree, tagged, undo>> /\ IInv'
        /\ pc' = [pc EXCEPT ![p] = IF r.act = "write" /\ r.base # Absent THEN "check" ELSE "apply"]
    BY <2>1, BeginInv DEF Begin, Goto, WholeInv
  <2>3. \A q \in Procs : ~Staged(q) /\ ~Staged(q)'
    BY <2>2, GuardedConfigAssumption DEF WholeInv, IInv, LockInv, TypeInv, Staged
  <2>4. ~Candidate /\ ~Candidate' /\ Committed = tree /\ Committed' = tree'
    BY <2>2, <2>3, CommittedIs, CommittedNext DEF WholeInv
  <2> QED BY <2>2, <2>4, SameStore
<1>2. CASE \E p \in Procs : Handle(p)
  BY <1>2, HandleStep
<1>3. CASE \E p \in Path, on \in BOOLEAN : SetFileTags(p, on)
  <2>1. PICK p \in Path, on \in BOOLEAN : SetFileTags(p, on)
    BY <1>3
  <2> DEFINE k == Target(tree, p)
  <2>2. /\ ~Candidate /\ ~Candidate' /\ Committed = tree /\ Committed' = tree'
        /\ k \in Path /\ tree[k].is = "file" /\ tree' = tree
        /\ tagged' = IF on THEN tagged \cup {k} ELSE tagged \ {k}
    BY <2>1, SetTagsFile
  <2>3. CommittedFiles[k] # Absent
    BY <2>2, FilesAre DEF CommittedFiles, WholeInv, TreeInv
  <2>4. /\ ChangeUnderWay = NoOne /\ ChangeUnderWay' = NoOne
        /\ CommittedFiles' = CommittedFiles /\ Disk' = Disk
    BY <2>2 DEF CommittedFiles, Disk, ChangeUnderWay
  <2>5. Store!SetTags(k, on)
    BY <2>2, <2>3, <2>4 DEF Store!SetTags
  <2> QED BY <2>2, <2>5 DEF Store!Next
<1>4. CASE RestartBegins \/ RestartStep \/ Respawn \/ UNCHANGED vars
  <2>1. UNCHANGED <<tree, tagged, mutate, pc, req, undo>>
    BY <1>4 DEF RestartBegins, RestartStep, RestartTests, RestartStops, RestartStarts, Respawn, Edits, vars
  <2>2. Committed' = Committed /\ Candidate' = Candidate
    BY <2>1 DEF Committed, Candidate, Staged
  <2> QED BY <2>1, <2>2, SameStore
<1> QED BY <1>1, <1>2, <1>3, <1>4 DEF Next

-----------------------------------------------------------------------------
(* What TypeOK says.                                                        *)
LEMMA TypesHold == ASSUME WholeInv, ~Twisted PROVE TypeOK
<1>1. tree \in [Path -> Entry] /\ Rooted(tree)
  BY DEF WholeInv, TreeInv, Tree
<1>2. tagged \subseteq Path
  BY DEF WholeInv, TagsInv
<1>3. ASSUME NEW p \in Procs PROVE req[p] \in Request
  <2>1. NoRequest \in Request
    BY DEF NoRequest, Request, Acts
  <2>2. req[p] \in Served \cup {NoRequest}
    BY DEF WholeInv, IInv, TypeInv
  <2> QED BY <2>1, <2>2, Requests
<1>4. ASSUME NEW p \in Procs PROVE undo[p].old \in Entry /\ undo[p].tree \in [Path -> Entry]
  <2>1. undo[p].tree \in Tree
    BY DEF WholeInv, TreeInv
  <2>2. CASE ~Staged(p)
    <3>1. undo[p] = NoUndo
      BY <2>2 DEF WholeInv, MemoryInv
    <3> QED BY <2>1, <3>1 DEF NoUndo, Entry, Tree
  <2>3. CASE Staged(p)
    <3> DEFINE t == undo[p].tree
               abs == WrittenPath(t, req[p].path)
    <3>1. undo[p] = Remembered(t, req[p]) /\ req[p] \in Served /\ t \in Tree /\ Changed(t, req[p]).ok
      BY <2>3, StagedIs
    <3>2. CASE req[p].act = "write" /\ IsFile(t, abs)
      <4>1. undo[p].old = File(Content(t, abs))
        BY <3>1, <3>2 DEF Remembered
      <4>2. Write(t, req[p].path, req[p].content).ok /\ req[p].path \in Path /\ req[p].content \in Contents
        BY <3>1, <3>2, Requests DEF Changed
      <4>3. abs \in Path
        BY <3>1, <4>2, WriteDoes
      <4>4. abs \in Seq(Names) /\ Tried(t)
        <5> HIDE DEF abs
        <5> QED BY <3>1, <4>3, PathFront, TreeTried
      <4>5. Target(t, abs) \in Path /\ t[Target(t, abs)].is = "file"
        <5> HIDE DEF abs, t
        <5> QED BY <3>2, <4>4, Found
      <4>6. Content(t, abs) \in Contents
        <5>1. t[Target(t, abs)] \in Entry
          BY <4>4, <4>5 DEF Tried
        <5> QED BY <4>5, <5>1, EntryKinds DEF Content
      <4> QED BY <2>1, <4>1, <4>6 DEF Entry, Tree
    <3>3. CASE ~(req[p].act = "write" /\ IsFile(t, abs))
      <4>1. undo[p].old = None
        BY <3>1, <3>3 DEF Remembered
      <4> QED BY <2>1, <4>1 DEF Entry, Tree
    <3> QED BY <3>2, <3>3
  <2> QED BY <2>2, <2>3
<1>5. /\ mutate \in Procs \cup {NoOne} /\ pc \in [Procs -> Steps]
      /\ restart \in {"idle", "test", "stop", "start"} /\ nginx \in {"up", "stopped", "exited"}
  BY DEF WholeInv, IInv, TypeInv, RestartInv
<1> QED BY <1>1, <1>2, <1>3, <1>4, <1>5 DEF TypeOK

(* Types, and the directory rooted: no change, no closure and no move of    *)
(* tags leads out of the paths there are (the writers of confdir,           *)
(* metadataPath, and MoveFileTags of the store).                            *)
THEOREM TypeCorrect == ASSUME ~Twisted PROVE Spec => []TypeOK
<1>1. WholeInv => TypeOK
  BY TypesHold
<1> QED BY <1>1, AlwaysWholeInv, PTL

(* Between changes every tag is on a regular file of the directory          *)
(* (metadataChange and the closures, called by handleDeleteFile and         *)
(* handleRenameFile; handleFileTags).                                       *)
THEOREM TagsStayOnFiles == ASSUME ~Twisted PROVE Spec => []TagsOnFiles
<1>1. WholeInv => TagsOnFiles
  BY GuardedConfigAssumption DEF WholeInv, TagsInv, TagsOnFiles, Committed, Candidate
<1> QED BY <1>1, AlwaysWholeInv, PTL

(* A rolled back change leaves the directory as its handler found it, but   *)
(* for the directories made on the way and a dangling link that was written *)
(* over (the closures of confdir Write, Delete and Rename, called by        *)
(* handleWriteFile, handleDeleteFile and handleRenameFile).                 *)
THEOREM RollbackRestores == ASSUME ~Twisted PROVE Spec => RollbackKeepsTree
<1> DEFINE Restores ==
      \A p \in Procs :
        pc[p] = "rollback" /\ pc'[p] = "idle" =>
        \A q \in Path :
          \/ tree'[q] = undo[p].tree[q]
          \/ undo[p].tree[q] = None /\ tree'[q] = Dir
          \/ undo[p].tree[q].is = "link" /\ req[p].act = "write"
<1>1. ASSUME WholeInv, [Next]_vars PROVE Restores
  <2> SUFFICES ASSUME NEW p \in Procs, pc[p] = "rollback", pc'[p] = "idle"
               PROVE  RolledBack(undo[p].tree, req[p], tree')
    BY DEF RolledBack
  <2>1. Rollback(p)
    BY <1>1, Ends DEF WholeInv
  <2>2. Staged(p) /\ tree' = Restored(p).tree
    BY <2>1 DEF Rollback, Staged
  <2> QED BY <1>1, <2>2, RestoredDoes, StagedIs
<1>2. Spec => [][Restores]_vars
  BY <1>1, AlwaysWholeInv, PTL DEF Spec
<1> QED BY <1>2 DEF RollbackKeepsTree

(* For whoever looks at the committed files and their tags, the handlers    *)
(* are ConfigStore: one change at a time, staged, then committed with its   *)
(* tags or dropped with none of it.                                         *)
THEOREM StoreImplemented == ASSUME ~Twisted PROVE Spec => ImplementsStore
<1>1. Init => Store!Init
  BY StoreInit
<1>2. WholeInv => ChangeInv
  BY ChangeIs DEF ChangeInv
<1>3. WholeInv /\ ChangeInv /\ ChangeInv' /\ [Next]_vars => [Store!Next]_(Store!vars)
  BY StoreStep
<1>4. Spec => [](WholeInv /\ ChangeInv)
  BY <1>2, AlwaysWholeInv, PTL
<1> QED BY <1>1, <1>3, <1>4, PTL DEF Spec, ImplementsStore, Store!Spec

(* "If the test fails, the change is rolled back": a deletion that does not *)
(* count is undone to the last entry of what was below, whenever the place  *)
(* it is about is found again, and whatever the request was (the closure of *)
(* confdir Delete, called by handleDeleteFile).                           *)
DeletionsUndone ==
  [][\A p \in Procs :
       /\ pc[p] = "rollback" /\ pc'[p] = "idle" /\ req[p].act = "delete"
       /\ HasPlace(tree, req[p].path)
       => tree' = undo[p].tree]_vars

(* A deletion that does not count is undone to the last entry.              *)
THEOREM DeletionsComeBack == Spec => DeletionsUndone
<1> DEFINE Undone ==
      \A p \in Procs :
        /\ pc[p] = "rollback" /\ pc'[p] = "idle" /\ req[p].act = "delete"
        /\ HasPlace(tree, req[p].path)
        => tree' = undo[p].tree
<1>1. ASSUME WholeInv, [Next]_vars PROVE Undone
  <2> SUFFICES ASSUME NEW p \in Procs, pc[p] = "rollback", pc'[p] = "idle",
                      req[p].act = "delete", HasPlace(tree, req[p].path)
               PROVE  tree' = undo[p].tree
    OBVIOUS
  <2> DEFINE t == undo[p].tree
             path == req[p].path
  <2>1. Staged(p) /\ tree' = DeleteRestore(tree, path, t).tree
    BY <1>1, Ends DEF WholeInv, Rollback, Restored, Staged
  <2>2. t \in Tree /\ path \in Path /\ tree = Delete(t, path).tree /\ Delete(t, path).ok
    BY <1>1, <2>1, StagedIs, Requests DEF Changed
  <2>3. HasPlace(Delete(t, path).tree, path)
    BY <2>2
  <2>4. DeleteRestore(Delete(t, path).tree, path, t).tree = t
    <3> HIDE DEF t, path
    <3> QED BY <2>2, <2>3, DeleteUndoes
  <2> QED BY <2>1, <2>2, <2>4
<1>2. Spec => [][Undone]_vars
  BY <1>1, AlwaysWholeInv, PTL DEF Spec
<1> QED BY <1>2 DEF DeletionsUndone

(* The directory stays a tree: every entry is in a directory and of a kind, *)
(* whatever is asked for, in whatever order, refused or rolled back (Write, *)
(* Mkdir, Delete and Rename of confdir and their closures).                 *)
THEOREM AlwaysATree == Spec => [](tree \in Tree)
<1>1. WholeInv => tree \in Tree
  BY DEF WholeInv, TreeInv
<1> QED BY <1>1, AlwaysWholeInv, PTL
=============================================================================
