---------------------------- MODULE VhostsProofs ----------------------------
(***************************************************************************)
(* Proofs about Vhosts, for any names, contents, size of a batch and set of*)
(* managers: a request that fails leaves what it found, rollback does not  *)
(* fail, tags do not outlive files; and, with one manager, what passed the *)
(* test stays valid and requests touch only the vhosts they name.          *)
(***************************************************************************)
EXTENDS Vhosts, SequenceTheorems, TLAPS

Files == [Vhost -> Contents \cup {None}]
Entries == [Vhost -> Links]
Generated == [Names -> Contents \cup {None}]
Found == Files \X Entries \X Generated \X SUBSET Vhost

Deletes == {"delete", "remove"}

(* The vhosts of the first k names of a request, and all of them.           *)
Touched(r, k) == {<<r.kind, r.names[i]>> : i \in 1 .. k}
Named(r) == Touched(r, Len(r.names))

TypeInv ==
  /\ avail \in Files /\ link \in Entries /\ gen \in Generated /\ tagged \in SUBSET Vhost
  /\ pc \in {"idle", "apply", "test", "rollback", "meta", "cleanup", "reload", "replied"}
  /\ req \in Request /\ req.names \in Seq(Names) /\ todo \in Seq(Names) /\ undo \in Seq(Closure)
  /\ outcome \in {"none", "applied", "rejected", "error", "store_failed", "rollback_failed"}

(* What a request is, and what it found.                                    *)
RequestInv ==
  IF pc = "idle" THEN undo = <<>>
  ELSE /\ req.kind \in Kinds /\ before \in Found
       /\ req.act \in Batch \cup Single \cup {"rename", "clone"}
       /\ Len(req.names) > 0
       /\ req.act \in Single => Len(req.names) = 1
       /\ req.act \in {"rename", "clone"} => Len(req.names) = 2

(* How far it is: one closure per name applied, one for a rename, none for  *)
(* a clone.                                                                 *)
ProgressInv ==
  /\ pc = "apply" =>
       /\ todo # <<>> /\ Len(undo) + Len(todo) = Len(req.names)
       /\ \A i \in 1 .. Len(todo) : todo[i] = req.names[Len(undo) + i]
       /\ req.act \in {"rename", "clone"} => undo = <<>>
  /\ pc \in {"test", "meta", "cleanup"} =>
       /\ Len(undo) = IF req.act = "rename" THEN 1 ELSE Len(req.names)
       /\ req.act # "clone"
  /\ pc = "meta" => req.act \in Deletes \cup {"rename"}
  /\ pc = "cleanup" => req.act \in {"delete", "disable", "maintenance_off"}
  /\ pc = "rollback" =>
       /\ Len(undo) <= Len(req.names)
       /\ outcome \in {"error", "rejected", "store_failed", "rollback_failed"}
       /\ outcome = "rollback_failed" => ~Clean

(* The disk after the first k names, from what the request found: where an  *)
(* entry points then, and what is left of a file and of a generated vhost.  *)
After(act) ==
  CASE act \in {"enable", "maintenance_off"} -> "avail"
    [] act \in {"disable", "delete"} -> "none"
    [] OTHER -> "gen"

FilesAfter(r, T, b, a) ==
  /\ r.act \notin Deletes \cup {"write"} => a = b[1]
  /\ \A v \in Vhost \ T : a[v] = b[1][v]
  /\ \A v \in T : (r.act \in Deletes => a[v] = None) /\ (r.act = "write" => a[v] # None)

EntriesAfter(r, T, b, l) ==
  /\ r.act \notin Batch => l = b[2]
  /\ \A v \in Vhost \ T : l[v] = b[2][v]
  /\ r.act \in Batch => \A v \in T : l[v] = After(r.act)

GeneratedAfter(r, T, b, g) ==
  /\ r.act \notin {"delete", "maintenance_on"} => g = b[3]
  /\ \A n \in Names :
       IF <<r.kind, n>> \in T
         THEN (r.act = "delete" => g[n] = None) /\ (r.act = "maintenance_on" => g[n] # None)
         ELSE g[n] = b[3][n]

Renamed(r, b, a, l) ==
  LET v == <<r.kind, r.names[1]>>
      w == <<r.kind, r.names[2]>>
  IN /\ b[1][v] # None /\ b[1][w] = None
     /\ a = [b[1] EXCEPT ![w] = b[1][v], ![v] = None]
     /\ IF b[2][v] = "none" THEN l = b[2]
        ELSE /\ b[2][v] = "avail" /\ b[2][w] = "none"
             /\ l = [b[2] EXCEPT ![w] = "avail", ![v] = "none"]

(* The disk as the closures expect it. Nothing is claimed of the generated  *)
(* vhosts of a maintenance_on that is not clean.                            *)
DiskAfter(r, k, b, a, l, g, clean) ==
  IF r.act = "rename" /\ k > 0 THEN Renamed(r, b, a, l) /\ g = b[3]
  ELSE /\ FilesAfter(r, Touched(r, k), b, a) /\ EntriesAfter(r, Touched(r, k), b, l)
       /\ clean => GeneratedAfter(r, Touched(r, k), b, g)

(* The closure made after the first k names: what it puts back is what the  *)
(* request found, or what an earlier operation on the same vhost left.      *)
What(act) ==
  CASE act \in {"enable", "maintenance_off"} -> "link"
    [] act = "maintenance_on" -> "maintenance"
    [] act \in Single -> "file"
    [] OTHER -> act

ClosureAfter(r, k, b, c) ==
  LET T == Touched(r, k) IN
  /\ r.act # "clone" /\ c.what = What(r.act) /\ c.v = <<r.kind, r.names[k + 1]>>
  /\ r.act \in {"disable", "delete"} => c.v \notin T
  /\ c.link = IF c.v \in T /\ r.act \in Batch THEN After(r.act) ELSE b[2][c.v]
  /\ r.act \in Deletes \cup {"write"} => c.avail = b[1][c.v]
  /\ r.act = "delete" => c.gen = b[3][c.v[2]]
  /\ r.act = "rename" => k = 0 /\ c.to = <<r.kind, r.names[2]>>

UndoInv ==
  pc \in {"apply", "test", "meta", "rollback", "cleanup"} =>
    /\ \A k \in 0 .. Len(undo) - 1 : ClosureAfter(req, k, before, undo[k + 1])
    /\ DiskAfter(req, Len(undo), before, avail, link, gen, Clean)

(* No request but a clone or one that reaches the store changes the tags.   *)
TagsInv ==
  /\ pc \in {"idle", "cleanup", "reload", "replied"} => \A v \in tagged : avail[v] # None
  /\ pc # "idle" => \A v \in before[4] : before[1][v] # None
  /\ pc \in {"apply", "test", "meta", "rollback"} => tagged = before[4]

OthersInv ==
  pc # "idle" =>
    /\ \A v \in Vhost \ Named(req) : avail[v] = before[1][v] /\ link[v] = before[2][v]
    /\ \A n \in Names : <<req.kind, n>> \notin Named(req) => gen[n] = before[3][n]

IInv ==
  /\ TypeInv /\ RequestInv /\ ProgressInv /\ UndoInv /\ TagsInv /\ OthersInv
  /\ RollbackExact /\ RollbackSucceeds

(* What passed the test, and what Cleanup may take away: with one manager   *)
(* only the named vhosts have the generated vhosts it removes.              *)
ValidInv ==
  (pc \in {"meta", "cleanup", "reload"} \/ (Replied({"applied"}) /\ req.act # "clone")) => Valid

-----------------------------------------------------------------------------
(* The helpers of the model.                                                *)
LEMMA FrontLast ==
  ASSUME NEW S, NEW s \in Seq(S), s # <<>>
  PROVE  /\ Len(s) \in Nat \ {0} /\ Last(s) = s[Len(s)] /\ Last(s) \in S
         /\ Front(s) \in Seq(S) /\ Len(Front(s)) = Len(s) - 1
         /\ \A i \in 1 .. Len(s) - 1 : Front(s)[i] = s[i]
<1>1. Len(s) \in Nat \ {0}
  BY EmptySeq
<1>2. \A i \in 1 .. Len(s) - 1 : s[i] \in S
  BY <1>1, ElementOfSeq
<1>3. PICK f : f = SubSeq(s, 1, Len(s) - 1)
  OBVIOUS
<1>4. Front(s) = f /\ Last(s) = s[Len(s)] /\ Last(s) \in S
  BY <1>1, <1>3, ElementOfSeq DEF Front, Last
<1>5. /\ f \in Seq(S) /\ Len(f) = Len(s) - 1
      /\ \A i \in 1 .. Len(s) - 1 - 1 + 1 : f[i] = s[1 + i - 1]
  <2>1. /\ SubSeq(s, 1, Len(s) - 1) \in Seq(S)
        /\ Len(SubSeq(s, 1, Len(s) - 1)) = (IF 1 <= Len(s) - 1 THEN Len(s) - 1 - 1 + 1 ELSE 0)
        /\ \A i \in 1 .. Len(s) - 1 - 1 + 1 : SubSeq(s, 1, Len(s) - 1)[i] = s[1 + i - 1]
    BY <1>1, <1>2, SubSeqProperties
  <2>2. \A n \in Nat \ {0} : (IF 1 <= n - 1 THEN n - 1 - 1 + 1 ELSE 0) = n - 1
    OBVIOUS
  <2>. QED
    BY <1>1, <1>3, <2>1, <2>2, Zenon
<1>7. ASSUME NEW i \in 1 .. Len(s) - 1 PROVE f[i] = s[i]
  <2>1. i \in 1 .. Len(s) - 1 - 1 + 1 /\ 1 + i - 1 = i
    BY <1>1
  <2>. QED
    BY <1>5, <2>1
<1>. QED
  BY <1>1, <1>4, <1>5, <1>7

LEMMA TouchedNone == ASSUME NEW r PROVE Touched(r, 0) = {}
BY DEF Touched

LEMMA TouchedMore ==
  ASSUME NEW r, NEW k \in Nat
  PROVE  Touched(r, k + 1) = Touched(r, k) \cup {<<r.kind, r.names[k + 1]>>}
<1>1. 1 .. (k + 1) = (1 .. k) \cup {k + 1}
  OBVIOUS
<1>. QED
  BY <1>1 DEF Touched

LEMMA TouchedNamed ==
  ASSUME NEW r, r.names \in Seq(Names), r.kind \in Kinds, NEW k \in Nat, k <= Len(r.names)
  PROVE  Touched(r, k) \subseteq Named(r) /\ Named(r) \subseteq Vhost
<1>1. Len(r.names) \in Nat
  BY LenProperties
<1>2. \A i \in 1 .. Len(r.names) : r.names[i] \in Names
  BY ElementOfSeq
<1>. QED
  BY <1>1, <1>2 DEF Touched, Named, Vhost

LEMMA SameClean == ASSUME UNCHANGED <<req, before>> PROVE Clean' = Clean
BY DEF Clean, V

LEMMA FoundParts ==
  ASSUME NEW b \in Found
  PROVE  b[1] \in Files /\ b[2] \in Entries /\ b[3] \in Generated /\ b[4] \in SUBSET Vhost
         /\ b = <<b[1], b[2], b[3], b[4]>>
BY DEF Found

(* Where a request is when it applies an operation: at the next name.       *)
LEMMA ApplyFacts ==
  ASSUME IInv, pc = "apply"
  PROVE  /\ Len(undo) \in Nat /\ Len(req.names) \in Nat /\ Len(undo) + 1 <= Len(req.names)
         /\ Head(todo) = req.names[Len(undo) + 1] /\ Head(todo) \in Names
         /\ req.kind \in Kinds /\ V(Head(todo)) \in Vhost
         /\ V(Head(todo)) = <<req.kind, req.names[Len(undo) + 1]>>
         /\ V(Head(todo))[2] = Head(todo)
         /\ Tail(todo) \in Seq(Names)
         /\ Len(undo) + 1 + Len(Tail(todo)) = Len(req.names)
         /\ \A i \in 1 .. Len(Tail(todo)) : Tail(todo)[i] = req.names[Len(undo) + 1 + i]
         /\ before \in Found /\ tagged = before[4]
<1>1. /\ todo \in Seq(Names) /\ todo # <<>> /\ Len(undo) + Len(todo) = Len(req.names)
      /\ \A i \in 1 .. Len(todo) : todo[i] = req.names[Len(undo) + i]
      /\ undo \in Seq(Closure) /\ req.names \in Seq(Names)
  BY DEF IInv, TypeInv, ProgressInv
<1>2. Len(undo) \in Nat /\ Len(req.names) \in Nat /\ Len(todo) \in Nat \ {0}
  BY <1>1, LenProperties, EmptySeq
<1>3. /\ Head(todo) \in Names /\ Tail(todo) \in Seq(Names) /\ Len(Tail(todo)) = Len(todo) - 1
      /\ \A i \in 1 .. Len(Tail(todo)) : Tail(todo)[i] = todo[i + 1]
  BY <1>1, HeadTailProperties
<1>4. Head(todo) = todo[1] /\ todo[1] = req.names[Len(undo) + 1]
  BY <1>1, <1>2
<1>5. req.kind \in Kinds /\ before \in Found /\ tagged = before[4]
  BY DEF IInv, RequestInv, TagsInv
<1>6. \A i \in 1 .. Len(Tail(todo)) : Tail(todo)[i] = req.names[Len(undo) + 1 + i]
  <2> SUFFICES ASSUME NEW i \in 1 .. Len(Tail(todo)) PROVE Tail(todo)[i] = req.names[Len(undo) + 1 + i]
    OBVIOUS
  <2>1. i + 1 \in 1 .. Len(todo) /\ Len(undo) + (i + 1) = Len(undo) + 1 + i
    BY <1>2, <1>3
  <2>. QED
    BY <1>1, <1>3, <2>1
<1>7. /\ V(Head(todo)) = <<req.kind, req.names[Len(undo) + 1]>> /\ V(Head(todo)) \in Vhost
      /\ V(Head(todo))[2] = Head(todo)
  BY <1>3, <1>4, <1>5 DEF V, Vhost
<1>8. Len(undo) + 1 <= Len(req.names) /\ Len(undo) + 1 + Len(Tail(todo)) = Len(req.names)
  <2>1. Len(undo) + Len(todo) = Len(req.names) /\ Len(Tail(todo)) = Len(todo) - 1
    BY <1>1, <1>3
  <2>. QED
    BY <1>2, <2>1
<1>9. Head(todo) = req.names[Len(undo) + 1]
  BY <1>4, Zenon
<1>10. Tail(todo) \in Seq(Names)
  BY <1>3
<1>11. Head(todo) \in Names
  BY <1>3
<1>12. req.kind \in Kinds /\ before \in Found /\ tagged = before[4]
  BY <1>5
<1>13. Len(undo) \in Nat /\ Len(req.names) \in Nat
  BY <1>2
<1>. QED
  BY <1>6, <1>7, <1>8, <1>9, <1>10, <1>11, <1>12, <1>13, Zenon

(* The disk an operation finds, but for a rename that is under way.         *)
LEMMA ApplyDisk ==
  ASSUME IInv, pc = "apply"
  PROVE  LET T == Touched(req, Len(undo)) IN
         /\ T \subseteq Vhost
         /\ \A k \in 0 .. Len(undo) - 1 : ClosureAfter(req, k, before, undo[k + 1])
         /\ req.act # "rename" \/ Len(undo) = 0 =>
              /\ FilesAfter(req, T, before, avail) /\ EntriesAfter(req, T, before, link)
              /\ Clean => GeneratedAfter(req, T, before, gen)
<1>1. Touched(req, Len(undo)) \subseteq Vhost
  <2>1. Len(undo) \in Nat /\ Len(req.names) \in Nat /\ Len(undo) + 1 <= Len(req.names)
    BY ApplyFacts
  <2>2. Len(undo) <= Len(req.names)
    BY <2>1
  <2>3. req.names \in Seq(Names) /\ req.kind \in Kinds
    BY ApplyFacts DEF IInv, TypeInv
  <2>. QED
    BY <2>1, <2>2, <2>3, TouchedNamed
<1>. QED
  BY <1>1, ApplyFacts DEF IInv, UndoInv, DiskAfter

(* An operation that leaves a closure, and the disk as the closures expect  *)
(* it, and touches its own vhost alone, keeps the invariant.                *)
LEMMA PushKeeps ==
  ASSUME IInv, pc = "apply", req.act \in Batch \cup Single, Applied,
         NEW c \in Closure, undo' = Append(undo, c),
         avail' \in Files, link' \in Entries, gen' \in Generated,
         ClosureAfter(req, Len(undo), before, c),
         DiskAfter(req, Len(undo) + 1, before, avail', link', gen', Clean),
         \A u \in Vhost \ {V(Head(todo))} : avail'[u] = avail[u] /\ link'[u] = link[u],
         \A n \in Names \ {Head(todo)} : gen'[n] = gen[n]
  PROVE  IInv'
<1>1. UNCHANGED <<tagged, req, outcome, before>> /\ todo' = Tail(todo)
      /\ pc' = (IF Tail(todo) = <<>> THEN "test" ELSE "apply")
  BY DEF Applied
<1>2. /\ undo' \in Seq(Closure) /\ Len(undo') = Len(undo) + 1 /\ undo'[Len(undo) + 1] = c
      /\ \A i \in 1 .. Len(undo) : undo'[i] = undo[i]
  BY AppendProperties DEF IInv, TypeInv
<1>3. TypeInv'
  BY <1>1, <1>2, ApplyFacts DEF IInv, TypeInv
<1>4. RequestInv'
  BY <1>1 DEF IInv, RequestInv
<1>5. ProgressInv'
  <2>1. CASE Tail(todo) = <<>>
    <3>1. Len(Tail(todo)) = 0
      BY <2>1, EmptySeq
    <3>2. Len(undo') = Len(req.names)
      BY <1>2, <3>1, ApplyFacts
    <3>. QED
      BY <1>1, <2>1, <3>2 DEF ProgressInv, Batch, Single
  <2>2. CASE Tail(todo) # <<>>
    <3>1. Len(undo') + Len(todo') = Len(req.names)
      BY <1>1, <1>2, ApplyFacts
    <3>2. \A i \in 1 .. Len(todo') : todo'[i] = req.names[Len(undo') + i]
      BY <1>1, <1>2, ApplyFacts
    <3>. QED
      BY <1>1, <2>2, <3>1, <3>2 DEF ProgressInv, Batch, Single
  <2>. QED
    BY <2>1, <2>2
<1>6. UndoInv'
  <2>1. Clean' = Clean
    BY <1>1, SameClean
  <2>2. ASSUME NEW k \in 0 .. Len(undo') - 1 PROVE ClosureAfter(req, k, before, undo'[k + 1])
    <3>1. CASE k = Len(undo)
      BY <1>2, <3>1
    <3>2. CASE k # Len(undo)
      <4>1. k \in 0 .. Len(undo) - 1 /\ k + 1 \in 1 .. Len(undo)
        BY <1>2, <3>2, ApplyFacts
      <4>. QED
        BY <1>2, <4>1, ApplyDisk
    <3>. QED
      BY <3>1, <3>2
  <2>. QED
    BY <1>1, <1>2, <2>1, <2>2 DEF UndoInv
<1>7. TagsInv'
  BY <1>1, ApplyFacts DEF IInv, TagsInv
<1>8. OthersInv'
  <2>1. V(Head(todo)) \in Named(req)
    BY ApplyFacts DEF Named, Touched
  <2>2. V(Head(todo)) = <<req.kind, Head(todo)>>
    BY DEF V
  <2>3. \A v \in Vhost \ Named(req) : avail'[v] = before[1][v] /\ link'[v] = before[2][v]
    BY <2>1 DEF IInv, OthersInv
  <2>4. \A n \in Names : <<req.kind, n>> \notin Named(req) => gen'[n] = before[3][n]
    BY <2>1, <2>2 DEF IInv, OthersInv
  <2>. QED
    BY <1>1, <2>3, <2>4 DEF OthersInv
<1>9. RollbackExact' /\ RollbackSucceeds'
  BY <1>1 DEF RollbackExact, RollbackSucceeds, Replied
<1>. QED
  BY <1>3, <1>4, <1>5, <1>6, <1>7, <1>8, <1>9 DEF IInv

(* The closure that Push makes.                                             *)
LEMMA PushedClosure ==
  ASSUME IInv, NEW what \in {"link", "disable", "maintenance", "delete", "rename", "file"},
         NEW v \in Vhost, NEW to \in Vhost, Push(what, v, to)
  PROVE  \E c \in Closure :
           /\ undo' = Append(undo, c) /\ c.what = what /\ c.v = v /\ c.to = to
           /\ c.avail = avail[v] /\ c.link = link[v] /\ c.gen = gen[v[2]]
<1> DEFINE c == [what |-> what, v |-> v, to |-> to, avail |-> avail[v], link |-> link[v], gen |-> gen[v[2]]]
<1>1. avail[v] \in Contents \cup {None} /\ link[v] \in Links /\ gen[v[2]] \in Contents \cup {None}
  BY DEF IInv, TypeInv, Files, Entries, Generated, Vhost
<1>2. c \in Closure
  BY <1>1 DEF Closure
<1>3. undo' = Append(undo, c)
  BY DEF Push
<1>. QED
  BY <1>2, <1>3

-----------------------------------------------------------------------------
(* The operations.                                                          *)

(* The vhosts touched once the operation at hand is applied.                *)
LEMMA TouchedNext ==
  ASSUME IInv, pc = "apply"
  PROVE  Touched(req, Len(undo) + 1) = Touched(req, Len(undo)) \cup {V(Head(todo))}
BY ApplyFacts, TouchedMore

LEMMA EnableKeeps == ASSUME IInv, Enable PROVE IInv'
<1> DEFINE v == V(Head(todo))
           T == Touched(req, Len(undo))
<1>1. /\ pc = "apply" /\ req.act \in {"enable", "maintenance_off"} /\ Applied
      /\ Push("link", v, v) /\ link' = [link EXCEPT ![v] = "avail"] /\ UNCHANGED <<avail, gen>>
  BY DEF Enable, Applying
<1>2. v \in Vhost /\ v = <<req.kind, req.names[Len(undo) + 1]>>
  BY <1>1, ApplyFacts
<1>3. Touched(req, Len(undo) + 1) = T \cup {v}
  BY <1>1, TouchedNext
<1>4. T \subseteq Vhost /\ FilesAfter(req, T, before, avail) /\ EntriesAfter(req, T, before, link)
      /\ (Clean => GeneratedAfter(req, T, before, gen))
  BY <1>1, ApplyDisk
<1>5. PICK c \in Closure : /\ undo' = Append(undo, c) /\ c.what = "link" /\ c.v = v /\ c.to = v
                           /\ c.avail = avail[v] /\ c.link = link[v] /\ c.gen = gen[v[2]]
  BY <1>1, <1>2, PushedClosure
<1>6. avail' \in Files /\ link' \in Entries /\ gen' \in Generated
  BY <1>1, <1>2 DEF IInv, TypeInv, Entries, Links
<1>7. ClosureAfter(req, Len(undo), before, c)
  <2>1. c.link = IF v \in T THEN After(req.act) ELSE before[2][v]
    BY <1>1, <1>2, <1>4, <1>5 DEF EntriesAfter, Batch
  <2>. QED
    BY <1>1, <1>2, <1>5, <2>1 DEF ClosureAfter, What, Batch, Single, Deletes
<1>8. DiskAfter(req, Len(undo) + 1, before, avail', link', gen', Clean)
  <2>1. FilesAfter(req, T \cup {v}, before, avail')
    BY <1>1, <1>4 DEF FilesAfter, Deletes
  <2>2. EntriesAfter(req, T \cup {v}, before, link')
    BY <1>1, <1>2, <1>4 DEF EntriesAfter, After, Batch, IInv, TypeInv, Entries
  <2>3. Clean => GeneratedAfter(req, T \cup {v}, before, gen')
    BY <1>1, <1>4 DEF GeneratedAfter
  <2>. QED
    BY <1>1, <1>3, <2>1, <2>2, <2>3 DEF DiskAfter
<1>9. \A u \in Vhost \ {v} : avail'[u] = avail[u] /\ link'[u] = link[u]
  BY <1>1 DEF IInv, TypeInv, Entries
<1>. QED
  BY <1>1, <1>5, <1>6, <1>7, <1>8, <1>9, PushKeeps DEF Batch

LEMMA DisableKeeps == ASSUME IInv, Disable PROVE IInv'
<1> DEFINE v == V(Head(todo))
           T == Touched(req, Len(undo))
<1>1. /\ pc = "apply" /\ req.act = "disable" /\ Applied /\ link[v] # "none"
      /\ Push("disable", v, v) /\ link' = [link EXCEPT ![v] = "none"] /\ UNCHANGED <<avail, gen>>
  BY DEF Disable, Applying
<1>2. v \in Vhost /\ v = <<req.kind, req.names[Len(undo) + 1]>>
  BY <1>1, ApplyFacts
<1>3. Touched(req, Len(undo) + 1) = T \cup {v}
  BY <1>1, TouchedNext
<1>4. T \subseteq Vhost /\ FilesAfter(req, T, before, avail) /\ EntriesAfter(req, T, before, link)
      /\ (Clean => GeneratedAfter(req, T, before, gen))
  BY <1>1, ApplyDisk
<1>5. PICK c \in Closure : /\ undo' = Append(undo, c) /\ c.what = "disable" /\ c.v = v /\ c.to = v
                           /\ c.avail = avail[v] /\ c.link = link[v] /\ c.gen = gen[v[2]]
  BY <1>1, <1>2, PushedClosure
<1>6. avail' \in Files /\ link' \in Entries /\ gen' \in Generated
  BY <1>1, <1>2 DEF IInv, TypeInv, Entries, Links
<1>7. ClosureAfter(req, Len(undo), before, c)
  <2>1. v \notin T /\ c.link = before[2][v]
    BY <1>1, <1>2, <1>4, <1>5 DEF EntriesAfter, After, Batch
  <2>. QED
    BY <1>1, <1>2, <1>5, <2>1 DEF ClosureAfter, What, Batch, Single, Deletes
<1>8. DiskAfter(req, Len(undo) + 1, before, avail', link', gen', Clean)
  <2>1. FilesAfter(req, T \cup {v}, before, avail')
    BY <1>1, <1>4 DEF FilesAfter, Deletes
  <2>2. EntriesAfter(req, T \cup {v}, before, link')
    BY <1>1, <1>2, <1>4 DEF EntriesAfter, After, Batch, IInv, TypeInv, Entries
  <2>3. Clean => GeneratedAfter(req, T \cup {v}, before, gen')
    BY <1>1, <1>4 DEF GeneratedAfter
  <2>. QED
    BY <1>1, <1>3, <2>1, <2>2, <2>3 DEF DiskAfter
<1>9. \A u \in Vhost \ {v} : avail'[u] = avail[u] /\ link'[u] = link[u]
  BY <1>1 DEF IInv, TypeInv, Entries
<1>. QED
  BY <1>1, <1>5, <1>6, <1>7, <1>8, <1>9, PushKeeps DEF Batch

LEMMA MaintenanceOnKeeps == ASSUME IInv, MaintenanceOn PROVE IInv'
<1> DEFINE v == V(Head(todo))
           T == Touched(req, Len(undo))
<1>1. /\ pc = "apply" /\ req.act = "maintenance_on" /\ Applied /\ Push("maintenance", v, v)
      /\ gen' = [gen EXCEPT ![v[2]] = avail[v]] /\ link' = [link EXCEPT ![v] = "gen"] /\ UNCHANGED avail
      /\ avail[v] # None
  BY DEF MaintenanceOn, Applying
<1>2. v \in Vhost /\ v = <<req.kind, req.names[Len(undo) + 1]>> /\ v[2] = Head(todo) /\ Head(todo) \in Names
      /\ v = <<req.kind, Head(todo)>>
  BY <1>1, ApplyFacts
<1>3. Touched(req, Len(undo) + 1) = T \cup {v}
  BY <1>1, TouchedNext
<1>4. T \subseteq Vhost /\ FilesAfter(req, T, before, avail) /\ EntriesAfter(req, T, before, link)
      /\ (Clean => GeneratedAfter(req, T, before, gen))
  BY <1>1, ApplyDisk
<1>5. PICK c \in Closure : /\ undo' = Append(undo, c) /\ c.what = "maintenance" /\ c.v = v /\ c.to = v
                           /\ c.avail = avail[v] /\ c.link = link[v] /\ c.gen = gen[v[2]]
  BY <1>1, <1>2, PushedClosure
<1>6. avail' \in Files /\ link' \in Entries /\ gen' \in Generated
  BY <1>1, <1>2 DEF IInv, TypeInv, Entries, Links, Files, Generated
<1>7. ClosureAfter(req, Len(undo), before, c)
  <2>1. c.link = IF v \in T THEN After(req.act) ELSE before[2][v]
    BY <1>1, <1>2, <1>4, <1>5 DEF EntriesAfter, Batch
  <2>. QED
    BY <1>1, <1>2, <1>5, <2>1 DEF ClosureAfter, What, Batch, Single, Deletes
<1>8. DiskAfter(req, Len(undo) + 1, before, avail', link', gen', Clean)
  <2>1. FilesAfter(req, T \cup {v}, before, avail')
    BY <1>1, <1>4 DEF FilesAfter, Deletes
  <2>2. EntriesAfter(req, T \cup {v}, before, link')
    BY <1>1, <1>2, <1>4 DEF EntriesAfter, After, Batch, IInv, TypeInv, Entries
  <2>3. ASSUME Clean PROVE GeneratedAfter(req, T \cup {v}, before, gen')
    <3>1. gen \in [Names -> Contents \cup {None}]
      BY DEF IInv, TypeInv, Generated
    <3>. QED
      BY <1>1, <1>2, <1>4, <2>3, <3>1 DEF GeneratedAfter
  <2>. QED
    BY <1>1, <1>3, <2>1, <2>2, <2>3 DEF DiskAfter
<1>9. /\ \A u \in Vhost \ {v} : avail'[u] = avail[u] /\ link'[u] = link[u]
      /\ \A n \in Names \ {Head(todo)} : gen'[n] = gen[n]
  BY <1>1, <1>2 DEF IInv, TypeInv, Entries, Generated
<1>. QED
  BY <1>1, <1>5, <1>6, <1>7, <1>8, <1>9, PushKeeps DEF Batch

LEMMA DeleteKeeps == ASSUME IInv, Delete PROVE IInv'
<1> DEFINE v == V(Head(todo))
           T == Touched(req, Len(undo))
<1>1. /\ pc = "apply" /\ req.act = "delete" /\ Applied /\ Push("delete", v, v) /\ avail[v] # None
      /\ avail' = [avail EXCEPT ![v] = None] /\ link' = [link EXCEPT ![v] = "none"]
      /\ gen' = [gen EXCEPT ![v[2]] = None]
  BY DEF Delete, Applying
<1>2. v \in Vhost /\ v = <<req.kind, req.names[Len(undo) + 1]>> /\ v[2] = Head(todo) /\ Head(todo) \in Names
      /\ v = <<req.kind, Head(todo)>>
  BY <1>1, ApplyFacts
<1>3. Touched(req, Len(undo) + 1) = T \cup {v}
  BY <1>1, TouchedNext
<1>4. T \subseteq Vhost /\ FilesAfter(req, T, before, avail) /\ EntriesAfter(req, T, before, link)
      /\ GeneratedAfter(req, T, before, gen)
  BY <1>1, ApplyDisk DEF Clean
<1>5. PICK c \in Closure : /\ undo' = Append(undo, c) /\ c.what = "delete" /\ c.v = v /\ c.to = v
                           /\ c.avail = avail[v] /\ c.link = link[v] /\ c.gen = gen[v[2]]
  BY <1>1, <1>2, PushedClosure
<1>6. avail' \in Files /\ link' \in Entries /\ gen' \in Generated
  BY <1>1, <1>2 DEF IInv, TypeInv, Entries, Links, Files, Generated
<1>7. ClosureAfter(req, Len(undo), before, c)
  <2>1. v \notin T
    BY <1>1, <1>4 DEF FilesAfter, Deletes
  <2>2. c.link = before[2][v] /\ c.avail = before[1][v]
    BY <1>1, <1>2, <1>4, <1>5, <2>1 DEF EntriesAfter, FilesAfter
  <2>3. c.gen = before[3][c.v[2]]
    BY <1>2, <1>4, <1>5, <2>1 DEF GeneratedAfter
  <2>. QED
    BY <1>1, <1>2, <1>5, <2>1, <2>2, <2>3 DEF ClosureAfter, What, Batch, Single, Deletes
<1>8. DiskAfter(req, Len(undo) + 1, before, avail', link', gen', Clean)
  <2>1. FilesAfter(req, T \cup {v}, before, avail')
    BY <1>1, <1>2, <1>4 DEF FilesAfter, Deletes, IInv, TypeInv, Files
  <2>2. EntriesAfter(req, T \cup {v}, before, link')
    BY <1>1, <1>2, <1>4 DEF EntriesAfter, After, Batch, IInv, TypeInv, Entries
  <2>3. GeneratedAfter(req, T \cup {v}, before, gen')
    <3>1. gen \in [Names -> Contents \cup {None}]
      BY DEF IInv, TypeInv, Generated
    <3>. QED
      BY <1>1, <1>2, <1>4, <3>1 DEF GeneratedAfter
  <2>. QED
    BY <1>1, <1>3, <2>1, <2>2, <2>3 DEF DiskAfter
<1>9. /\ \A u \in Vhost \ {v} : avail'[u] = avail[u] /\ link'[u] = link[u]
      /\ \A n \in Names \ {Head(todo)} : gen'[n] = gen[n]
  BY <1>1, <1>2 DEF IInv, TypeInv, Files, Entries, Generated
<1>. QED
  BY <1>1, <1>5, <1>6, <1>7, <1>8, <1>9, PushKeeps DEF Batch

(* The editor's write and delete: one name, whose file alone changes.       *)
LEMMA SingleKeeps ==
  ASSUME IInv, pc = "apply", req.act \in Single, Applied, NEW x \in Contents \cup {None},
         req.act = "write" => x # None, req.act = "remove" => x = None,
         Push("file", V(Head(todo)), V(Head(todo))),
         avail' = [avail EXCEPT ![V(Head(todo))] = x], UNCHANGED <<link, gen>>
  PROVE  IInv'
<1> DEFINE v == V(Head(todo))
           T == Touched(req, Len(undo))
<1>1. Len(undo) = 0 /\ T = {}
  <2>1. Len(req.names) = 1
    BY DEF IInv, RequestInv
  <2>2. Len(undo) = 0
    BY <2>1, ApplyFacts
  <2>. QED
    BY <2>2, TouchedNone
<1>2. v \in Vhost /\ v = <<req.kind, req.names[Len(undo) + 1]>>
  BY ApplyFacts
<1>3. Touched(req, Len(undo) + 1) = T \cup {v}
  BY TouchedNext
<1>4. FilesAfter(req, T, before, avail) /\ EntriesAfter(req, T, before, link)
      /\ (Clean => GeneratedAfter(req, T, before, gen))
  BY ApplyDisk DEF Single
<1>5. PICK c \in Closure : /\ undo' = Append(undo, c) /\ c.what = "file" /\ c.v = v /\ c.to = v
                           /\ c.avail = avail[v] /\ c.link = link[v] /\ c.gen = gen[v[2]]
  BY <1>2, PushedClosure
<1>6. avail' \in Files /\ link' \in Entries /\ gen' \in Generated
  BY <1>2 DEF IInv, TypeInv, Files
<1>7. ClosureAfter(req, Len(undo), before, c)
  <2>1. c.link = before[2][v] /\ c.avail = before[1][v]
    BY <1>1, <1>2, <1>4, <1>5 DEF EntriesAfter, FilesAfter
  <2>. QED
    BY <1>1, <1>2, <1>5, <2>1 DEF ClosureAfter, What, Batch, Single, Deletes
<1>8. DiskAfter(req, Len(undo) + 1, before, avail', link', gen', Clean)
  <2>1. FilesAfter(req, T \cup {v}, before, avail')
    BY <1>1, <1>2, <1>4 DEF FilesAfter, Deletes, Single, IInv, TypeInv, Files
  <2>2. EntriesAfter(req, T \cup {v}, before, link')
    BY <1>1, <1>4 DEF EntriesAfter, Batch, Single
  <2>3. Clean => GeneratedAfter(req, T \cup {v}, before, gen')
    BY <1>4 DEF GeneratedAfter, Single
  <2>. QED
    BY <1>3, <2>1, <2>2, <2>3 DEF DiskAfter, Single
<1>9. \A u \in Vhost \ {v} : avail'[u] = avail[u] /\ link'[u] = link[u]
  BY DEF IInv, TypeInv, Files
<1>. QED
  BY <1>5, <1>6, <1>7, <1>8, <1>9, PushKeeps

LEMMA WriteFileKeeps == ASSUME IInv, NEW x \in Contents, WriteFile(x) PROVE IInv'
BY SingleKeeps, VhostsAssumption DEF WriteFile, Applying, Single

LEMMA RemoveFileKeeps == ASSUME IInv, RemoveFile PROVE IInv'
BY SingleKeeps DEF RemoveFile, Applying, Single

(* A rename and a clone have two names, and left nothing before.            *)
LEMMA PairFacts ==
  ASSUME IInv, pc = "apply", req.act \in {"rename", "clone"}
  PROVE  /\ undo = <<>> /\ Len(undo) = 0 /\ Len(req.names) = 2
         /\ todo[1] = req.names[1] /\ todo[2] = req.names[2]
         /\ V(todo[1]) \in Named(req) /\ V(todo[2]) \in Named(req) /\ Named(req) \subseteq Vhost
         /\ avail = before[1] /\ link = before[2] /\ gen = before[3] /\ tagged = before[4]
<1>1. undo = <<>> /\ Len(req.names) = 2
  BY DEF IInv, RequestInv, ProgressInv
<1>2. Len(undo) = 0
  BY <1>1, EmptySeq
<1>3. Len(todo) = 2 /\ todo[1] = req.names[1] /\ todo[2] = req.names[2]
  <2>1. Len(todo) \in Nat
    BY LenProperties DEF IInv, TypeInv
  <2>2. 0 + Len(todo) = 2 /\ \A i \in 1 .. Len(todo) : todo[i] = req.names[0 + i]
    BY <1>1, <1>2 DEF IInv, ProgressInv
  <2>3. Len(todo) = 2
    BY <2>1, <2>2
  <2>4. 1 \in 1 .. Len(todo) /\ 2 \in 1 .. Len(todo) /\ 0 + 1 = 1 /\ 0 + 2 = 2
    BY <2>3
  <2>. QED
    BY <2>2, <2>3, <2>4
<1>4. V(todo[1]) \in Named(req) /\ V(todo[2]) \in Named(req)
  <2>1. Named(req) = {<<req.kind, req.names[i]>> : i \in 1 .. 2}
    BY <1>1 DEF Named, Touched
  <2>. QED
    BY <1>3, <2>1 DEF V
<1>5. Named(req) \subseteq Vhost
  <2>1. req.names \in Seq(Names) /\ req.kind \in Kinds /\ 0 <= Len(req.names)
    BY <1>1, ApplyFacts DEF IInv, TypeInv
  <2>. QED
    BY <2>1, TouchedNamed
<1>6. avail = before[1] /\ link = before[2] /\ gen = before[3]
  BY <1>2, ApplyDisk DEF FilesAfter, EntriesAfter, GeneratedAfter, Clean, Deletes, Batch
<1>. QED
  BY <1>1, <1>2, <1>3, <1>4, <1>5, <1>6, ApplyFacts

LEMMA RenameKeeps == ASSUME IInv, Rename PROVE IInv'
<1> DEFINE v == V(todo[1])
           w == V(todo[2])
<1>1. /\ pc = "apply" /\ req.act = "rename" /\ pc' = "test" /\ todo' = <<>>
      /\ UNCHANGED <<gen, tagged, req, outcome, before>>
      /\ avail[v] # None /\ avail[w] = None /\ link[v] \notin {"gen", "file"}
      /\ link[v] # "none" => link[w] = "none"
      /\ avail' = [avail EXCEPT ![w] = avail[v], ![v] = None]
      /\ link' = (IF link[v] # "none" THEN [link EXCEPT ![w] = "avail", ![v] = "none"] ELSE link)
      /\ Push("rename", v, w)
  BY DEF Rename, Applying
<1>2. /\ undo = <<>> /\ Len(undo) = 0 /\ Len(req.names) = 2 /\ v \in Vhost /\ w \in Vhost
      /\ v \in Named(req) /\ w \in Named(req)
      /\ v = <<req.kind, req.names[1]>> /\ w = <<req.kind, req.names[2]>>
      /\ avail = before[1] /\ link = before[2] /\ gen = before[3] /\ tagged = before[4]
  BY <1>1, PairFacts DEF V
<1>3. PICK c \in Closure : /\ undo' = Append(undo, c) /\ c.what = "rename" /\ c.v = v /\ c.to = w
                           /\ c.avail = avail[v] /\ c.link = link[v] /\ c.gen = gen[v[2]]
  BY <1>1, <1>2, PushedClosure
<1>4. undo' \in Seq(Closure) /\ Len(undo') = 1 /\ undo'[1] = c
  <2>1. undo' \in Seq(Closure) /\ Len(undo') = Len(undo) + 1 /\ undo'[Len(undo) + 1] = c
    BY <1>3, AppendProperties DEF IInv, TypeInv
  <2>. QED
    BY <1>2, <2>1
<1>5. TypeInv'
  <2>1. avail' \in Files /\ link' \in Entries /\ <<>> \in Seq(Names)
    BY <1>1, <1>2, EmptySeq DEF IInv, TypeInv, Files, Entries, Links
  <2>. QED
    BY <1>1, <1>4, <2>1 DEF IInv, TypeInv
<1>6. RequestInv' /\ ProgressInv' /\ TagsInv'
  BY <1>1, <1>2, <1>4 DEF IInv, RequestInv, ProgressInv, TagsInv
<1>7. UndoInv'
  <2>1. ClosureAfter(req, 0, before, c)
    <3>1. c.v \notin Touched(req, 0)
      BY TouchedNone
    <3>. QED
      BY <1>1, <1>2, <1>3, <3>1 DEF ClosureAfter, What, Single, Deletes
  <2>2. Renamed(req, before, avail', link')
    BY <1>1, <1>2 DEF Renamed, IInv, TypeInv, Entries, Links
  <2>3. DiskAfter(req, 1, before, avail', link', gen', Clean)
    BY <1>1, <1>2, <2>2 DEF DiskAfter
  <2>4. \A k \in 0 .. 1 - 1 : ClosureAfter(req, k, before, undo'[k + 1])
    BY <1>4, <2>1
  <2>. QED
    BY <1>1, <1>4, <2>3, <2>4, SameClean DEF UndoInv
<1>8. OthersInv'
  BY <1>1, <1>2 DEF OthersInv, IInv, TypeInv, Files, Entries
<1>9. RollbackExact' /\ RollbackSucceeds'
  BY <1>1 DEF RollbackExact, RollbackSucceeds, Replied
<1>. QED
  BY <1>5, <1>6, <1>7, <1>8, <1>9 DEF IInv

LEMMA CloneKeeps == ASSUME IInv, Clone PROVE IInv'
<1> DEFINE v == V(todo[1])
           w == V(todo[2])
<1>1. /\ pc = "apply" /\ req.act = "clone" /\ pc' = "replied"
      /\ UNCHANGED <<link, gen, req, todo, undo, before>>
      /\ \/ /\ avail[v] # None /\ avail' = [avail EXCEPT ![w] = avail[v]]
            /\ tagged' = (tagged \ {w}) \cup (IF v \in tagged THEN {w} ELSE {}) /\ outcome' = "applied"
         \/ outcome' \in {"store_failed", "error"} /\ UNCHANGED <<avail, tagged>>
  BY DEF Clone, Applying, Reply
<1>2. /\ w \in Vhost /\ w \in Named(req) /\ v \in Vhost
      /\ avail = before[1] /\ link = before[2] /\ gen = before[3] /\ tagged = before[4]
  BY <1>1, PairFacts
<1>3. TypeInv'
  BY <1>1, <1>2 DEF IInv, TypeInv, Files
<1>4. RequestInv' /\ ProgressInv' /\ UndoInv'
  BY <1>1 DEF IInv, RequestInv, ProgressInv, UndoInv
<1>5. TagsInv'
  <2>1. \A u \in before[4] : u \in Vhost /\ before[1][u] # None
    BY <1>1, <1>2 DEF IInv, TagsInv, TypeInv
  <2>2. \A u \in tagged' : avail'[u] # None
    BY <1>1, <1>2, <2>1 DEF IInv, TypeInv, Files
  <2>. QED
    BY <1>1, <2>1, <2>2 DEF TagsInv
<1>6. OthersInv'
  BY <1>1, <1>2 DEF OthersInv, IInv, TypeInv, Files
<1>7. RollbackExact' /\ RollbackSucceeds'
  <2>1. before = <<before[1], before[2], before[3], before[4]>>
    BY <1>1, ApplyFacts, FoundParts
  <2>. QED
    BY <1>1, <1>2, <2>1 DEF RollbackExact, RollbackSucceeds, Replied
<1>. QED
  BY <1>3, <1>4, <1>5, <1>6, <1>7 DEF IInv

(* A clean maintenance_on that refuses wrote nothing: no entry that it has  *)
(* not reached yet is a file of its own.                                    *)
LEMMA CleanNames ==
  ASSUME IInv, pc \in {"apply", "rollback"}, Clean, req.act = "maintenance_on",
         NEW k \in Nat, k + 1 <= Len(req.names)
  PROVE  /\ <<req.kind, req.names[k + 1]>> \notin Touched(req, k)
         /\ before[2][<<req.kind, req.names[k + 1]>>] # "file"
         /\ before[3][req.names[k + 1]] = None
<1>1. DOMAIN req.names = 1 .. Len(req.names) /\ Len(req.names) \in Nat
  BY LenProperties DEF IInv, TypeInv
<1>2. k + 1 \in DOMAIN req.names
  BY <1>1
<1>3. ASSUME NEW i \in 1 .. k PROVE req.names[i] # req.names[k + 1]
  <2>1. i \in DOMAIN req.names /\ i # k + 1
    BY <1>1
  <2>. QED
    BY <1>2, <2>1 DEF Clean, IsInjective
<1>. QED
  BY <1>2, <1>3 DEF Clean, V, Touched

LEMMA RefuseKeeps == ASSUME IInv, Refuse PROVE IInv'
<1> DEFINE v == V(Head(todo))
<1>1. /\ pc = "apply" /\ pc' = "rollback" /\ outcome' = "error" /\ req.act # "clone"
      /\ UNCHANGED <<avail, link, tagged, req, todo, undo, before>>
      /\ gen' = IF req.act = "maintenance_on" /\ avail[v] \notin Serverless \cup {None}
                  THEN [gen EXCEPT ![v[2]] = avail[v]] ELSE gen
      /\ Refuses(v)
  BY DEF Refuse, Applying, Batch
<1>2. v \in Vhost /\ v = <<req.kind, req.names[Len(undo) + 1]>> /\ v = <<req.kind, v[2]>> /\ v[2] \in Names
      /\ Len(undo) \in Nat /\ Len(undo) + 1 <= Len(req.names) /\ Len(req.names) \in Nat
  BY <1>1, ApplyFacts
<1>3. TypeInv'
  <2>1. gen' \in Generated
    BY <1>1, <1>2 DEF IInv, TypeInv, Files, Generated
  <2>. QED
    BY <1>1, <2>1 DEF IInv, TypeInv
<1>4. Len(undo) <= Len(req.names)
  BY <1>2
<1>5. RequestInv' /\ ProgressInv' /\ TagsInv'
  BY <1>1, <1>4 DEF IInv, RequestInv, ProgressInv, TagsInv
<1>6. Clean => gen' = gen
  <2> SUFFICES ASSUME Clean, req.act = "maintenance_on", avail[v] \notin Serverless \cup {None} PROVE FALSE
    BY <1>1
  <2>1. link[v] = "file"
    BY <1>1 DEF Refuses
  <2>2. v \notin Touched(req, Len(undo)) /\ before[2][v] # "file"
    BY <1>1, <1>2, CleanNames
  <2>3. EntriesAfter(req, Touched(req, Len(undo)), before, link)
    BY <1>1, ApplyDisk
  <2>. QED
    BY <1>2, <2>1, <2>2, <2>3 DEF EntriesAfter
<1>7. UndoInv'
  <2>1. Clean' = Clean
    BY <1>1, SameClean
  <2>2. DiskAfter(req, Len(undo), before, avail, link, gen', Clean)
    <3>1. DiskAfter(req, Len(undo), before, avail, link, gen, Clean)
      BY <1>1 DEF IInv, UndoInv
    <3>2. req.act # "maintenance_on" => gen' = gen
      BY <1>1
    <3>. QED
      BY <1>6, <3>1, <3>2 DEF DiskAfter
  <2>. QED
    BY <1>1, <2>1, <2>2 DEF IInv, UndoInv
<1>8. OthersInv'
  <2>1. v \in Named(req)
    BY <1>2 DEF Named, Touched
  <2>2. \A n \in Names : <<req.kind, n>> \notin Named(req) => gen'[n] = gen[n]
    BY <1>1, <1>2, <2>1 DEF IInv, TypeInv, Generated
  <2>. QED
    BY <1>1, <2>2 DEF IInv, OthersInv
<1>9. RollbackExact' /\ RollbackSucceeds'
  BY <1>1 DEF RollbackExact, RollbackSucceeds, Replied
<1>. QED
  BY <1>3, <1>5, <1>7, <1>8, <1>9 DEF IInv

-----------------------------------------------------------------------------
(* Rollback.                                                                *)

(* Where a rollback is: the last closure is the one of the last name that   *)
(* is still applied.                                                        *)
LEMMA RollbackFacts ==
  ASSUME IInv, pc = "rollback", undo # <<>>
  PROVE  \E k \in Nat, c \in Closure :
           /\ Len(undo) = k + 1 /\ k + 1 <= Len(req.names) /\ c = Last(undo)
           /\ Front(undo) \in Seq(Closure) /\ Len(Front(undo)) = k
           /\ \A i \in 0 .. k - 1 : ClosureAfter(req, i, before, Front(undo)[i + 1])
           /\ ClosureAfter(req, k, before, c)
           /\ DiskAfter(req, k + 1, before, avail, link, gen, Clean)
           /\ Touched(req, k + 1) = Touched(req, k) \cup {c.v}
           /\ Touched(req, k + 1) \subseteq Named(req) /\ Named(req) \subseteq Vhost
           /\ c.v = <<req.kind, c.v[2]>> /\ c.v[2] = req.names[k + 1] /\ c.v[2] \in Names
           /\ req.kind \in Kinds
<1> DEFINE k == Len(undo) - 1
           c == Last(undo)
<1>1. undo \in Seq(Closure) /\ req.names \in Seq(Names)
  BY DEF IInv, TypeInv
<1>2. /\ Len(undo) \in Nat \ {0} /\ c = undo[Len(undo)] /\ c \in Closure
      /\ Front(undo) \in Seq(Closure) /\ Len(Front(undo)) = k
      /\ \A i \in 1 .. k : Front(undo)[i] = undo[i]
  BY <1>1, FrontLast
<1>3. k \in Nat /\ Len(undo) = k + 1
  BY <1>2
<1>4. /\ \A i \in 0 .. k : ClosureAfter(req, i, before, undo[i + 1])
      /\ DiskAfter(req, Len(undo), before, avail, link, gen, Clean)
      /\ Len(undo) <= Len(req.names) /\ req.kind \in Kinds
  BY DEF IInv, UndoInv, ProgressInv, RequestInv
<1>5. ClosureAfter(req, k, before, c)
  <2>1. k \in 0 .. k
    BY <1>3
  <2>. QED
    BY <1>2, <1>3, <1>4, <2>1
<1>6. ASSUME NEW i \in 0 .. k - 1 PROVE ClosureAfter(req, i, before, Front(undo)[i + 1])
  <2>1. i \in 0 .. k /\ i + 1 \in 1 .. k
    BY <1>3
  <2>. QED
    BY <1>2, <1>4, <2>1
<1>7. c.v = <<req.kind, req.names[k + 1]>>
  BY <1>5 DEF ClosureAfter
<1>8. c.v \in Kinds \X Names
  BY <1>2 DEF Closure, Vhost
<1>9. Touched(req, k + 1) = Touched(req, k) \cup {c.v}
  BY <1>3, <1>7, TouchedMore
<1>10. Touched(req, k + 1) \subseteq Named(req) /\ Named(req) \subseteq Vhost
  <2>1. k + 1 \in Nat /\ k + 1 <= Len(req.names)
    BY <1>3, <1>4
  <2>. QED
    BY <1>1, <1>4, <2>1, TouchedNamed
<1>11. c.v = <<req.kind, c.v[2]>> /\ c.v[2] = req.names[k + 1] /\ c.v[2] \in Names
  BY <1>7, <1>8
<1>12. k + 1 <= Len(req.names) /\ DiskAfter(req, k + 1, before, avail, link, gen, Clean)
  BY <1>3, <1>4
<1>. QED
  BY <1>2, <1>3, <1>4, <1>5, <1>6, <1>9, <1>10, <1>11, <1>12

(* What a closure touches.                                                  *)
LEMMA RestoresOne ==
  ASSUME IInv, pc = "rollback", NEW c \in Closure, Restores(c)
  PROVE  /\ avail' \in Files /\ link' \in Entries /\ gen' \in Generated
         /\ \A u \in Vhost \ {c.v} : (c.what = "rename" => u # c.to) =>
              avail'[u] = avail[u] /\ link'[u] = link[u]
         /\ \A n \in Names \ {c.v[2]} : gen'[n] = gen[n]
<1>1. avail \in Files /\ link \in Entries /\ gen \in Generated
  BY DEF IInv, TypeInv
<1>2. c.v \in Vhost /\ c.to \in Vhost /\ c.v[2] \in Names /\ c.avail \in Contents \cup {None}
      /\ c.link \in Links /\ c.gen \in Contents \cup {None}
  BY DEF Closure, Vhost
<1>3. /\ avail' \in Files
      /\ \A u \in Vhost \ {c.v} : (c.what = "rename" => u # c.to) => avail'[u] = avail[u]
  <2>1. CASE c.what \in {"delete", "file"}
    BY <1>1, <1>2, <2>1 DEF Restores, Files
  <2>2. CASE c.what = "rename"
    BY <1>1, <1>2, <2>2 DEF Restores, Files
  <2>3. CASE c.what \notin {"delete", "file", "rename"}
    BY <1>1, <1>2, <2>3 DEF Restores, Files
  <2>. QED
    BY <2>1, <2>2, <2>3
<1>4. /\ link' \in Entries
      /\ \A u \in Vhost \ {c.v} : (c.what = "rename" => u # c.to) => link'[u] = link[u]
  <2>1. CASE c.what = "file"
    BY <1>1, <1>2, <2>1 DEF Restores, Entries
  <2>2. CASE c.what = "rename"
    BY <1>1, <1>2, <2>2 DEF Restores, Entries, Links
  <2>3. CASE c.what \notin {"file", "rename"}
    BY <1>1, <1>2, <2>3 DEF Restores, Entries
  <2>. QED
    BY <2>1, <2>2, <2>3
<1>5. /\ gen' \in Generated
      /\ \A n \in Names \ {c.v[2]} : gen'[n] = gen[n]
  <2>1. CASE c.what = "maintenance"
    BY <1>1, <1>2, <2>1 DEF Restores, Generated
  <2>2. CASE c.what # "maintenance"
    BY <1>1, <1>2, <2>2 DEF Restores, Generated
  <2>. QED
    BY <2>1, <2>2
<1>. QED
  BY <1>3, <1>4, <1>5

(* The closure of a rename finds the new name as the rename left it.        *)
LEMMA UndoesRename ==
  ASSUME IInv, pc = "rollback", req.act = "rename", NEW c \in Closure, Restores(c),
         ClosureAfter(req, 0, before, c), DiskAfter(req, 0 + 1, before, avail, link, gen, Clean)
  PROVE  avail' = before[1] /\ link' = before[2] /\ gen' = before[3] /\ ~RestoreFails(c)
<1> DEFINE v == <<req.kind, req.names[1]>>
           w == <<req.kind, req.names[2]>>
<1>1. c.what = "rename" /\ c.v = v /\ c.to = w
  BY DEF ClosureAfter, What, Single
<1>2. c.link = before[2][v]
  BY <1>1, TouchedNone DEF ClosureAfter, Batch
<1>3. before[1] \in Files /\ before[2] \in Entries
  BY FoundParts DEF IInv, RequestInv
<1>4. v \in Vhost /\ w \in Vhost
  BY <1>1 DEF Closure
<1>5. Renamed(req, before, avail, link) /\ gen = before[3]
  BY DEF DiskAfter
<1>6. avail' = before[1]
  <2>1. avail' = [avail EXCEPT ![v] = avail[w], ![w] = None]
    BY <1>1 DEF Restores
  <2>2. before[1][w] = None /\ before[1][v] # None /\ avail = [before[1] EXCEPT ![w] = before[1][v], ![v] = None]
    BY <1>5 DEF Renamed
  <2>. QED
    BY <1>3, <1>4, <2>1, <2>2 DEF Files
<1>7. link' = before[2]
  <2>1. link' = IF before[2][v] = "none" THEN link ELSE [link EXCEPT ![w] = "none", ![v] = "avail"]
    BY <1>1, <1>2 DEF Restores
  <2>2. IF before[2][v] = "none" THEN link = before[2]
        ELSE /\ before[2][v] = "avail" /\ before[2][w] = "none"
             /\ link = [before[2] EXCEPT ![w] = "avail", ![v] = "none"]
    BY <1>5 DEF Renamed
  <2>. QED
    BY <1>3, <1>4, <2>1, <2>2 DEF Entries
<1>8. gen' = before[3]
  BY <1>1, <1>5 DEF Restores
<1>. QED
  BY <1>1, <1>6, <1>7, <1>8 DEF RestoreFails

(* The last closure of any other request takes the disk back to where it    *)
(* was before that operation, and finds what it expects.                    *)
LEMMA UndoesOne ==
  ASSUME IInv, pc = "rollback", req.act # "rename", NEW k \in Nat, k + 1 <= Len(req.names),
         NEW c \in Closure, Restores(c), ClosureAfter(req, k, before, c),
         DiskAfter(req, k + 1, before, avail, link, gen, Clean),
         Touched(req, k + 1) = Touched(req, k) \cup {c.v}, Touched(req, k + 1) \subseteq Vhost,
         c.v = <<req.kind, c.v[2]>>, c.v[2] = req.names[k + 1], c.v[2] \in Names
  PROVE  /\ DiskAfter(req, k, before, avail', link', gen', Clean)
         /\ Clean => ~RestoreFails(c)
<1> DEFINE T == Touched(req, k)
           v == c.v
<1>1. /\ FilesAfter(req, T \cup {v}, before, avail) /\ EntriesAfter(req, T \cup {v}, before, link)
      /\ Clean => GeneratedAfter(req, T \cup {v}, before, gen)
  BY DEF DiskAfter
<1>2. /\ avail \in Files /\ link \in Entries /\ gen \in Generated
      /\ before[1] \in Files /\ before[2] \in Entries /\ before[3] \in Generated
      /\ v \in Vhost /\ T \subseteq Vhost
      /\ req.act \in Batch \cup Single \cup {"clone"}
  BY FoundParts DEF IInv, TypeInv, RequestInv
<1>3. /\ c.what = What(req.act) /\ req.act # "clone"
      /\ req.act \in {"disable", "delete"} => v \notin T
      /\ c.link = (IF v \in T /\ req.act \in Batch THEN After(req.act) ELSE before[2][v])
      /\ req.act \in Deletes \cup {"write"} => c.avail = before[1][v]
      /\ req.act = "delete" => c.gen = before[3][v[2]]
  BY DEF ClosureAfter
<1>4. SUFFICES /\ FilesAfter(req, T, before, avail') /\ EntriesAfter(req, T, before, link')
               /\ Clean => GeneratedAfter(req, T, before, gen') /\ ~RestoreFails(c)
  BY DEF DiskAfter
<1>5. CASE req.act \in {"enable", "maintenance_off", "disable"}
  <2>1. c.what \in {"link", "disable"} /\ (c.what = "disable" => req.act = "disable")
    BY <1>3, <1>5 DEF What, Single
  <2>2. avail' = avail /\ link' = [link EXCEPT ![v] = c.link] /\ gen' = gen
    BY <2>1 DEF Restores
  <2>3. FilesAfter(req, T, before, avail')
    BY <1>1, <1>5, <2>2 DEF FilesAfter, Deletes
  <2>4. EntriesAfter(req, T, before, link')
    BY <1>1, <1>2, <1>3, <1>5, <2>2 DEF EntriesAfter, Entries, Batch
  <2>5. Clean => GeneratedAfter(req, T, before, gen')
    BY <1>1, <1>5, <2>2 DEF GeneratedAfter
  <2>6. ~RestoreFails(c)
    BY <1>1, <1>5, <2>1 DEF RestoreFails, EntriesAfter, After, Batch
  <2>. QED
    BY <2>3, <2>4, <2>5, <2>6
<1>6. CASE req.act = "maintenance_on"
  <2>1. c.what = "maintenance"
    BY <1>3, <1>6 DEF What, Single
  <2>2. avail' = avail /\ link' = [link EXCEPT ![v] = c.link] /\ gen' = [gen EXCEPT ![v[2]] = None]
    BY <2>1 DEF Restores
  <2>3. FilesAfter(req, T, before, avail')
    BY <1>1, <1>6, <2>2 DEF FilesAfter, Deletes
  <2>4. EntriesAfter(req, T, before, link')
    BY <1>1, <1>2, <1>3, <1>6, <2>2 DEF EntriesAfter, Entries, Batch
  <2>5. ASSUME Clean PROVE GeneratedAfter(req, T, before, gen') /\ ~RestoreFails(c)
    <3>1. v \notin T /\ before[3][v[2]] = None
      BY <1>6, <2>5, CleanNames
    <3>2. GeneratedAfter(req, T \cup {v}, before, gen)
      BY <1>1, <2>5
    <3>3. GeneratedAfter(req, T, before, gen')
      BY <1>2, <1>6, <2>2, <3>1, <3>2 DEF GeneratedAfter, Generated
    <3>4. gen[v[2]] # None
      BY <1>6, <3>2 DEF GeneratedAfter
    <3>. QED
      BY <2>1, <3>3, <3>4 DEF RestoreFails
  <2>. QED
    BY <2>3, <2>4, <2>5
<1>7. CASE req.act = "delete"
  <2>1. c.what = "delete" /\ v \notin T /\ c.link = before[2][v] /\ c.avail = before[1][v]
        /\ c.gen = before[3][v[2]]
    BY <1>3, <1>7 DEF What, Single, Deletes
  <2>2. /\ avail' = [avail EXCEPT ![v] = c.avail]
        /\ link' = (IF c.link = "none" THEN link ELSE [link EXCEPT ![v] = c.link])
        /\ gen' = (IF c.gen # None THEN [gen EXCEPT ![v[2]] = c.gen] ELSE gen)
    BY <2>1 DEF Restores
  <2>3. link[v] = "none"
    BY <1>1, <1>7 DEF EntriesAfter, After, Batch
  <2>4. FilesAfter(req, T, before, avail')
    BY <1>1, <1>2, <1>7, <2>1, <2>2 DEF FilesAfter, Deletes, Files
  <2>5. EntriesAfter(req, T, before, link')
    BY <1>1, <1>2, <1>7, <2>1, <2>2, <2>3 DEF EntriesAfter, Entries, Batch
  <2>6. GeneratedAfter(req, T, before, gen')
    <3>1. GeneratedAfter(req, T \cup {v}, before, gen)
      BY <1>1, <1>7 DEF Clean
    <3>. QED
      BY <1>2, <1>7, <2>1, <2>2, <3>1 DEF GeneratedAfter, Generated
  <2>7. ~RestoreFails(c)
    BY <2>1, <2>3 DEF RestoreFails
  <2>. QED
    BY <2>4, <2>5, <2>6, <2>7
<1>8. CASE req.act \in Single
  <2>1. c.what = "file" /\ c.avail = before[1][v]
    BY <1>3, <1>8 DEF What, Single, Deletes
  <2>2. avail' = [avail EXCEPT ![v] = c.avail] /\ link' = link /\ gen' = gen
    BY <2>1 DEF Restores
  <2>3. k = 0 /\ T = {}
    <3>1. Len(req.names) = 1
      BY <1>8 DEF IInv, RequestInv
    <3>2. k = 0
      BY <3>1
    <3>. QED
      BY <3>2, TouchedNone
  <2>4. FilesAfter(req, T, before, avail')
    BY <1>1, <1>2, <1>8, <2>1, <2>2, <2>3 DEF FilesAfter, Single, Files
  <2>5. EntriesAfter(req, T, before, link')
    BY <1>1, <1>8, <2>2, <2>3 DEF EntriesAfter, Single, Batch
  <2>6. Clean => GeneratedAfter(req, T, before, gen')
    BY <1>1, <1>8, <2>2, <2>3 DEF GeneratedAfter, Single
  <2>7. ~RestoreFails(c)
    BY <2>1 DEF RestoreFails
  <2>. QED
    BY <2>4, <2>5, <2>6, <2>7
<1>. QED
  BY <1>2, <1>3, <1>5, <1>6, <1>7, <1>8 DEF Batch

LEMMA RollbackStepKeeps == ASSUME IInv, RollbackStep PROVE IInv'
<1>1. /\ pc = "rollback" /\ undo # <<>> /\ Restores(Last(undo)) /\ undo' = Front(undo)
      /\ outcome' = (IF RestoreFails(Last(undo)) THEN "rollback_failed" ELSE outcome)
      /\ UNCHANGED <<tagged, pc, req, todo, before>>
  BY DEF RollbackStep
<1>2. PICK k \in Nat, c \in Closure :
           /\ Len(undo) = k + 1 /\ k + 1 <= Len(req.names) /\ c = Last(undo)
           /\ Front(undo) \in Seq(Closure) /\ Len(Front(undo)) = k
           /\ \A i \in 0 .. k - 1 : ClosureAfter(req, i, before, Front(undo)[i + 1])
           /\ ClosureAfter(req, k, before, c)
           /\ DiskAfter(req, k + 1, before, avail, link, gen, Clean)
           /\ Touched(req, k + 1) = Touched(req, k) \cup {c.v}
           /\ Touched(req, k + 1) \subseteq Named(req) /\ Named(req) \subseteq Vhost
           /\ c.v = <<req.kind, c.v[2]>> /\ c.v[2] = req.names[k + 1] /\ c.v[2] \in Names
           /\ req.kind \in Kinds
  BY <1>1, RollbackFacts
<1>3. /\ avail' \in Files /\ link' \in Entries /\ gen' \in Generated
      /\ \A u \in Vhost \ {c.v} : (c.what = "rename" => u # c.to) =>
           avail'[u] = avail[u] /\ link'[u] = link[u]
      /\ \A n \in Names \ {c.v[2]} : gen'[n] = gen[n]
  BY <1>1, <1>2, RestoresOne
<1>4. TypeInv'
  BY <1>1, <1>2, <1>3 DEF IInv, TypeInv
<1>5. /\ DiskAfter(req, k, before, avail', link', gen', Clean)
      /\ Clean => ~RestoreFails(c)
  <2>1. CASE req.act = "rename"
    <3>1. k = 0
      BY <1>2, <2>1 DEF ClosureAfter
    <3>2. avail' = before[1] /\ link' = before[2] /\ gen' = before[3] /\ ~RestoreFails(c)
      BY <1>1, <1>2, <2>1, <3>1, UndoesRename
    <3>. QED
      BY <2>1, <3>1, <3>2, TouchedNone DEF DiskAfter, FilesAfter, EntriesAfter, GeneratedAfter, Deletes, Batch
  <2>2. CASE req.act # "rename"
    <3>1. Touched(req, k + 1) \subseteq Vhost
      BY <1>2
    <3>. QED
      BY <1>1, <1>2, <2>2, <3>1, UndoesOne
  <2>. QED
    BY <2>1, <2>2
<1>6. Clean' = Clean
  BY <1>1, SameClean
<1>7. RequestInv' /\ TagsInv'
  BY <1>1 DEF IInv, RequestInv, TagsInv
<1>8. ProgressInv'
  <2>1. k <= Len(req.names)
    <3>1. Len(req.names) \in Nat
      BY LenProperties DEF IInv, TypeInv
    <3>. QED
      BY <1>2, <3>1
  <2>2. outcome' \in {"error", "rejected", "store_failed", "rollback_failed"}
        /\ (outcome' = "rollback_failed" => ~Clean)
    BY <1>1, <1>2, <1>5 DEF IInv, ProgressInv
  <2>. QED
    BY <1>1, <1>2, <1>6, <2>1, <2>2 DEF ProgressInv
<1>9. UndoInv'
  BY <1>1, <1>2, <1>5, <1>6 DEF UndoInv
<1>10. OthersInv'
  <2>1. c.v \in Named(req)
    BY <1>2
  <2>2. c.what = "rename" => c.to \in Named(req)
    <3> SUFFICES ASSUME c.what = "rename" PROVE c.to \in Named(req)
      OBVIOUS
    <3>1. req.act = "rename"
      BY <1>2 DEF ClosureAfter, What
    <3>2. c.to = <<req.kind, req.names[2]>>
      BY <1>2, <3>1 DEF ClosureAfter
    <3>3. Len(req.names) = 2
      BY <1>1, <3>1 DEF IInv, RequestInv
    <3>. QED
      BY <3>2, <3>3 DEF Named, Touched
  <2>3. \A u \in Vhost \ Named(req) : avail'[u] = avail[u] /\ link'[u] = link[u]
    BY <1>3, <2>1, <2>2
  <2>4. \A n \in Names : <<req.kind, n>> \notin Named(req) => gen'[n] = gen[n]
    BY <1>2, <1>3, <2>1
  <2>. QED
    BY <1>1, <2>3, <2>4 DEF IInv, OthersInv
<1>11. RollbackExact' /\ RollbackSucceeds'
  BY <1>1 DEF RollbackExact, RollbackSucceeds, Replied
<1>. QED
  BY <1>4, <1>7, <1>8, <1>9, <1>10, <1>11 DEF IInv

(* When no closure is left, the disk is what the request found.             *)
LEMMA RollbackEndsKeeps == ASSUME IInv, RollbackEnds PROVE IInv'
<1>1. pc = "rollback" /\ pc' = "replied" /\ undo = <<>>
      /\ UNCHANGED <<avail, link, gen, tagged, req, todo, undo, outcome, before>>
  BY DEF RollbackEnds, Goto, disk
<1>2. Len(undo) = 0 /\ Touched(req, 0) = {}
  BY <1>1, EmptySeq, TouchedNone
<1>3. /\ avail \in Files /\ link \in Entries /\ gen \in Generated
      /\ before[1] \in Files /\ before[2] \in Entries /\ before[3] \in Generated
      /\ before = <<before[1], before[2], before[3], before[4]>> /\ tagged = before[4]
  BY <1>1, FoundParts DEF IInv, TypeInv, RequestInv, TagsInv
<1>4. DiskAfter(req, 0, before, avail, link, gen, Clean)
  BY <1>1, <1>2 DEF IInv, UndoInv
<1>5. FilesAfter(req, {}, before, avail) /\ EntriesAfter(req, {}, before, link)
      /\ (Clean => GeneratedAfter(req, {}, before, gen))
  BY <1>2, <1>4 DEF DiskAfter
<1>6. avail = before[1]
  <2>1. \A v \in Vhost : avail[v] = before[1][v]
    BY <1>5 DEF FilesAfter
  <2>. QED
    BY <1>3, <2>1 DEF Files
<1>7. link = before[2]
  <2>1. \A v \in Vhost : link[v] = before[2][v]
    BY <1>5 DEF EntriesAfter
  <2>. QED
    BY <1>3, <2>1 DEF Entries
<1>8. Clean => gen = before[3]
  <2>1. Clean => \A n \in Names : gen[n] = before[3][n]
    BY <1>5 DEF GeneratedAfter
  <2>. QED
    BY <1>3, <2>1 DEF Generated
<1>9. Clean' = Clean
  BY <1>1, SameClean
<1>10. RollbackExact' /\ RollbackSucceeds'
  BY <1>1, <1>3, <1>6, <1>7, <1>8, <1>9 DEF RollbackExact, RollbackSucceeds, Replied, IInv, ProgressInv
<1>11. TagsInv'
  BY <1>1, <1>3, <1>6 DEF IInv, TagsInv
<1>12. TypeInv' /\ RequestInv' /\ ProgressInv' /\ UndoInv' /\ OthersInv'
  BY <1>1 DEF IInv, TypeInv, RequestInv, ProgressInv, UndoInv, OthersInv
<1>. QED
  BY <1>10, <1>11, <1>12 DEF IInv

-----------------------------------------------------------------------------
(* The test, the store and what follows.                                    *)

(* Tags are still those the request found, and of a request that takes no   *)
(* file away they are all on files.                                         *)
LEMMA TagsStand ==
  ASSUME IInv, pc = "test", req.act \notin Deletes \cup {"rename"}
  PROVE  \A v \in tagged : avail[v] # None
<1> DEFINE T == Touched(req, Len(undo))
<1>1. tagged = before[4] /\ tagged \subseteq Vhost /\ \A v \in tagged : before[1][v] # None
  BY DEF IInv, TagsInv, TypeInv
<1>2. FilesAfter(req, T, before, avail)
  BY DEF IInv, UndoInv, DiskAfter
<1>. QED
  BY <1>1, <1>2 DEF FilesAfter

LEMMA TestPassesKeeps == ASSUME IInv, TestPasses PROVE IInv'
<1>1. /\ pc = "test" /\ UNCHANGED <<avail, link, gen, tagged, req, todo, undo, outcome, before>>
      /\ pc' = CASE req.act \in {"delete", "rename", "remove"} -> "meta"
                 [] req.act \in {"disable", "maintenance_off"} -> "cleanup"
                 [] OTHER -> "reload"
  BY DEF TestPasses, Goto, disk
<1>2. /\ pc' \in {"meta", "cleanup", "reload"}
      /\ pc' = "meta" <=> req.act \in Deletes \cup {"rename"}
      /\ pc' = "cleanup" => req.act \in {"disable", "maintenance_off"}
  <2>1. CASE req.act \in {"delete", "rename", "remove"}
    BY <1>1, <2>1 DEF Deletes
  <2>2. CASE req.act \in {"disable", "maintenance_off"}
    BY <1>1, <2>2 DEF Deletes
  <2>3. CASE req.act \notin {"delete", "rename", "remove"} \cup {"disable", "maintenance_off"}
    BY <1>1, <2>3 DEF Deletes
  <2>. QED
    BY <2>1, <2>2, <2>3
<1>3. TypeInv' /\ RequestInv' /\ ProgressInv'
  BY <1>1, <1>2 DEF IInv, TypeInv, RequestInv, ProgressInv
<1>4. UndoInv' /\ OthersInv'
  BY <1>1, <1>2, SameClean DEF IInv, UndoInv, OthersInv
<1>5. TagsInv'
  BY <1>1, <1>2, TagsStand DEF IInv, TagsInv
<1>6. RollbackExact' /\ RollbackSucceeds'
  BY <1>2 DEF RollbackExact, RollbackSucceeds, Replied
<1>. QED
  BY <1>3, <1>4, <1>5, <1>6 DEF IInv

(* A test that fails and a store that fails start the rollback.             *)
LEMMA FailureKeeps ==
  ASSUME IInv, TestFails \/ StoreFails
  PROVE  IInv'
<1>1. /\ pc \in {"test", "meta"} /\ pc' = "rollback" /\ outcome' \in {"rejected", "store_failed"}
      /\ UNCHANGED <<avail, link, gen, tagged, req, todo, undo, before>>
  BY DEF TestFails, StoreFails, Goto, disk
<1>2. Len(undo) <= Len(req.names)
  <2>1. Len(req.names) \in Nat /\ (req.act = "rename" => Len(req.names) = 2)
        /\ Len(undo) = IF req.act = "rename" THEN 1 ELSE Len(req.names)
    BY <1>1, LenProperties DEF IInv, TypeInv, RequestInv, ProgressInv
  <2>. QED
    BY <2>1
<1>3. TypeInv' /\ RequestInv' /\ ProgressInv'
  BY <1>1, <1>2 DEF IInv, TypeInv, RequestInv, ProgressInv
<1>4. UndoInv' /\ OthersInv' /\ TagsInv'
  BY <1>1, SameClean DEF IInv, UndoInv, OthersInv, TagsInv
<1>5. RollbackExact' /\ RollbackSucceeds'
  BY <1>1 DEF RollbackExact, RollbackSucceeds, Replied
<1>. QED
  BY <1>3, <1>4, <1>5 DEF IInv

(* The store moves or drops the tags of the files that are gone.            *)
LEMMA StoreCommitsKeeps == ASSUME IInv, StoreCommits PROVE IInv'
<1> DEFINE named == {V(req.names[i]) : i \in DOMAIN req.names}
           v == V(req.names[1])
           w == V(req.names[2])
           T == Touched(req, Len(undo))
<1>1. /\ pc = "meta" /\ UNCHANGED <<avail, link, gen, req, todo, undo, outcome, before>>
      /\ pc' = (IF req.act = "delete" THEN "cleanup" ELSE "reload")
      /\ \/ req.act \in Deletes /\ tagged' = tagged \ named
         \/ /\ req.act = "rename"
            /\ tagged' = (tagged \ {v, w}) \cup (IF v \in tagged THEN {w} ELSE {})
  BY DEF StoreCommits, Goto, disk, Deletes
<1>2. /\ tagged = before[4] /\ tagged \subseteq Vhost /\ \A u \in tagged : before[1][u] # None
      /\ req.names \in Seq(Names) /\ req.kind \in Kinds /\ before[1] \in Files
  BY <1>1, FoundParts DEF IInv, TagsInv, TypeInv, RequestInv
<1>3. DOMAIN req.names = 1 .. Len(req.names) /\ Len(req.names) \in Nat
  BY <1>2, LenProperties
<1>4. tagged' \subseteq Vhost /\ \A u \in tagged' : avail[u] # None
  <2>1. CASE req.act \in Deletes
    <3>1. Len(undo) = Len(req.names) /\ FilesAfter(req, T, before, avail)
      BY <1>1, <2>1 DEF IInv, ProgressInv, UndoInv, DiskAfter, Deletes
    <3>2. T = named
      BY <1>3, <3>1 DEF Touched, V
    <3>. QED
      BY <1>1, <1>2, <2>1, <3>1, <3>2 DEF FilesAfter, Deletes
  <2>2. CASE req.act = "rename"
    <3>1. Renamed(req, before, avail, link)
      <4>1. Len(undo) = 1
        BY <1>1, <2>2 DEF IInv, ProgressInv
      <4>2. DiskAfter(req, 1, before, avail, link, gen, Clean)
        BY <1>1, <4>1 DEF IInv, UndoInv
      <4>. QED
        BY <2>2, <4>2 DEF DiskAfter
    <3>2. Len(req.names) = 2
      BY <1>1, <2>2 DEF IInv, RequestInv
    <3>3. 1 \in 1 .. Len(req.names) /\ 2 \in 1 .. Len(req.names)
      BY <3>2
    <3>4. v \in Vhost /\ w \in Vhost /\ v = <<req.kind, req.names[1]>> /\ w = <<req.kind, req.names[2]>>
      BY <1>2, <3>3, ElementOfSeq DEF V, Vhost
    <3>5. before[1][v] # None /\ before[1][w] = None
          /\ avail = [before[1] EXCEPT ![w] = before[1][v], ![v] = None]
      BY <3>1, <3>4 DEF Renamed
    <3>6. avail[w] # None /\ \A u \in Vhost \ {v, w} : avail[u] = before[1][u]
      BY <1>2, <3>4, <3>5 DEF Files
    <3>7. tagged' = (tagged \ {v, w}) \cup (IF v \in tagged THEN {w} ELSE {})
      BY <1>1, <2>2 DEF Deletes
    <3>. QED
      BY <1>2, <3>4, <3>6, <3>7
  <2>. QED
    BY <1>1, <2>1, <2>2
<1>5. TypeInv' /\ RequestInv' /\ ProgressInv'
  BY <1>1, <1>4 DEF IInv, TypeInv, RequestInv, ProgressInv
<1>6. UndoInv' /\ OthersInv'
  BY <1>1, SameClean DEF IInv, UndoInv, OthersInv
<1>7. TagsInv'
  BY <1>1, <1>4 DEF IInv, TagsInv
<1>8. RollbackExact' /\ RollbackSucceeds'
  BY <1>1 DEF RollbackExact, RollbackSucceeds, Replied
<1>. QED
  BY <1>5, <1>6, <1>7, <1>8 DEF IInv

LEMMA CleanupKeeps == ASSUME IInv, Cleanup PROVE IInv'
<1>1. /\ pc = "cleanup" /\ pc' = "reload"
      /\ UNCHANGED <<avail, link, tagged, req, todo, undo, outcome, before>>
      /\ gen' = [n \in Names |-> IF n \in Range(req.names) THEN None ELSE gen[n]]
  BY DEF Cleanup, Goto
<1>2. TypeInv'
  BY <1>1 DEF IInv, TypeInv, Generated
<1>3. OthersInv'
  <2>1. req.names \in Seq(Names)
    BY DEF IInv, TypeInv
  <2>2. Range(req.names) = {req.names[i] : i \in 1 .. Len(req.names)}
    BY <2>1, RangeEquality
  <2>3. \A n \in Names : <<req.kind, n>> \notin Named(req) => n \notin Range(req.names)
    BY <2>2 DEF Named, Touched
  <2>. QED
    BY <1>1, <2>3 DEF IInv, OthersInv
<1>4. RequestInv' /\ ProgressInv' /\ UndoInv' /\ TagsInv' /\ RollbackExact' /\ RollbackSucceeds'
  BY <1>1 DEF IInv, RequestInv, ProgressInv, UndoInv, TagsInv, RollbackExact, RollbackSucceeds, Replied
<1>. QED
  BY <1>2, <1>3, <1>4 DEF IInv

LEMMA ReloadKeeps == ASSUME IInv, Reload PROVE IInv'
BY DEF Reload, Reply, disk, IInv, TypeInv, RequestInv, ProgressInv, UndoInv, TagsInv, OthersInv,
       RollbackExact, RollbackSucceeds, Replied

-----------------------------------------------------------------------------
(* Requests.                                                                *)
LEMMA NoneType == NoRequest \in Request /\ <<>> \in Seq(Names) /\ <<>> \in Seq(Closure) /\ NoRequest.names \in Seq(Names)
<1>1. <<>> \in Seq(Names) /\ <<>> \in Seq(Closure)
  BY EmptySeq
<1>2. NoRequest.names \in UNION {[1 .. i -> Names] : i \in 0 .. MaxBatch \cup {2}}
  <2>1. 0 \in 0 .. MaxBatch \cup {2}
    BY VhostsAssumption
  <2>2. <<>> \in [1 .. 0 -> Names]
    BY <1>1, LenProperties, EmptySeq
  <2>. QED
    BY <2>1, <2>2 DEF NoRequest
<1>. QED
  BY <1>1, <1>2 DEF NoRequest, Request

LEMMA BeginKeeps ==
  ASSUME IInv, NEW act \in Batch \cup Single \cup {"rename", "clone"}, NEW kind \in Kinds,
         NEW n \in (1 .. MaxBatch) \cup {2}, NEW names \in [1 .. n -> Names],
         act \in Single => n = 1, act \in {"rename", "clone"} => n = 2,
         Begin(act, kind, names)
  PROVE  IInv'
<1>1. /\ pc = "idle" /\ pc' = "apply" /\ req' = [act |-> act, kind |-> kind, names |-> names]
      /\ todo' = names /\ before' = <<avail, link, gen, tagged>>
      /\ UNCHANGED <<avail, link, gen, tagged, undo, outcome>>
  BY DEF Begin, Goto, disk
<1>2. n \in Nat \ {0} /\ n \in 0 .. MaxBatch \cup {2}
  BY VhostsAssumption
<1>3. names \in Seq(Names) /\ Len(names) = n
  <2>1. names \in Seq(Names)
    BY <1>2, SeqDef
  <2>2. DOMAIN names = 1 .. Len(names) /\ Len(names) \in Nat
    BY <2>1, LenProperties
  <2>3. 1 .. Len(names) = 1 .. n
    BY <2>2
  <2>. QED
    BY <1>2, <2>1, <2>2, <2>3
<1>4. undo = <<>> /\ Len(undo) = 0 /\ names # <<>>
  BY <1>1, <1>2, <1>3, EmptySeq DEF IInv, RequestInv
<1>5. TypeInv'
  <2>1. req' \in Request
    BY <1>1, <1>2 DEF Request
  <2>. QED
    BY <1>1, <1>3, <2>1 DEF IInv, TypeInv
<1>6. RequestInv'
  <2>1. before' \in Found
    BY <1>1 DEF IInv, TypeInv, Found
  <2>. QED
    BY <1>1, <1>2, <1>3, <2>1 DEF RequestInv
<1>7. ProgressInv'
  BY <1>1, <1>2, <1>3, <1>4 DEF ProgressInv
<1>8. before'[1] = avail /\ before'[2] = link /\ before'[3] = gen /\ before'[4] = tagged
  BY <1>1
<1>9. UndoInv'
  <2>1. FilesAfter(req', {}, before', avail') /\ EntriesAfter(req', {}, before', link')
        /\ GeneratedAfter(req', {}, before', gen')
    BY <1>1, <1>8 DEF FilesAfter, EntriesAfter, GeneratedAfter
  <2>2. DiskAfter(req', 0, before', avail', link', gen', Clean')
    <3>1. Touched(req', 0) = {}
      BY DEF Touched
    <3>2. ~(0 > 0)
      OBVIOUS
    <3>. QED
      BY <2>1, <3>1, <3>2 DEF DiskAfter
  <2>. QED
    BY <1>1, <1>4, <2>2 DEF UndoInv
<1>10. TagsInv' /\ OthersInv'
  BY <1>1, <1>8 DEF IInv, TagsInv, OthersInv
<1>11. RollbackExact' /\ RollbackSucceeds'
  BY <1>1 DEF RollbackExact, RollbackSucceeds, Replied
<1>. QED
  BY <1>5, <1>6, <1>7, <1>9, <1>10, <1>11 DEF IInv

LEMMA DoneKeeps == ASSUME IInv, Done PROVE IInv'
<1>1. /\ pc = "replied" /\ pc' = "idle" /\ req' = NoRequest /\ todo' = <<>> /\ undo' = <<>>
      /\ outcome' = "none" /\ UNCHANGED <<avail, link, gen, tagged>>
  BY DEF Done, Goto, disk
<1>. QED
  BY <1>1, NoneType DEF IInv, TypeInv, RequestInv, ProgressInv, UndoInv, TagsInv, OthersInv,
     RollbackExact, RollbackSucceeds, Replied

LEMMA TagKeeps == ASSUME IInv, NEW v \in Vhost, Tag(v) PROVE IInv'
<1>1. pc = "idle" /\ avail[v] # None /\ tagged' = tagged \cup {v}
      /\ UNCHANGED <<avail, link, gen, pc, req, todo, undo, outcome, before>>
  BY DEF Tag, disk
<1>. QED
  BY <1>1 DEF IInv, TypeInv, RequestInv, ProgressInv, UndoInv, TagsInv, OthersInv,
     RollbackExact, RollbackSucceeds, Replied

-----------------------------------------------------------------------------
LEMMA InitInv == Init => IInv
<1> SUFFICES ASSUME Init PROVE IInv
  OBVIOUS
<1>1. TypeInv
  BY NoneType DEF Init, TypeInv, Files, Entries, Generated, Links
<1>. QED
  BY <1>1 DEF Init, IInv, RequestInv, ProgressInv, UndoInv, TagsInv, OthersInv,
     RollbackExact, RollbackSucceeds, Replied

(* Every step of a request keeps the invariant, and so does tagging.        *)
LEMMA StepInv == IInv /\ [Next]_vars => IInv'
<1> SUFFICES ASSUME IInv, [Next]_vars PROVE IInv'
  OBVIOUS
<1>1. ASSUME NEW act \in Batch, NEW kind \in Kinds,
             NEW names \in UNION {[1 .. i -> Names] : i \in 1 .. MaxBatch}, BeginBatch(act, kind, names)
      PROVE  IInv'
  <2>1. PICK n \in 1 .. MaxBatch : names \in [1 .. n -> Names]
    BY <1>1
  <2>. QED
    BY <1>1, <2>1, BeginKeeps DEF BeginBatch, Batch, Single
<1>2. ASSUME NEW act \in Single, NEW kind \in Kinds, NEW m \in Names, Begin(act, kind, <<m>>) PROVE IInv'
  <2>1. <<m>> \in [1 .. 1 -> Names] /\ 1 \in 1 .. MaxBatch
    BY VhostsAssumption
  <2>. QED
    BY <1>2, <2>1, BeginKeeps DEF Single
<1>3. ASSUME NEW act \in {"rename", "clone"}, NEW kind \in Kinds, NEW m \in Names, NEW n \in Names,
             Begin(act, kind, <<m, n>>)
      PROVE  IInv'
  <2>1. <<m, n>> \in [1 .. 2 -> Names]
    OBVIOUS
  <2>. QED
    BY <1>3, <2>1, BeginKeeps DEF Single
<1>4. CASE UNCHANGED vars
  <2>1. UNCHANGED <<avail, link, gen, tagged, pc, req, todo, undo, outcome, before>> /\ Clean' = Clean
    BY <1>4, SameClean DEF vars
  <2>2. TypeInv' /\ RequestInv' /\ ProgressInv' /\ UndoInv' /\ TagsInv' /\ OthersInv'
    BY <2>1 DEF IInv, TypeInv, RequestInv, ProgressInv, UndoInv, TagsInv, OthersInv
  <2>3. RollbackExact' /\ RollbackSucceeds'
    BY <2>1 DEF IInv, RollbackExact, RollbackSucceeds, Replied
  <2>. QED
    BY <2>2, <2>3 DEF IInv
<1>. QED
  BY <1>1, <1>2, <1>3, <1>4, TagKeeps, EnableKeeps, DisableKeeps, MaintenanceOnKeeps, DeleteKeeps,
     RenameKeeps, RemoveFileKeeps, WriteFileKeeps, RefuseKeeps, CloneKeeps, TestPassesKeeps, FailureKeeps,
     RollbackStepKeeps, RollbackEndsKeeps, StoreCommitsKeeps, CleanupKeeps, ReloadKeeps, DoneKeeps
  DEF Next

LEMMA AlwaysInv == Spec => []IInv
BY InitInv, StepInv, PTL DEF Spec

-----------------------------------------------------------------------------
(* Files, entries, generated vhosts, tags and the request under way are well*)
(* typed, and a tag belongs to a name, however far a batch or its rollback  *)
(* has come.                                                                *)
THEOREM TypeCorrect == Spec => []TypeOK
<1>1. IInv => TypeOK
  <2> SUFFICES ASSUME TypeInv PROVE TypeOK
    BY DEF IInv
  <2>1. (\A i \in DOMAIN todo : todo[i] \in Names) /\ (\A i \in DOMAIN undo : undo[i] \in Closure)
    BY LenProperties, ElementOfSeq DEF TypeInv
  <2>. QED
    BY <2>1 DEF TypeInv, TypeOK, Files, Entries, Generated
<1>. QED
  BY <1>1, AlwaysInv, PTL

(* A request that failed left files, entries, generated vhosts and tags as  *)
(* it found them, whatever its batch had applied and however it failed.     *)
THEOREM RollbackIsExact == Spec => []RollbackExact
<1>1. IInv => RollbackExact
  BY DEF IInv
<1>. QED
  BY <1>1, AlwaysInv, PTL

(* No closure of a rollback fails.                                          *)
THEOREM RollbackNeverFails == Spec => []RollbackSucceeds
<1>1. IInv => RollbackSucceeds
  BY DEF IInv
<1>. QED
  BY <1>1, AlwaysInv, PTL

(* Between requests every tag is on a file that exists.                     *)
THEOREM TagsStayOnFiles == Spec => []TagsHaveFiles
<1>1. IInv => TagsHaveFiles
  BY DEF IInv, TagsInv, TagsHaveFiles
<1>. QED
  BY <1>1, AlwaysInv, PTL

-----------------------------------------------------------------------------
(* The managers of sites and of streams share the directory of generated    *)
(* vhosts, where a stream's request removes a site's: the next two hold of  *)
(* one manager.                                                             *)
OneManager == \A k, l \in Kinds : k = l

(* A request touched the vhosts it names and no other, however it ended.    *)
THEOREM OthersStayUntouched == ASSUME OneManager PROVE Spec => []OthersUntouched
<1>1. IInv => OthersUntouched
  <2> SUFFICES ASSUME IInv, pc = "replied", NEW v \in Vhost,
                      v \notin {V(req.names[i]) : i \in DOMAIN req.names}
               PROVE  /\ avail[v] = before[1][v] /\ link[v] = before[2][v]
                      /\ gen[v[2]] = before[3][v[2]]
    BY DEF OthersUntouched
  <2>1. DOMAIN req.names = 1 .. Len(req.names)
    BY LenProperties DEF IInv, TypeInv
  <2>2. v \notin Named(req)
    BY <2>1 DEF Named, Touched, V
  <2>3. v = <<req.kind, v[2]>> /\ v[2] \in Names
    BY OneManager DEF IInv, RequestInv, Vhost, OneManager
  <2>. QED
    BY <2>2, <2>3 DEF IInv, OthersInv
<1>. QED
  BY <1>1, AlwaysInv, PTL

(* Cleanup removes no generated vhost that an entry points at: the entries  *)
(* of the names were taken off theirs by the request itself.                *)
LEMMA CleanupStaysValid == ASSUME OneManager, IInv, Valid, Cleanup PROVE Valid'
<1>1. pc = "cleanup" /\ link' = link /\ avail' = avail
      /\ gen' = [n \in Names |-> IF n \in Range(req.names) THEN None ELSE gen[n]]
  BY DEF Cleanup, Goto
<1>2. /\ req.act \in {"delete", "disable", "maintenance_off"} /\ Len(undo) = Len(req.names)
      /\ DiskAfter(req, Len(undo), before, avail, link, gen, Clean)
  BY <1>1 DEF IInv, ProgressInv, UndoInv
<1>3. \A v \in Named(req) : link[v] # "gen"
  BY <1>2 DEF DiskAfter, EntriesAfter, After, Batch, Named
<1>4. \A v \in Vhost : v[2] \in Range(req.names) => v \in Named(req)
  <2>1. Range(req.names) = {req.names[i] : i \in 1 .. Len(req.names)}
    BY RangeEquality DEF IInv, TypeInv
  <2>2. \A v \in Vhost : v = <<req.kind, v[2]>>
    BY <1>1, OneManager DEF IInv, RequestInv, Vhost, OneManager
  <2>. QED
    BY <2>1, <2>2 DEF Named, Touched
<1>. QED
  <2> SUFFICES ASSUME NEW v \in Vhost PROVE Accepted(v)'
    BY DEF Valid
  <2>1. Accepted(v) /\ v[2] \in Names
    BY DEF Valid, Vhost
  <2>2. link[v] = "gen" => gen'[v[2]] = gen[v[2]]
    BY <1>1, <1>3, <1>4, <2>1
  <2>. QED
    BY <1>1, <2>1, <2>2 DEF Accepted

LEMMA ValidStep == ASSUME OneManager, IInv, ValidInv, [Next]_vars PROVE ValidInv'
<1>1. CASE TestPasses \/ StoreCommits \/ Reload
  <2>1. Valid /\ UNCHANGED disk
    BY <1>1 DEF TestPasses, StoreCommits, Reload, Goto, ValidInv
  <2>2. Valid'
    BY <2>1 DEF disk, Valid, Accepted
  <2>. QED
    BY <2>2 DEF ValidInv
<1>2. CASE Cleanup
  <2>1. Valid
    BY <1>2 DEF Cleanup, Goto, ValidInv
  <2>. QED
    BY <1>2, <2>1, CleanupStaysValid DEF ValidInv
<1>3. CASE UNCHANGED vars
  BY <1>3 DEF vars, disk, ValidInv, Valid, Accepted, Replied
<1>4. CASE RollbackEnds
  BY <1>4 DEF RollbackEnds, Goto, disk, ValidInv, Replied, IInv, ProgressInv
<1>5. CASE Clone
  BY <1>5 DEF Clone, Applying, Reply, ValidInv, Replied
<1>6. ASSUME pc' \in {"idle", "apply", "test", "rollback"} PROVE ValidInv'
  BY <1>6 DEF ValidInv, Replied
<1>7. CASE TestFails \/ StoreFails \/ RollbackStep \/ Done \/ Refuse \/ Rename
  BY <1>6, <1>7 DEF TestFails, StoreFails, RollbackStep, Done, Refuse, Rename, Goto
<1>8. CASE Enable \/ Disable \/ MaintenanceOn \/ Delete \/ RemoveFile \/ \E x \in Contents : WriteFile(x)
  BY <1>6, <1>8 DEF Enable, Disable, MaintenanceOn, Delete, RemoveFile, WriteFile, Applied
<1>9. ASSUME NEW act, NEW kind, NEW names, Begin(act, kind, names) PROVE ValidInv'
  BY <1>6, <1>9 DEF Begin, Goto
<1>10. ASSUME NEW v \in Vhost, Tag(v) PROVE ValidInv'
  BY <1>6, <1>10 DEF Tag
<1>. QED
  BY <1>1, <1>2, <1>3, <1>4, <1>5, <1>7, <1>8, <1>9, <1>10 DEF Next, BeginBatch

(* What passed the test is what stays behind: nothing that follows a test   *)
(* leaves an entry nginx would reject.                                      *)
THEOREM AppliedStaysValid == ASSUME OneManager PROVE Spec => []AppliedIsValid
<1>1. Init => ValidInv
  BY DEF Init, ValidInv, Replied
<1>2. IInv /\ ValidInv /\ [Next]_vars => ValidInv'
  BY OneManager, ValidStep
<1>3. ValidInv => AppliedIsValid
  BY DEF ValidInv, AppliedIsValid
<1>. QED
  BY <1>1, <1>2, <1>3, AlwaysInv, PTL DEF Spec
=============================================================================
