------------------------------ MODULE ConfTree ------------------------------
(***************************************************************************)
(* The configuration directory as internal/confdir sees it: a tree of      *)
(* files, directories and symbolic links, and what Read, Write, Mkdir,     *)
(* Rename and Delete and their restore closures make of it. Operators only;*)
(* a tree is a function, an operation yields the tree it leaves and whether*)
(* it worked.                                                              *)
(*                                                                         *)
(* A path is the sequence of its names below the root, cleaned; the root   *)
(* is <<>>. Links lead to the root or below: a path through one that       *)
(* leaves it is refused by resolve before anything is touched. Disk errors *)
(* are left out.                                                           *)
(***************************************************************************)
EXTENDS Naturals, Sequences, SequencesExt

CONSTANTS
  Names,      \* names of directory entries
  Contents,   \* contents of regular files
  MaxDepth,   \* bound on the length of a path
  MaxLinks    \* symlinks followed before "too many links"

ASSUME ConfTreeAssumption == MaxDepth \in Nat \ {0} /\ MaxLinks \in Nat

Path == UNION {[1 .. n -> Names] : n \in 1 .. MaxDepth}

None    == [is |-> "none"]
Dir     == [is |-> "dir"]
File(c) == [is |-> "file", content |-> c]
Link(p) == [is |-> "link", to |-> p]
Entry   == {None, Dir} \cup {File(c) : c \in Contents} \cup {Link(p) : p \in Path \cup {<<>>}}

(* Every entry but those of the root is in a directory.                    *)
Rooted(t) == \A p \in Path : Len(p) > 1 /\ t[p] # None => t[Front(p)] = Dir
Tree      == {t \in [Path -> Entry] : Rooted(t)}

-----------------------------------------------------------------------------
(* Looking a path up.                                                      *)

(* A walk: the directory it is at, the names left and the links it may     *)
(* still follow.                                                           *)
Walks == [at : Seq(Names), rest : Seq(Names), links : 0 .. MaxLinks]

(* filepath.EvalSymlinks: the entry a path leads to through every link on  *)
(* the way; "missing" is fs.ErrNotExist, "fault" any other error (a file   *)
(* in the place of a directory, too many links).                           *)
EvalSymlinks(t, path) ==
  LET walk[w \in Walks] ==
        IF w.rest = <<>> THEN [got |-> "found", at |-> w.at]
        ELSE LET q     == Append(w.at, Head(w.rest))
                 entry == IF q \in Path THEN t[q] ELSE None
             IN CASE entry.is = "none" -> [got |-> "missing", at |-> q]
                  [] \/ entry.is = "link" /\ w.links = 0
                     \/ entry.is = "file" /\ Tail(w.rest) # <<>> -> [got |-> "fault", at |-> q]
                  [] entry.is = "link" /\ w.links > 0 ->
                       walk[[at |-> <<>>, rest |-> entry.to \o Tail(w.rest), links |-> w.links - 1]]
                  [] OTHER -> walk[[at |-> q, rest |-> Tail(w.rest), links |-> w.links]]
  IN walk[[at |-> <<>>, rest |-> path, links |-> MaxLinks]]

Finds(t, p)  == EvalSymlinks(t, p).got = "found"
Target(t, p) == EvalSymlinks(t, p).at
IsDir(t, p)  == Finds(t, p) /\ (Target(t, p) = <<>> \/ t[Target(t, p)] = Dir)
IsFile(t, p) == Finds(t, p) /\ Target(t, p) # <<>> /\ t[Target(t, p)].is = "file"

(* resolve accepts a path when its deepest ancestor that exists, links     *)
(* followed, can be found.                                                 *)
Resolves(t, p) ==
  \E n \in 0 .. Len(p) :
    /\ Finds(t, SubSeq(p, 1, n))
    /\ \A m \in n + 1 .. Len(p) : EvalSymlinks(t, SubSeq(p, 1, m)).got = "missing"

(* Where the entry named by a path is, its last name not followed: the     *)
(* place os.Lstat, os.Rename and os.Remove act on.                         *)
HasPlace(t, p) == IsDir(t, Front(p)) /\ Append(Target(t, Front(p)), Last(p)) \in Path
Place(t, p)    == Append(Target(t, Front(p)), Last(p))
Lstat(t, p)    == IF HasPlace(t, p) THEN t[Place(t, p)] ELSE None

Content(t, p) == t[Target(t, p)].content

-----------------------------------------------------------------------------
(* Changing the tree. An operation yields the tree it leaves, and whether  *)
(* it worked: directories made before a failure stay.                      *)

Leaves(ok, t) == [ok |-> ok, tree |-> t]

Under(p, q) == IsPrefix(p, q)

Put(t, place, entry) == [t EXCEPT ![place] = entry]

\* Fault: only the entry itself goes.
RemovedAlone(t, place) == [t EXCEPT ![place] = None]

Removed(t, place) == [q \in Path |-> IF Under(place, q) THEN None ELSE t[q]]

(* What was at from, and everything below it, is at to.                    *)
Moved(t, from, to) ==
  [q \in Path |->
     LET old == from \o SubSeq(q, Len(to) + 1, Len(q)) IN
       CASE Under(to, q) -> IF old \in Path THEN t[old] ELSE None
         [] Under(from, q) /\ ~Under(to, q) -> None
         [] OTHER -> t[q]]

(* The way to a path leads through what is at a place, or below it: it is  *)
(* another once that is gone.                                              *)
Through(t, p, place) == EvalSymlinks(Removed(t, place), Front(p)) # EvalSymlinks(t, Front(p))

(* os.MkdirAll: every missing directory on the way.                        *)
MkdirAll(t, p) ==
  LET made[n \in Nat] ==
        IF n = 0 THEN Leaves(TRUE, t)
        ELSE LET done == made[n - 1]
                 dir  == SubSeq(p, 1, n)
             IN CASE ~done.ok \/ IsDir(done.tree, dir) -> done
                  [] done.ok /\ ~Finds(done.tree, dir) /\ HasPlace(done.tree, dir)
                       /\ Lstat(done.tree, dir) = None ->
                       Leaves(TRUE, Put(done.tree, Place(done.tree, dir), Dir))
                  [] OTHER -> Leaves(FALSE, done.tree)
  IN made[Len(p)]

Mkdir(t, p) ==
  CASE ~Resolves(t, p) -> Leaves(FALSE, t)
    [] Resolves(t, p) /\ Finds(t, p) -> Leaves(IsDir(t, p), t)
    [] OTHER -> MkdirAll(t, p)

(* Write goes to the file a link leads to; a link that leads nowhere is    *)
(* replaced. Its restore closure acts on the file it wrote.                *)
WrittenPath(t, p) == IF Lstat(t, p).is = "link" /\ Finds(t, p) THEN Target(t, p) ELSE p

Write(t, p, c) ==
  LET abs  == WrittenPath(t, p)
      made == MkdirAll(t, Front(abs))
  IN CASE ~Resolves(t, p) \/ IsDir(t, abs) -> Leaves(FALSE, t)
       [] OTHER -> IF made.ok /\ HasPlace(made.tree, abs)
                   THEN Leaves(TRUE, Put(made.tree, Place(made.tree, abs), File(c)))
                   ELSE Leaves(FALSE, made.tree)

\* old is what abs held, None when it could not be read.
WriteRestore(t, abs, old) ==
  CASE ~HasPlace(t, abs) -> Leaves(FALSE, t)
    [] OTHER -> Leaves(TRUE, Put(t, Place(t, abs), old))

\* The bound on depth: a move that would exceed it is refused.
Fits(t, from, to) ==
  \A q \in Path : Under(from, q) /\ t[q] # None => Len(to) + Len(q) - Len(from) <= MaxDepth

(* os.Rename of what is at a place: never onto a directory, nor a directory*)
(* onto anything or below itself.                                          *)
MovedTo(t, from, to) ==
  IF /\ t[to] = None \/ (t[from] # Dir /\ t[to] # Dir)
     /\ t[from] = Dir => ~Under(from, to)
     /\ Fits(t, from, to)
  THEN Leaves(TRUE, Moved(t, from, to))
  ELSE Leaves(FALSE, t)

Rename(t, from, to) ==
  LET made == MkdirAll(t, Front(to)) IN
    CASE \/ ~Resolves(t, from) \/ ~Resolves(t, to)
         \/ Lstat(t, from) = None \/ Lstat(t, to) # None -> Leaves(FALSE, t)
      [] OTHER ->
           IF made.ok /\ HasPlace(made.tree, to)
           THEN MovedTo(made.tree, Place(t, from), Place(made.tree, to))
           ELSE Leaves(FALSE, made.tree)

\* Fault: the closure follows a link at the new path.
RenameRestoreFollows(t, from, to) ==
  IF HasPlace(t, from) /\ Finds(t, to)
  THEN Leaves(TRUE, Moved(t, Target(t, to), Place(t, from)))
  ELSE Leaves(FALSE, t)

(* The closure is os.Rename(to, from), its paths looked up again.          *)
RenameRestore(t, from, to) ==
  IF HasPlace(t, from) /\ Lstat(t, to) # None
  THEN MovedTo(t, Place(t, to), Place(t, from))
  ELSE Leaves(FALSE, t)

(* A link is removed itself, a directory with everything below it.         *)
Delete(t, p) ==
  IF Resolves(t, p) /\ Lstat(t, p) # None
  THEN Leaves(TRUE, Removed(t, Place(t, p)))
  ELSE Leaves(FALSE, t)

\* Fault: the snapshot holds the directory, not what is below it.
DeleteRestoreEntry(t, p, snap) ==
  IF HasPlace(t, p)
  THEN Leaves(TRUE, Put(t, Place(t, p), snap[Place(t, p)]))
  ELSE Leaves(FALSE, t)

(* The entry, or the snapshot of the directory, is written back.           *)
DeleteRestore(t, p, snap) ==
  IF HasPlace(t, p)
  THEN Leaves(TRUE, [q \in Path |->
         IF Under(Place(t, p), q) THEN snap[q] ELSE t[q]])
  ELSE Leaves(FALSE, t)
=============================================================================
