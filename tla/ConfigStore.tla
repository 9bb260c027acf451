----------------------------- MODULE ConfigStore -----------------------------
(***************************************************************************)
(* What the guarded config promises its clients: a store of files with     *)
(* manual tags whose changes come one at a time. A change is staged, where *)
(* readers see it (reading takes no lock), and then commits, files and     *)
(* tags together, or leaves no trace. A write that names the content it is *)
(* based on is staged only over that content.                              *)
(***************************************************************************)
EXTENDS Naturals, Sequences, SequencesExt

CONSTANTS
  Path,       \* paths of files and directories: sequences of names
  Contents,   \* contents of files
  Absent,     \* no file; no base content
  NoChange    \* nothing staged

VARIABLES
  files,      \* committed files
  disk,       \* what a reader finds
  tagged,     \* files with manual tags
  change      \* the staged change

vars == <<files, disk, tagged, change>>

Files  == [Path -> Contents \cup {Absent}]
Change == [act : {"put", "remove", "move"}, path : Path, to : Path \cup {<<>>},
           content : Contents \cup {Absent}, base : Contents \cup {Absent}]

\* The path p has after everything at from was moved to to.
Rebase(p, from, to) == to \o SubSeq(p, Len(from) + 1, Len(p))

After(c, f) ==
  CASE c.act = "put" -> [f EXCEPT ![c.path] = c.content]
    [] c.act = "remove" -> [p \in Path |-> IF IsPrefix(c.path, p) THEN Absent ELSE f[p]]
    [] c.act = "move" ->
         [p \in Path |->
            LET old == Rebase(p, c.to, c.path) IN
              CASE IsPrefix(c.to, p) -> IF old \in Path THEN f[old] ELSE Absent
                [] IsPrefix(c.path, p) /\ ~IsPrefix(c.to, p) -> Absent
                [] OTHER -> f[p]]

TaggedAfter(c, t) ==
  CASE c.act = "put" -> t
    [] c.act = "remove" -> {p \in t : ~IsPrefix(c.path, p)}
    [] c.act = "move" ->
         {p \in t : ~IsPrefix(c.path, p)} \cup
         {Rebase(p, c.path, c.to) : p \in {q \in t : IsPrefix(c.path, q)}}

Init ==
  /\ files \in Files /\ disk = files
  /\ tagged \in SUBSET {p \in Path : files[p] # Absent}
  /\ change = NoChange

Stage(c) ==
  /\ change = NoChange
  /\ change' = c
  /\ c.act = "put" => c.base \in {Absent, files[c.path]}
  /\ c.act = "move" => \A p \in Path : IsPrefix(c.to, p) => files[p] = Absent
  /\ disk' = After(c, files)
  /\ UNCHANGED <<files, tagged>>

Commit ==
  /\ change # NoChange
  /\ files' = disk
  /\ tagged' = TaggedAfter(change, tagged)
  /\ change' = NoChange
  /\ UNCHANGED disk

Abort ==
  /\ change # NoChange
  /\ disk' = files
  /\ change' = NoChange
  /\ UNCHANGED <<files, tagged>>

SetTags(p, on) ==
  /\ change = NoChange
  /\ files[p] # Absent
  /\ tagged' = IF on THEN tagged \cup {p} ELSE tagged \ {p}
  /\ UNCHANGED <<files, disk, change>>

Next ==
  \/ change' \in Change /\ Stage(change')
  \/ Commit \/ Abort
  \/ \E p \in Path, on \in BOOLEAN : SetTags(p, on)

Spec == Init /\ [][Next]_vars
=============================================================================
