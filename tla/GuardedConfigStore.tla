------------------------ MODULE GuardedConfigStore -------------------------
(***************************************************************************)
(* GuardedConfig implements ConfigStore: a committed change is one whose   *)
(* handler has answered, and the staged one is what the holder of mutate   *)
(* has put on disk.                                                        *)
(***************************************************************************)
EXTENDS GuardedConfig

FilesOf(t) == [p \in Path |-> IF t[p].is = "file" THEN t[p].content ELSE Absent]

StagedChange ==
  [act     |-> CASE req[mutate].act = "write"  -> "put"
                 [] req[mutate].act = "delete" -> "remove"
                 [] OTHER -> "move",
   path    |-> IF req[mutate].act = "write" THEN Place(tree, undo[mutate].abs) ELSE undo[mutate].from,
   to      |-> IF req[mutate].act = "rename" THEN undo[mutate].to ELSE <<>>,
   content |-> req[mutate].content,
   base    |-> req[mutate].base]

CommittedFiles == FilesOf(Committed)
Disk           == FilesOf(tree)
ChangeUnderWay == IF Candidate THEN StagedChange ELSE NoOne

(* "Every write, rename, delete and site toggle runs nginx -t before it    *)
(* counts. If the test fails, the change is rolled back" (editor.md), the  *)
(* tags moving with the files or not at all, and a save over the content   *)
(* it is based on or not at all: the handlers implement ConfigStore,       *)
(* whatever links, directories and overlapping requests they meet.         *)
Store == INSTANCE ConfigStore WITH
  files    <- CommittedFiles,
  disk     <- Disk,
  change   <- ChangeUnderWay,
  NoChange <- NoOne

\* The value that stands for no change is none.
ASSUME StoreAssumption == NoOne \notin Store!Change

ImplementsStore == Store!Spec
=============================================================================
