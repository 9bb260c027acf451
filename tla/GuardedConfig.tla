---------------------------- MODULE GuardedConfig ----------------------------
(***************************************************************************)
(* The guarded editor's server side: the handlers that change the config   *)
(* directory (internal/server), over ConfTree. Each takes the mutex        *)
(* mutate, changes the tree, runs nginx -t on what is then on disk, and    *)
(* either restores the tree or brings the manual tags after it. Restart    *)
(* does not take mutate: it tests, stops and starts nginx on whatever the  *)
(* disk holds at each moment.                                              *)
(*                                                                         *)
(* The reload after a change is left out: it does not change the tree, and *)
(* nginx keeps its configuration when it does not accept the new one.      *)
(***************************************************************************)
EXTENDS ConfTree

CONSTANTS
  Procs,      \* goroutines serving changes
  NoOne,      \* nobody holds mutate
  Absent,     \* no base content
  Trees,      \* directories lightngx may start on
  Included,   \* paths of the files nginx reads
  Bad,        \* contents nginx does not accept
  Twisted,    \* TRUE: requests that are not Straight are served too
  Restarts    \* TRUE: POST /api/nginx/restart is served

ASSUME GuardedConfigAssumption ==
  /\ NoOne \notin Procs /\ Absent \notin Contents
  /\ Bad \subseteq Contents /\ Included \subseteq Path
  /\ Trees \subseteq Tree
  /\ Twisted \in BOOLEAN /\ Restarts \in BOOLEAN

VARIABLES
  tree,       \* the directory on disk
  tagged,     \* paths with rows in file_tags
  mutate,     \* who holds the mutex
  pc,         \* what each handler does next
  req,        \* its request
  undo,       \* abs, old: what Write's restore closure holds; from, to: the keys of
              \* the tags, computed before the change; tree: what the handler found
  restart,    \* what the restart does next
  nginx       \* the master: up, stopped, or exited on what it read

vars == <<tree, tagged, mutate, pc, req, undo, restart, nginx>>

Acts    == {"none", "write", "mkdir", "delete", "rename"}
Steps   == {"idle", "check", "apply", "test", "meta", "rollback"}
Request == [act : Acts, path : Path \cup {<<>>}, to : Path \cup {<<>>},
            content : Contents \cup {Absent}, base : Contents \cup {Absent}]


TypeOK ==
  /\ tree \in [Path -> Entry] /\ Rooted(tree)
  /\ tagged \subseteq Path
  /\ mutate \in Procs \cup {NoOne}
  /\ pc \in [Procs -> Steps]
  /\ \A p \in Procs : req[p] \in Request
  /\ \A p \in Procs : undo[p].old \in Entry /\ undo[p].tree \in [Path -> Entry]
  /\ restart \in {"idle", "test", "stop", "start"}
  /\ nginx \in {"up", "stopped", "exited"}

NoRequest == [act |-> "none", path |-> <<>>, to |-> <<>>, content |-> Absent, base |-> Absent]
NoUndo    == [abs |-> <<>>, old |-> None, tree |-> [q \in Path |-> None], from |-> <<>>, to |-> <<>>]

(* nginx -t, and nginx at its start: the included files are all there and  *)
(* none is rejected.                                                       *)
Valid(t) == \A p \in Included : IsFile(t, p) /\ Content(t, p) \notin Bad

Init ==
  /\ tree \in Trees
  /\ tagged = {}
  /\ mutate = NoOne
  /\ pc = [p \in Procs |-> "idle"]
  /\ req = [p \in Procs |-> NoRequest]
  /\ undo = [p \in Procs |-> NoUndo]
  /\ restart = "idle"
  /\ nginx = IF Valid(tree) THEN "up" ELSE "exited"

Goto(p, from, to) == pc[p] = from /\ pc' = [pc EXCEPT ![p] = to]

Master == UNCHANGED <<restart, nginx>>

-----------------------------------------------------------------------------
(* Requests. One is served from the moment it gets mutate.                 *)

Changed(t, r) ==
  CASE r.act = "write"  -> Write(t, r.path, r.content)
    [] r.act = "mkdir"  -> Mkdir(t, r.path)
    [] r.act = "delete" -> Delete(t, r.path)
    [] r.act = "rename" -> Rename(t, r.path, r.to)

\* Fault: the handler does not take mutate.
BeginUnlocked(p, r) ==
  /\ mutate' = p
  /\ Goto(p, "idle", IF r.act = "write" /\ r.base # Absent THEN "check" ELSE "apply")
  /\ req' = [req EXCEPT ![p] = r]
  /\ UNCHANGED <<tree, tagged, undo>> /\ Master

(* The path of a deletion or a move does not lead through the very entry   *)
(* that goes away, nor the new path of a move; nor does that lead through a*)
(* link into a directory that is not there yet.                            *)
Straight(t, r) ==
  LET place == Place(t, r.path)
      new   == Front(r.to)
  IN /\ ~Through(t, r.path, place)
     /\ r.act = "rename" =>
          /\ ~Through(t, r.to, place)
          /\ Finds(t, new) \/ \A n \in 1 .. Len(new) : Lstat(t, SubSeq(new, 1, n)).is # "link"

Begin(p, r) ==
  /\ mutate = NoOne
  /\ r.act \in {"delete", "rename"} => Twisted \/ ~Changed(tree, r).ok \/ Straight(tree, r)
  /\ mutate' = p
  /\ Goto(p, "idle", IF r.act = "write" /\ r.base # Absent THEN "check" ELSE "apply")
  /\ req' = [req EXCEPT ![p] = r]
  /\ UNCHANGED <<tree, tagged, undo>> /\ Master

(* The handler answers; the deferred Unlock.                               *)
Answer(p, from) ==
  /\ Goto(p, from, "idle")
  /\ req' = [req EXCEPT ![p] = NoRequest]
  /\ undo' = [undo EXCEPT ![p] = NoUndo]
  /\ mutate' = NoOne

\* Fault: a file that is gone is no conflict.
BaseIsCurrentOrGone(p) ==
  /\ Resolves(tree, req[p].path)
  /\ Finds(tree, req[p].path) =>
       IsFile(tree, req[p].path) /\ Content(tree, req[p].path) = req[p].base

(* The base hash: 409 when the file is gone, cannot be read or differs.    *)
BaseIsCurrent(p) ==
  /\ Resolves(tree, req[p].path) /\ IsFile(tree, req[p].path)
  /\ Content(tree, req[p].path) = req[p].base

CheckBase(p) ==
  /\ Goto(p, "check", "apply")
  /\ BaseIsCurrent(p)
  /\ UNCHANGED <<tree, tagged, mutate, req, undo>> /\ Master

Conflict(p) ==
  /\ Answer(p, "check")
  /\ ~BaseIsCurrent(p)
  /\ UNCHANGED <<tree, tagged>> /\ Master

-----------------------------------------------------------------------------
(* The change, on disk before it is tested.                                *)

\* Fault: the last name is followed too.
MetadataPathFollowed(t, path) ==
  CASE Finds(t, path) -> Target(t, path)
    [] ~Finds(t, path) /\ Finds(t, Front(path)) -> Append(Target(t, Front(path)), Last(path))
    [] OTHER -> path

(* The key of the tags of a path: its parent looked up, its last name not; *)
(* the path as it was typed when the parent is not there yet.              *)
MetadataPath(t, path) ==
  IF Finds(t, Front(path)) THEN Append(Target(t, Front(path)), Last(path)) ELSE path

Remember(p, abs, old) ==
  undo' = [undo EXCEPT ![p] =
             [abs |-> abs, old |-> old, tree |-> tree, from |-> MetadataPath(tree, req[p].path),
              to |-> IF req[p].act = "rename" THEN MetadataPath(tree, req[p].to) ELSE <<>>]]

Apply(p) ==
  /\ Goto(p, "apply", "test")
  /\ req[p].act # "mkdir"
  /\ Changed(tree, req[p]).ok
  /\ tree' = Changed(tree, req[p]).tree
  /\ LET abs == IF req[p].act = "write" THEN WrittenPath(tree, req[p].path) ELSE <<>>
         old == IF req[p].act = "write" /\ IsFile(tree, abs) THEN File(Content(tree, abs)) ELSE None
     IN Remember(p, abs, old)
  /\ UNCHANGED <<tagged, mutate, req>> /\ Master

(* Refused; and Mkdir, which needs no test.                                *)
ApplyEnds(p) ==
  /\ Answer(p, "apply")
  /\ ~Changed(tree, req[p]).ok \/ req[p].act = "mkdir"
  /\ tree' = Changed(tree, req[p]).tree
  /\ UNCHANGED tagged /\ Master
-----------------------------------------------------------------------------
(* nginx -t and what follows. It fails on a rejected configuration, and    *)
(* also when it times out or its client goes away.                         *)

TestPasses(p) ==
  /\ pc[p] = "test"
  /\ Valid(tree)
  /\ \/ req[p].act = "write" /\ Answer(p, "test")
     \/ req[p].act # "write" /\ Goto(p, "test", "meta") /\ UNCHANGED <<mutate, req, undo>>
  /\ UNCHANGED <<tree, tagged>> /\ Master

TestFails(p) ==
  /\ Goto(p, "test", "rollback")
  /\ UNCHANGED <<tree, tagged, mutate, req, undo>> /\ Master

\* Fault: only the row of the path itself goes.
WithoutTagsExact(t, key) == t \ {key}

(* metadataChange: DeleteFileTags or MoveFileTags, by subtree.             *)
WithoutTags(t, key) == {k \in t : ~Under(key, k)}

MovedTags(t, from, to) ==
  LET kept == WithoutTags(t, to) IN
    kept \cup {to \o SubSeq(k, Len(from) + 1, Len(k)) : k \in {k \in kept : Under(from, k)}}

StoreCommits(p) ==
  /\ Answer(p, "meta")
  /\ LET from == undo[p].from
         to   == undo[p].to
     IN tagged' = CASE req[p].act = "delete" -> WithoutTags(tagged, from)
                    [] req[p].act = "rename" ->
                         IF from = to THEN tagged ELSE WithoutTags(MovedTags(tagged, from, to), from)
  /\ UNCHANGED tree /\ Master

StoreFails(p) ==
  /\ Goto(p, "meta", "rollback")
  /\ UNCHANGED <<tree, tagged, mutate, req, undo>> /\ Master

Restored(p) ==
  CASE req[p].act = "write"  -> WriteRestore(tree, undo[p].abs, undo[p].old)
    [] req[p].act = "delete" -> DeleteRestore(tree, req[p].path, undo[p].tree)
    [] req[p].act = "rename" -> RenameRestore(tree, req[p].path, req[p].to)

(* A closure that fails leaves the tree to be fixed by hand.               *)
Rollback(p) ==
  /\ Answer(p, "rollback")
  /\ tree' = Restored(p).tree
  /\ UNCHANGED tagged /\ Master

\* Fault: the tags are stored under the path asked for.
SetFileTagsUnresolved(path, on) ==
  /\ mutate = NoOne
  /\ Resolves(tree, path) /\ IsFile(tree, path)
  /\ tagged' = IF on THEN tagged \cup {path} ELSE tagged \ {path}
  /\ UNCHANGED <<tree, mutate, pc, req, undo>> /\ Master

(* PUT and POST of manual tags: on the regular file a path leads to.       *)
SetFileTags(path, on) ==
  /\ mutate = NoOne
  /\ Resolves(tree, path) /\ IsFile(tree, path)
  /\ tagged' = IF on THEN tagged \cup {Target(tree, path)} ELSE tagged \ {Target(tree, path)}
  /\ UNCHANGED <<tree, mutate, pc, req, undo>> /\ Master

-----------------------------------------------------------------------------
(* Restart, and the supervise loop that brings nginx back.                 *)

Edits == UNCHANGED <<tree, tagged, mutate, pc, req, undo>>

RestartBegins == Restarts /\ restart = "idle" /\ restart' = "test" /\ Edits /\ UNCHANGED nginx

RestartTests ==
  /\ restart = "test"
  /\ \/ Valid(tree) /\ restart' = "stop"
     \/ restart' = "idle"
  /\ Edits /\ UNCHANGED nginx

RestartStops ==
  /\ restart = "stop" /\ restart' = "start"
  /\ nginx' = "stopped"
  /\ Edits

\* Fault: nobody is told of a start that failed.
StartedUnwatched == nginx' = IF Valid(tree) THEN "up" ELSE "stopped"

Started == nginx' = IF Valid(tree) THEN "up" ELSE "exited"

RestartStarts ==
  /\ restart = "start" /\ restart' = "idle"
  /\ Started
  /\ Edits

Respawn ==
  /\ nginx = "exited"
  /\ Started
  /\ Edits /\ UNCHANGED restart

-----------------------------------------------------------------------------
Writes  == {[act |-> "write", path |-> p, to |-> <<>>, content |-> c, base |-> b] :
              p \in Path, c \in Contents, b \in Contents \cup {Absent}}
OnPath  == {[act |-> a, path |-> p, to |-> <<>>, content |-> Absent, base |-> Absent] :
              a \in {"mkdir", "delete"}, p \in Path}
Renames == {[act |-> "rename", path |-> p, to |-> q, content |-> Absent, base |-> Absent] :
              p \in Path, q \in Path}

Handle(p) ==
  \/ CheckBase(p) \/ Conflict(p) \/ Apply(p) \/ ApplyEnds(p)
  \/ TestPasses(p) \/ TestFails(p) \/ StoreCommits(p) \/ StoreFails(p) \/ Rollback(p)

RestartStep == RestartTests \/ RestartStops \/ RestartStarts

Next ==
  \/ \E p \in Procs, r \in Writes \cup OnPath \cup Renames : Begin(p, r)
  \/ \E p \in Procs : Handle(p)
  \/ \E p \in Path, on \in BOOLEAN : SetFileTags(p, on)
  \/ RestartBegins \/ RestartStep \/ Respawn

Spec == Init /\ [][Next]_vars

(* Handlers and restarts that began end: nginx -t and stopChild have       *)
(* deadlines. The supervise loop tries again for ever, after delays that   *)
(* edits know nothing of, so it does not meet a candidate every time.      *)
FairSpec ==
  /\ Spec
  /\ \A p \in Procs : WF_vars(Handle(p))
  /\ WF_vars(RestartStep)
  /\ SF_vars(Respawn /\ nginx' = "up")

-----------------------------------------------------------------------------
(* Properties.                                                             *)

Staged(p)  == pc[p] \in {"test", "meta", "rollback"}

(* The directory as it is but for the change under way: the holder of      *)
(* mutate has found it so.                                                 *)
Candidate == mutate \in Procs /\ Staged(mutate)
Committed == IF Candidate THEN undo[mutate].tree ELSE tree

(* Rollback puts back directories and links too ("put the previous state   *)
(* back", Write). Directories made on the way stay, and a write over a     *)
(* dangling link loses it.                                                 *)
RollbackKeepsTree ==
  [][\A p \in Procs :
       pc[p] = "rollback" /\ pc'[p] = "idle" =>
       \A q \in Path :
         \/ tree'[q] = undo[p].tree[q]
         \/ undo[p].tree[q] = None /\ tree'[q] = Dir
         \/ undo[p].tree[q].is = "link" /\ req[p].act = "write"]_vars

(* "Renaming files or folders through Lightngx moves assignments", and     *)
(* "successful deletions remove assignments" (tags.md): tags are on regular*)
(* files, under the key their path leads to, never stranded by the rename  *)
(* of a directory, of a link or through an alias, nor left to a later file.*)
TagsOnFiles == mutate = NoOne => \A k \in tagged : k \in Path /\ tree[k].is = "file"

(* nginx, stopped by a restart or exited on a candidate it met, comes back *)
(* once the candidate is rolled back ("the UI stays up to fix a broken     *)
(* config", README), unless what is committed is not accepted.             *)
NginxComesBack == nginx # "up" ~> (nginx = "up" \/ ~Valid(Committed))

(* The findings.                                                           *)

(* "restore function that puts the previous state back" (Write): nothing   *)
(* is lost by a change that did not count.                                 *)
RollbackLosesNothing ==
  [][\A p \in Procs : pc[p] = "rollback" /\ pc'[p] = "idle" =>
       \A q \in Path : undo[p].tree[q] # None => tree'[q] = undo[p].tree[q]]_vars

(* "You cannot break the running config" (README): nginx does not exit on  *)
(* what it reads while the committed configuration is accepted.            *)
EditsNeverStopNginx == [][nginx' = "exited" /\ nginx # "exited" => ~Valid(Committed)]_vars
=============================================================================
