------------------------------- MODULE Vhosts -------------------------------
(***************************************************************************)
(* Virtual hosts: the site and stream managers of internal/sites and the   *)
(* handlers that drive them, internal/server/sites.go, with the editor's   *)
(* write and delete of an available file. A request, under the mutex       *)
(* mutate, applies its operation name by name, collecting restore          *)
(* closures; runs nginx -t; and then either runs the closures backwards or *)
(* updates the tag store, removes generated maintenance vhosts and reloads.*)
(*                                                                         *)
(* The directories are abstracted to what nginx and the handlers tell      *)
(* apart: a content per available file, what each enabled entry points at, *)
(* and the source content each generated maintenance vhost was made from.  *)
(* Both managers keep generated vhosts in one directory, by name alone.    *)
(***************************************************************************)
EXTENDS Naturals, Sequences, SequencesExt

CONSTANTS
  Kinds,       \* managers configured: a subset of {"sites", "streams"}
  Names,       \* vhost names
  Contents,    \* contents of an available file
  Bad,         \* those nginx -t rejects when enabled
  Serverless,  \* those without a server block, for which there is no 503 vhost
  None,        \* no file
  MaxBatch     \* bound on the names of one request

ASSUME VhostsAssumption ==
  /\ Kinds \subseteq {"sites", "streams"}
  /\ Bad \subseteq Contents /\ Serverless \subseteq Contents
  /\ None \notin Contents
  /\ MaxBatch \in Nat \ {0}

VARIABLES
  avail,    \* sites-available and streams-available
  link,     \* sites-enabled and streams-enabled: where the entry points
  gen,      \* .lightngx/maintenance/<name>.conf
  tagged,   \* vhosts with manual tags in the store
  pc,       \* where the handler holding mutate is
  req,      \* its request
  todo,     \* names not applied yet
  undo,     \* restore closures, oldest first
  outcome,  \* how the request ended; a closure that failed counts, whatever the reply says
  before    \* what the request found (for the properties)

disk == <<avail, link, gen>>
vars == <<avail, link, gen, tagged, pc, req, todo, undo, outcome, before>>

Vhost   == Kinds \X Names
Links   == {"none", "avail", "gen", "file"}   \* "file": not a symlink
Batch   == {"enable", "disable", "maintenance_on", "maintenance_off", "delete"}
Single  == {"write", "remove"}                \* the editor's PUT and DELETE
Request == [act : Batch \cup Single \cup {"rename", "clone", "none"},
            kind : Kinds \cup {"none"}, names : UNION {[1 .. i -> Names] : i \in 0 .. MaxBatch \cup {2}}]
Closure == [what : {"link", "disable", "maintenance", "delete", "rename", "file"},
            v : Vhost, to : Vhost, avail : Contents \cup {None}, link : Links,
            gen : Contents \cup {None}]

TypeOK ==
  /\ avail \in [Vhost -> Contents \cup {None}]
  /\ link \in [Vhost -> Links]
  /\ gen \in [Names -> Contents \cup {None}]
  /\ tagged \in SUBSET Vhost
  /\ pc \in {"idle", "apply", "test", "rollback", "meta", "cleanup", "reload", "replied"}
  /\ req \in Request
  /\ \A i \in DOMAIN todo : todo[i] \in Names
  /\ \A i \in DOMAIN undo : undo[i] \in Closure
  /\ outcome \in {"none", "applied", "rejected", "error", "store_failed", "rollback_failed"}

(* nginx -t: every enabled entry is readable and accepted.                 *)
Accepted(v) ==
  \/ link[v] = "none"
  \/ link[v] = "file"
  \/ link[v] = "avail" /\ avail[v] \notin Bad \cup {None}
  \/ link[v] = "gen" /\ gen[v[2]] # None

Valid == \A v \in Vhost : Accepted(v)

NoRequest == [act |-> "none", kind |-> "none", names |-> <<>>]

Init ==
  /\ avail \in [Vhost -> Contents \cup {None}]
  /\ link \in [Vhost -> {"none", "avail", "file"}]
  /\ \A v \in Vhost : link[v] = "avail" => avail[v] # None
  /\ gen = [n \in Names |-> None]
  /\ tagged = {}
  /\ pc = "idle" /\ req = NoRequest /\ todo = <<>> /\ undo = <<>>
  /\ outcome = "none" /\ before = <<>>

V(n) == <<req.kind, n>>
Goto(from, to) == pc = from /\ pc' = to

-----------------------------------------------------------------------------
(* Requests.                                                               *)

Begin(act, kind, names) ==
  /\ Goto("idle", "apply")
  /\ req' = [act |-> act, kind |-> kind, names |-> names]
  /\ todo' = names
  /\ before' = <<avail, link, gen, tagged>>
  /\ UNCHANGED <<disk, tagged, undo, outcome>>

(* Maintenance mode exists for sites only.                                 *)
BeginBatch(act, kind, names) ==
  /\ act \in {"maintenance_on", "maintenance_off"} => kind = "sites"
  /\ Begin(act, kind, names)

(* POST /api/tags/files: a tag is put on an existing file, under mutate.   *)
Tag(v) ==
  /\ pc = "idle"
  /\ avail[v] # None
  /\ tagged' = tagged \cup {v}
  /\ UNCHANGED <<disk, pc, req, todo, undo, outcome, before>>

(* Reply: mutate is released.                                              *)
Reply(o) == pc' = "replied" /\ outcome' = o

Done ==
  /\ Goto("replied", "idle")
  /\ req' = NoRequest /\ todo' = <<>> /\ undo' = <<>> /\ outcome' = "none"
  /\ before' = <<>>
  /\ UNCHANGED <<disk, tagged>>

-----------------------------------------------------------------------------
(* The operations of sites.Manager, one name at a time.                    *)

Push(what, v, to) ==
  undo' = Append(undo, [what |-> what, v |-> v, to |-> to, avail |-> avail[v],
                        link |-> link[v], gen |-> gen[v[2]]])

(* The first name of todo is applied; the test follows the last one.       *)
Applied ==
  /\ todo' = Tail(todo)
  /\ pc' = IF Tail(todo) = <<>> THEN "test" ELSE "apply"
  /\ UNCHANGED <<tagged, req, outcome, before>>

Applying(acts) == pc = "apply" /\ req.act \in acts

(* Enable and MaintenanceOff: the entry points at the available file.      *)
Enable ==
  /\ Applying({"enable", "maintenance_off"})
  /\ LET v == V(Head(todo)) IN
       /\ avail[v] # None /\ link[v] # "file"
       /\ link' = [link EXCEPT ![v] = "avail"]
       /\ Push("link", v, v)
  /\ Applied
  /\ UNCHANGED <<avail, gen>>

Disable ==
  /\ Applying({"disable"})
  /\ LET v == V(Head(todo)) IN
       /\ link[v] \notin {"none", "file"}
       /\ link' = [link EXCEPT ![v] = "none"]
       /\ Push("disable", v, v)
  /\ Applied
  /\ UNCHANGED <<avail, gen>>

MaintenanceOn ==
  /\ Applying({"maintenance_on"})
  /\ LET v == V(Head(todo)) IN
       /\ avail[v] \notin Serverless \cup {None}
       /\ link[v] # "file"
       /\ gen' = [gen EXCEPT ![v[2]] = avail[v]]
       /\ link' = [link EXCEPT ![v] = "gen"]
       /\ Push("maintenance", v, v)
  /\ Applied
  /\ UNCHANGED avail

\* Fault: the symlink is left behind.
DeleteLeavesLink ==
  /\ Applying({"delete"})
  /\ LET v == V(Head(todo)) IN
       /\ avail[v] # None /\ link[v] # "file"
       /\ avail' = [avail EXCEPT ![v] = None]
       /\ gen' = [gen EXCEPT ![v[2]] = None]
       /\ Push("delete", v, v)
  /\ Applied
  /\ UNCHANGED link

Delete ==
  /\ Applying({"delete"})
  /\ LET v == V(Head(todo)) IN
       /\ avail[v] # None /\ link[v] # "file"
       /\ avail' = [avail EXCEPT ![v] = None]
       /\ link' = [link EXCEPT ![v] = "none"]
       /\ gen' = [gen EXCEPT ![v[2]] = None]
       /\ Push("delete", v, v)
  /\ Applied

(* Rename takes the name and the new name; the entry follows the file.     *)
Rename ==
  /\ Applying({"rename"})
  /\ LET v == V(todo[1])
         w == V(todo[2])
         enabled == link[v] # "none"
     IN /\ avail[v] # None /\ avail[w] = None
        /\ link[v] \notin {"gen", "file"}
        /\ enabled => link[w] = "none"
        /\ avail' = [avail EXCEPT ![w] = avail[v], ![v] = None]
        /\ link' = IF enabled THEN [link EXCEPT ![w] = "avail", ![v] = "none"] ELSE link
        /\ Push("rename", v, w)
  /\ pc' = "test" /\ todo' = <<>>
  /\ UNCHANGED <<gen, tagged, req, outcome, before>>

\* Fault: the handler skips nginx -t.
WriteFileUntested(c) ==
  /\ Applying({"write"})
  /\ LET v == V(Head(todo)) IN
       /\ avail' = [avail EXCEPT ![v] = c]
       /\ Push("file", v, v)
  /\ pc' = "reload" /\ todo' = <<>>
  /\ UNCHANGED <<link, gen, tagged, req, outcome, before>>

(* confdir's Write of an available file, and its Delete.                   *)
WriteFile(c) ==
  /\ Applying({"write"})
  /\ LET v == V(Head(todo)) IN
       /\ avail' = [avail EXCEPT ![v] = c]
       /\ Push("file", v, v)
  /\ Applied
  /\ UNCHANGED <<link, gen>>

RemoveFile ==
  /\ Applying({"remove"})
  /\ LET v == V(Head(todo)) IN
       /\ avail[v] # None
       /\ avail' = [avail EXCEPT ![v] = None]
       /\ Push("file", v, v)
  /\ Applied
  /\ UNCHANGED <<link, gen>>

(* An operation that refuses its name: the request fails, and what was     *)
(* applied before it is rolled back. MaintenanceOn has already written the *)
(* generated vhost when it finds that the entry is not a symlink.          *)
Refuses(v) ==
  CASE req.act \in {"enable", "maintenance_off", "delete"} -> avail[v] = None \/ link[v] = "file"
    [] req.act = "disable" -> link[v] \in {"none", "file"}
    [] req.act = "maintenance_on" -> avail[v] \in Serverless \cup {None} \/ link[v] = "file"
    [] req.act = "remove" -> avail[v] = None
    [] req.act = "rename" ->
         LET w == V(todo[2]) IN
           \/ avail[v] = None \/ avail[w] # None
           \/ link[v] \in {"gen", "file"}
           \/ link[v] # "none" /\ link[w] # "none"
    [] OTHER -> FALSE

Refuse ==
  /\ Applying(Batch \cup {"remove", "rename"})
  /\ LET v == V(Head(todo)) IN
       /\ Refuses(v)
       /\ gen' = IF req.act = "maintenance_on" /\ avail[v] \notin Serverless \cup {None}
                 THEN [gen EXCEPT ![v[2]] = avail[v]] ELSE gen
  /\ pc' = "rollback" /\ outcome' = "error"
  /\ UNCHANGED <<avail, link, tagged, req, todo, undo, before>>

(* Clone: no test, no reload; the copy is removed when the store fails.    *)
Clone ==
  /\ Applying({"clone"})
  /\ LET v == V(todo[1])
         w == V(todo[2])
     IN \/ /\ avail[v] # None /\ avail[w] = None
           /\ \/ /\ avail' = [avail EXCEPT ![w] = avail[v]]
                 /\ tagged' = (tagged \ {w}) \cup (IF v \in tagged THEN {w} ELSE {})
                 /\ Reply("applied")
              \/ Reply("store_failed") /\ UNCHANGED <<avail, tagged>>
        \/ /\ avail[v] = None \/ avail[w] # None
           /\ Reply("error") /\ UNCHANGED <<avail, tagged>>
  /\ UNCHANGED <<link, gen, req, todo, undo, before>>

-----------------------------------------------------------------------------
(* nginx -t, rollback, and what follows a passing test.                    *)

TestPasses ==
  /\ Valid
  /\ Goto("test", CASE req.act \in {"delete", "rename", "remove"} -> "meta"
                    [] req.act \in {"disable", "maintenance_off"} -> "cleanup"
                    [] OTHER -> "reload")
  /\ UNCHANGED <<disk, tagged, req, todo, undo, outcome, before>>

(* The test fails on a rejected configuration, and also when it times out  *)
(* or its client goes away.                                                *)
TestFails ==
  /\ Goto("test", "rollback")
  /\ outcome' = "rejected"
  /\ UNCHANGED <<disk, tagged, req, todo, undo, before>>

(* One restore closure: what it puts back and whether it reports success.  *)
Restores(c) ==
  /\ avail' = CASE c.what \in {"delete", "file"} -> [avail EXCEPT ![c.v] = c.avail]
                [] c.what = "rename" -> [avail EXCEPT ![c.v] = avail[c.to], ![c.to] = None]
                [] OTHER -> avail
  /\ link' = CASE c.what = "file" -> link
               [] c.what = "rename" ->
                    IF c.link = "none" THEN link
                    ELSE [link EXCEPT ![c.to] = "none", ![c.v] = "avail"]
               [] c.what = "delete" /\ c.link = "none" -> link
               [] OTHER -> [link EXCEPT ![c.v] = c.link]
  /\ gen' = CASE c.what = "maintenance" -> [gen EXCEPT ![c.v[2]] = None]
              [] c.what = "delete" /\ c.gen # None -> [gen EXCEPT ![c.v[2]] = c.gen]
              [] OTHER -> gen

RestoreFails(c) ==
  \/ c.what = "maintenance" /\ gen[c.v[2]] = None
  \/ c.what \in {"disable", "delete"} /\ c.link # "none" /\ link[c.v] # "none"

\* Fault: the closures run in the order they were made.
RollbackOldestFirst ==
  /\ pc = "rollback" /\ undo # <<>>
  /\ Restores(Head(undo))
  /\ undo' = Tail(undo)
  /\ outcome' = IF RestoreFails(Head(undo)) THEN "rollback_failed" ELSE outcome
  /\ UNCHANGED <<tagged, pc, req, todo, before>>

(* Rollback runs every closure, newest first, and remembers a failure.     *)
RollbackStep ==
  /\ pc = "rollback" /\ undo # <<>>
  /\ Restores(Last(undo))
  /\ undo' = Front(undo)
  /\ outcome' = IF RestoreFails(Last(undo)) THEN "rollback_failed" ELSE outcome
  /\ UNCHANGED <<tagged, pc, req, todo, before>>

RollbackEnds ==
  /\ undo = <<>>
  /\ Goto("rollback", "replied")
  /\ UNCHANGED <<disk, tagged, req, todo, undo, outcome, before>>

\* Fault: only the first name of a batch loses its tags.
StoreCommitsFirst ==
  /\ LET v == V(req.names[1])
         w == V(req.names[2])
     IN \/ /\ req.act \in {"delete", "remove"}
           /\ tagged' = tagged \ {v}
        \/ /\ req.act = "rename"
           /\ tagged' = (tagged \ {v, w}) \cup (IF v \in tagged THEN {w} ELSE {})
  /\ Goto("meta", IF req.act = "delete" THEN "cleanup" ELSE "reload")
  /\ UNCHANGED <<disk, req, todo, undo, outcome, before>>

\* Fault: the moved tags are stored under the bare name, not the vhost's path.
StoreCommitsBareName ==
  /\ LET named == {V(req.names[i]) : i \in DOMAIN req.names}
         v == V(req.names[1])
         w == V(req.names[2])
     IN \/ /\ req.act \in {"delete", "remove"}
           /\ tagged' = tagged \ named
        \/ /\ req.act = "rename"
           /\ tagged' = (tagged \ {v, w}) \cup (IF v \in tagged THEN {req.names[2]} ELSE {})
  /\ Goto("meta", IF req.act = "delete" THEN "cleanup" ELSE "reload")
  /\ UNCHANGED <<disk, req, todo, undo, outcome, before>>

(* metadataChange: one transaction of the tag store, or the rollback.      *)
StoreCommits ==
  /\ LET named == {V(req.names[i]) : i \in DOMAIN req.names}
         v == V(req.names[1])
         w == V(req.names[2])
     IN \/ /\ req.act \in {"delete", "remove"}
           /\ tagged' = tagged \ named
        \/ /\ req.act = "rename"
           /\ tagged' = (tagged \ {v, w}) \cup (IF v \in tagged THEN {w} ELSE {})
  /\ Goto("meta", IF req.act = "delete" THEN "cleanup" ELSE "reload")
  /\ UNCHANGED <<disk, req, todo, undo, outcome, before>>

StoreFails ==
  /\ Goto("meta", "rollback")
  /\ outcome' = "store_failed"
  /\ UNCHANGED <<disk, tagged, req, todo, undo, before>>

\* Fault: the whole directory of generated vhosts is emptied.
CleanupAll ==
  /\ Goto("cleanup", "reload")
  /\ gen' = [n \in Names |-> None]
  /\ UNCHANGED <<avail, link, tagged, req, todo, undo, outcome, before>>

(* Cleanup of every name: the generated vhost goes, whoever it belongs to. *)
Cleanup ==
  /\ Goto("cleanup", "reload")
  /\ gen' = [n \in Names |-> IF n \in Range(req.names) THEN None ELSE gen[n]]
  /\ UNCHANGED <<avail, link, tagged, req, todo, undo, outcome, before>>

(* Reload; the reply differs but the change stays when it fails.           *)
Reload ==
  /\ pc = "reload"
  /\ Reply("applied")
  /\ UNCHANGED <<disk, tagged, req, todo, undo, before>>

-----------------------------------------------------------------------------
Next ==
  \/ \E act \in Batch, kind \in Kinds, names \in UNION {[1 .. i -> Names] : i \in 1 .. MaxBatch} :
       BeginBatch(act, kind, names)
  \/ \E act \in Single, kind \in Kinds, n \in Names : Begin(act, kind, <<n>>)
  \/ \E act \in {"rename", "clone"}, kind \in Kinds, n, m \in Names : Begin(act, kind, <<n, m>>)
  \/ \E v \in Vhost : Tag(v)
  \/ Enable \/ Disable \/ MaintenanceOn \/ Delete \/ Rename \/ RemoveFile
  \/ \E c \in Contents : WriteFile(c)
  \/ Refuse \/ Clone
  \/ TestPasses \/ TestFails \/ RollbackStep \/ RollbackEnds
  \/ StoreCommits \/ StoreFails \/ Cleanup \/ Reload \/ Done

Spec == Init /\ [][Next]_vars

-----------------------------------------------------------------------------
(* The requests whose rollback is exact: maintenance_on is excluded where  *)
(* it overwrites a generated vhost it does not save (a vhost already in    *)
(* maintenance, a name twice in the batch) or writes one and then refuses. *)
Clean ==
  req.act = "maintenance_on" =>
    /\ IsInjective(req.names)
    /\ \A i \in DOMAIN req.names :
         before[3][req.names[i]] = None /\ before[2][V(req.names[i])] # "file"

Replied(outcomes) == pc = "replied" /\ outcome \in outcomes

(* "rolls back if it fails" (README): a request that is refused, rejected  *)
(* by nginx -t or failed by the store leaves files, entries, generated     *)
(* vhosts and tags exactly as it found them, whatever its batch did first. *)
RollbackExact ==
  Replied({"error", "rejected", "store_failed"}) /\ Clean
    => <<avail, link, gen, tagged>> = before

(* Closures run backwards never trip over one another: the reply "config   *)
(* test failed AND rollback failed, fix manually" is not reached.          *)
RollbackSucceeds == Replied({"rollback_failed"}) => ~Clean

(* What passed the test is what is left behind: the steps after the test,  *)
(* Cleanup above all, keep the configuration acceptable to nginx ("the     *)
(* running config is never left in a state nginx would reject", editor.md).*)
AppliedIsValid == Replied({"applied"}) /\ req.act # "clone" => Valid

(* A request touches the vhosts it names and no other: file, entry and,    *)
(* when the entry points at it, the generated vhost.                       *)
OthersUntouched ==
  pc = "replied" =>
    \A v \in Vhost : v \notin {V(req.names[i]) : i \in DOMAIN req.names} =>
      /\ avail[v] = before[1][v] /\ link[v] = before[2][v]
      /\ link[v] = "gen" => gen[v[2]] = before[3][v[2]]

(* Tags never outlive their file: no tag is inherited by a later vhost of  *)
(* the same name.                                                          *)
TagsHaveFiles == pc \in {"idle", "replied"} => \A v \in tagged : avail[v] # None

(* The findings.                                                           *)

(* RollbackExact without the exclusions, for the replies that claim it:    *)
(* "nginx config test failed, change rolled back".                         *)
RejectedIsRolledBack == Replied({"rejected"}) => <<avail, link, gen, tagged>> = before

(* "The copy is created disabled (no sites-enabled symlink)" (Clone): no   *)
(* entry the program made has the copy's name. The comment overlooks the   *)
(* entry of a vhost in maintenance whose available file was removed.       *)
CloneIsDisabled ==
  Replied({"applied"}) /\ req.act = "clone"
    => link[V(req.names[2])] \notin {"avail", "gen"}
=============================================================================
