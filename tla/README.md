# lightngx: a TLA+ model

lightngx is a web interface for one nginx server. A Go daemon serves a React
client; it edits nginx's configuration directory under a guard (`nginx -t`
before a change counts, rollback when it fails), enables and disables virtual
hosts, starts and restarts nginx as its child, tails logs, and keeps accounts,
second factors, sessions and tags in SQLite.

These modules model the parts of it that keep state under concurrency or
failure, check them with TLC on small instances, and prove the main safety
properties with TLAPS for instances of any size. `PROJECT.json` lists the
components, the runs, the faults each property is known to detect, the source
lines of each definition, the hazards and the theorems.

    tlc -config Supervisor.cfg Supervisor.tla      # a run
    tlapm SupervisorProofs.tla                     # the proofs

Paths below are relative to `src/`.

## 1. Inventory

| component | state | operations |
|---|---|---|
| nginx controller `internal/nginxctl` | child process, `stopping`, `shutdown`, `childDone`, mutexes `op` and `mu` | Test, Reload, Restart, StartSupervised, the supervise loop, Shutdown |
| config directory `internal/confdir` | the tree on disk | Read, Write, Mkdir, Rename, Delete, each change with a restore closure |
| editor handlers `internal/server/server.go` | mutex `mutate` | save, mkdir, delete, rename, with base hash, `nginx -t`, rollback, tags, reload |
| sites and streams `internal/sites` | available files, enabled entries, generated maintenance vhosts | Enable, Disable, MaintenanceOn/Off, Rename, Clone, Delete, Cleanup, closures |
| vhost handlers `internal/server/sites.go` | mutex `mutate` | batches, rename, clone, create |
| tags `internal/store/tags*.go`, `internal/tags` | manual tags by path, rules, a cache of matches | set, move, delete, batch; matching |
| accounts and factors `internal/store`, `internal/accounts` | users, hashes, `auth_version`, TOTP, keys, policy, sessions, remembered devices | the transactions on them |
| authentication handlers `internal/server/mfa.go`, `users.go`, `server.go`, `middleware.go` | mutex `mfaMu`, work slots | login, passkeys, setup, verification, enrolment, removal, administration |
| rate limiter `internal/auth/local.go` | attempts by address and account | Allow, Reset, collection |
| TOTP, challenges, OIDC `internal/auth`, `internal/store/challenges.go`, `mfa.go` | counters, one-time challenges, OIDC sessions | begin and finish of ceremonies |
| logs `internal/logs` | none but the files; number of streams | Read backwards by pages, Follow |
| web client: editor `web/app/src/useFileEditor.ts`, `ConfigView.tsx`, `confirm.tsx` | the open file, its base hash, dirty flag; the one question on screen | open, edit, save, conflict, close, new, rename, delete |
| web client: session `App.tsx`, `api.ts`, sign-in screens, `Navbar.tsx` | what the page knows of the session, the URL, the configuration | boot, sign in, verify, enrol, sign out, poll, redirect |
| web client: tags of a file `components/tags/*` | three views with sequence numbers, a form, a busy flag | pin, unpin, create, edit, delete, refresh |
| web client: list `VhostsView.tsx`, `useBatchSelection.ts` | rows, filters, selection, actions under way | select, single and batch actions, rename, create, delete, open |
| web client: settings, logs, presentation | forms and widgets | one request each |
| cookies, API keys, configuration, ownership, static files | signed values, rows, the environment | no interleaving of interest |

How they meet. Each HTTP request is a goroutine. Every change to the
configuration directory, and to the tags that name its files, holds
`Server.mutate` from its first look at the disk to its reply; readers hold
nothing, and neither does `POST /api/nginx/restart`, which goes to the
controller and its own lock `op`. The controller's supervise loop runs beside
the requests and shares `mu` with them, but not `op`. The store has one SQLite
connection: a statement or a transaction is atomic, two statements of a handler
are not; enrolment, verification and removal of factors also hold `mfaMu`,
password and role changes do not.

What is hard, and what correctness means there:

* **Controller**: the loop, a restart and the shutdown all start or stop
  masters. At most one master, the tracked one; a dead master comes back; a
  deliberate stop is not undone; nothing is started behind a shutdown.
* **Guarded edits**: files are changed before they are tested, and closures
  undo them by path on a tree that has changed, through links and directories.
  A rejected change leaves no trace; tags move with files or not at all; a save
  is over the content it is based on; nginx survives a candidate.
* **Vhosts**: a batch stops half way and is undone backwards; cleanup runs
  after the test. What passed the test is what stays; other vhosts are left alone.
* **Accounts**: several statements per handler, with resets between them. A
  session rests on current credentials; full access is earned; factors are not
  replaced by stale requests; there is an admin.
* **Client**: every handler keeps the values of the render it began in while
  answers arrive in any order and the user acts between them. A save is over what
  was on screen; a dead session is noticed; a toggle is not undone by an older
  fetch; a batch acts only on rows the visitor picked under the filters shown;
  flags that disable a button come down again.
* **Logs, limiter, tag cache**: boundaries, caps, and values checked then used.

## 2. Modules

| module | what it models |
|---|---|
| `Supervisor` | the controller in supervise mode, with `main`'s start and shutdown |
| `SupervisorProofs` | its inductive invariant and theorems |
| `ConfTree` | the config directory as pure operators on trees with links |
| `ConfigStore` | abstract: what the guard promises its clients |
| `GuardedConfig` | the editor's handlers over `ConfTree`; restart beside them |
| `GuardedConfigStore` | the mapping by which it implements `ConfigStore` |
| `MCGuardedConfig` | its instances |
| `GuardedConfigProofs` | walks through a tree, operations and closures, what holding `mutate` makes of a change; the refinement |
| `Vhosts` | site and stream managers, their handlers, tags of vhosts |
| `VhostsProofs` | its inductive invariants and theorems |
| `Accounts` | store transactions and handlers, statement by statement |
| `MCAccounts` | symmetry for its runs |
| `AccountsProofs` | its inductive invariant and theorems |
| `FileEditor` | the client's editor hook, its callers and the shared question, over a server others write to |
| `WebSession` | the client's session, screens, redirect, configuration and status poll |
| `FileTags` | the tags of the open file: hooks, workspace and its handlers |
| `SiteList`, `MCSiteList` | the list of sites, its selection and its actions; its instance |
| `FileEditorProofs`, `WebSessionProofs`, `FileTagsProofs`, `SiteListProofs` | the inductive invariant and theorems of each |

In each module an action is a stretch of code between two points where another
goroutine can act: the acquisition of a mutex, a database statement, an
external command, a signal. `pc` or `at` names the point a goroutine is at;
its local variables are its fields. A definition whose comment begins with
*Fault* is not part of a specification: it is a plausible bug of the definition
after it.

### Supervisor

`op` is the mutex of that name; `child` is the tracked master, named by the
ordinal of its start (`child`, `childDone` in the code); `live` are the masters
that run, `done` the closed `childDone` channels, so that the gap between a death
and its `Wait` is visible; `stopping`, `shutdown` are the flags, `closed` the
channel of Shutdown. A critical section under `mu` is one action. A request
goes through `lock`, `test`, `stop`, `signal`, `wait`, `kill`, `unstop`,
`start`; the loop through the statements of `superviseLoop`, so that its
comparison (`LoopCompare`) and its start (`LoopRespawn`) are two steps, as they
are in the code. Masters exit at any moment and may ignore SIGQUIT.

### ConfTree, GuardedConfig, ConfigStore

A tree maps each path to nothing, a directory, a file with a content, or a
link. `EvalSymlinks`, `Resolves`, `Lstat` and `Place` are the four ways the code
looks a path up (all links followed; all links of the ancestors that exist;
the last name not followed; the place of that last name), and the operations
are written with the same one as the code. An operation yields a tree and
whether it worked, since directories made on the way stay after a failure. The
walk of `EvalSymlinks` is a recursive function over where it is, the names to come
and the links it may still follow; `MkdirAll` one over the ancestors, each looked up
in the tree that the one before left; `MovedTo` is `os.Rename` with the conditions under
which it refuses. `Through` says whether a path leads through an entry: whether
anything else is found without it.

A handler of `GuardedConfig` begins when it gets `mutate`, then goes through
`check` (the base hash), `apply`, `test`, `meta` (the transaction on tags) and
`rollback`. What its closures captured is in `undo`. The keys of tags are
computed before the change (`MetadataPath`), as in the code. The test may fail
on any tree, since it also fails on a timeout, and the store may fail.

`ConfigStore` is what a client relies on: staged, visible, then committed with
its tags or aborted without trace. The refinement mapping (`GuardedConfigStore`) takes the tree found
by the handler under way for the committed files and the tree on disk for what
readers see. The change under way is read off what the holder of `mutate`
remembers, in the key the file's path led to when it was found. `StoreAssumption`
says that the value for no change is not a change.

### Vhosts

Directories are abstracted to what is told apart: content per available file,
what each entry points at (`none`, `avail`, `gen`, or a regular `file` in its
place), the content each generated vhost was made from. Both managers share the
directory of generated vhosts by bare name, as the code does. A handler applies
its names one at a time, pushing the closure of each on `undo`, and rolls back
from the newest. One request at a time: `mutate` is held throughout, and
`guarded_restart` shows what it is for.

### Accounts

Passwords are named by the `auth_version` they were set at. A session carries
two fields that are not columns: the version its credentials were checked
against, and whether a second factor was presented; the properties are about
them. A request carries what it read: level, role, version, hash. Any request
may end early at any step (`GiveUp`), which stands for rate limits, wrong
answers, storage errors and clients that leave.

### The client: FileEditor, WebSession, FileTags, SiteList

JavaScript runs one task at a time, so here an action is a stretch of a handler
between two awaits, with the rendering it triggers. What a handler captured of
its render (the path, the content, the base hash, the selected names, the scope)
is in the record of its task, request or job. A request is sent, served and
answered in separate steps, so that answers overtake one another; it may fail or be
lost at each. The server's part of a request is one step: `GuardedConfig` and
`Vhosts` are about what happens inside it.

*FileEditor*: `ed` is the state of `useFileEditor`, `tasks` the handlers that
wait, `dialog` and `prompt` the one question and the one prompt that
`ConfirmProvider` can show. A second question replaces the first, whose handler
then waits for ever: this is the code's, and `displaced` remembers that it
happened to a save. Three variables are about history: `mine`, `seen`, `crossed`.

*WebSession*: `ui` holds what `App` keeps; `Screen` and the redirect are
computed from it after each update, as the render and its effects are. `srv` is
the session behind the cookie, which other tabs and administrators change.

*FileTags*: each of the three hooks has one fetch that counts (the last one, by
the sequence number). Of the fetches it superseded the answers change nothing, so
only one is kept, `late`: the one that a handler still awaits. `op` is the handler that made
the workspace busy; it resumes when its fetch is answered, counting or not.

*SiteList*: any list and any verdict may come back, since nothing the
selection promises depends on the server. `due` is the update of the pruning effect
that has been computed and not applied; `picked` is the history the
property compares the selection with.

## 3. Runs

| run | question | states |
|---|---|---|
| `supervisor` | flags, start conditions and shutdown are safe under two requests, the loop and crashes | 448,621 (2 requests, 3 starts) |
| `supervisor_live` | a dead master is respawned, Shutdown ends, requests are answered | 18,676 (1 request, 3 starts) |
| `vhosts` | rollback is exact, what is left is valid, others are untouched, tags have files | 197,448 |
| `accounts` | sessions stay current and earned; factors and passwords are safe from stale requests | 1.9 million |
| `accounts_admin` | an admin remains; setup makes one only while there is none | 1.1 million |
| `guarded_config` | handlers implement `ConfigStore`, with and without links; rollback restores the tree; tags are on files | 300,477 |
| `guarded_restart` | the same lock with two handlers interleaved; nginx comes back after a restart that met a candidate | 19,852 |
| `editor` | a clean buffer is the content of its hash; a save replaces only what was shown; the Save button comes back | 986,058 |
| `session` | the shell lands on a section there is; a dead session is noticed | 110,335 |
| `file_tags` | settled views agree with the server; a toggle survives older fetches; the workspace does not stay busy | 856,509 |
| `lists` | what a batch acts on was picked under the filters shown; picks are not lost | 879,133 |
| `session_unauthorized` | a 401 means that the session ended (violated) | |

Bounds, and why they are enough:

* *Supervisor*: three starts give the first master, one replaced by a restart
  and one by the loop; a second request adds the overlap of two restarts, and
  the theorems cover any number.
* *Vhosts*: two names and batches of two reach every pair of closures, including
  the same name twice; the starting directories are all that a user can make,
  entries that are not links and files that are rejected among them.
* *Accounts*: two requests are needed for every interleaving of interest (one
  reads, one changes); two sessions are a login and its upgrade, or two devices;
  two versions are a change and a change of that. The theorems cover any number.
* *GuardedConfig*: two names on two levels give a file beside, inside and in
  place of a directory, rename of a directory with contents, and rename into
  one that is missing. Each starting tree has at most one link, to any path: to a
  file, a directory, the root, its own subtree, or nothing; it gives every path an alias.
  `Included` is empty in `guarded_config`, so that every tree can pass the test as
  well as fail it, and nothing tells names or contents apart, which makes the
  symmetry sound; in the runs about nginx the file `a` is read. A second
  handler only waits for `mutate`, so it is in `guarded_restart`, where trees are
  small. A move beyond `MaxDepth` is refused (`Fits`); `MaxLinks` 4 is more
  than any acyclic chain here.

* *FileEditor*: two files, one of them read-only (a link to the outside), give a
  switch between buffers; two handlers at once and three in all give a handler
  overtaken by another that a third had prepared; one edit makes a buffer dirty,
  one change by another client makes a hash old.
* *WebSession*: two requests and one poll at once; the page is opened at `/` or
  at a section; one click and two events elsewhere give a session that ends
  and another that begins. The violation needs two clicks and no event.
* *FileTags*: one tag is enough, since the views are sets and handlers name one
  tag; two turns (handlers, other clients, Retry, a new revision, together) give a
  handler and something that races it, with as many fetches as these send.
* *SiteList*: three names and a limit of two make the limit bite (200 in the
  code); two actions overlap; two filters are a scope and another.

### Fairness

*Supervisor*: goroutines that can run do run; `nginx -t` has a deadline;
`stopChild`'s timer fires; a blocked Go mutex is handed over (starvation mode),
hence strong fairness of `LockOp`; a select with two ready cases picks either;
`exec` does not fail for ever. Nothing is assumed of nginx, of clients or of
signals: a master may never exit by itself, and no client need call.

*GuardedConfig*: handlers and restarts that began end; the supervise loop tries
for ever and its delays are independent of edits, so it does not meet a candidate
each time (strong fairness of a respawn that works). Clients need not ask for anything.

*FileEditor*: a request is answered, or fails, and its answer is handled; a
question on screen is answered in the end, and a prompt need not be.
*FileTags*: requests likewise. *WebSession*: likewise; the shell polls while it
shows (the interval runs whatever the views do; a hidden tab polls when it is
visible again) and the network does not lose every poll (strong fairness of `Serve` and
`Heard` for the poll). *SiteList* has safety properties only. The user need not
click anything, and other clients need not act.

### What does not hold

`session_unauthorized` expects a violation of what the code says of itself, "While
the app is mounted, any 401 means the session was revoked or expired"
(`web/app/src/App.tsx:215`): a wrong code in the profile's enrolment panel is answered 401
by `internal/server/mfa.go:347`, and the hook drops a valid session's user to
the login screen.

More formulas that TLC refutes stand in the modules without a run of their own,
with the constants that show it:

* `AtMostOneMaster` (`Supervisor`; one request, `MaxStarts` 3): the loop
  compares `childDone` (`internal/nginxctl/nginxctl.go:281`), releases `mu` and starts
  (289) without `op`; a Restart in between leaves two live masters, although `op`
  is there so that no operation can "leave an orphaned master fighting the
  tracked one for the listen sockets" (28-29).
* `AppliedIsValid` with `Kinds` = {"sites", "streams"} (`Vhosts`; one name, one good
  content, `MaxBatch` 1): cleaning up a stream (`internal/sites/sites.go:226`)
  removes the generated vhost of the site of the same name, after the test, though
  "the running config is never left in a state nginx would reject"
  (`docs/docs/editor.md:32-33`). `OthersUntouched` fails there too: the request was
  for the stream.
* `RejectedIsRolledBack` (`Vhosts`; the same with sites alone): the closure of
  maintenance_on (`internal/sites/sites.go:197`) removes a generated vhost
  that was there before, while the reply says "change rolled back".
* `DevicesCurrent` (`Accounts`; one user, two requests, `MaxSessions` 2, `MaxVersion` 1,
  `MaxKeys` 0): a reset between the upgrade of a session
  (`internal/server/mfa.go:96`) and the insert of its device, which does not compare
  `auth_version`, leaves a device of before the reset. "Local password and MFA
  changes revoke other sessions and remembered devices atomically."
  (`docs/docs/security.md:40-41`).
* `EditsNeverStopNginx` (`GuardedConfig`; the constants of
  `GuardedConfigRestart.cfg`, one name and one handler): a restart does not take `mutate`
  (`internal/server/server.go:666`); it tests the committed configuration and
  starts nginx on an edit's untested candidate.
* `EditsNotDropped` (`FileEditor`; the constants of `FileEditor.cfg`):
  `confirmDiscard` looks at `dirty` before the fetch of `open` is sent; what is typed
  while it is under way is replaced by its answer without a question, although it
  "resolves true when it is safe to drop current changes"
  (`web/app/src/useFileEditor.ts:42`).

* `UnexpectedExitRespawned` (`Supervisor`, the constants of `SupervisorLive.cfg`):
  the loop is launched only when the first start works; a later Restart's
  master is watched by nobody.
* `CloneIsDisabled` (`Vhosts`, one kind, two names): the entry of a removed vhost in
  maintenance adopts a clone.
* `StaleSessionKeepsFactors` (`Accounts`, the constants given for `DevicesCurrent`):
  a full session revoked while its request waits for `mfaMu` still replaces a
  confirmed authenticator.
* `RollbackLosesNothing` (`GuardedConfig`, one level): a rejected write over a
  dangling link loses the link.
* With `Twisted = TRUE`, `RollbackKeepsTree` (the other constants of
  `GuardedConfig.cfg`): a restore closure looks its path up again, and cannot
  when the path led through the entry that was moved or removed. Likewise
  `TagsOnFiles` (three levels, a directory `a` with a file in it, a link `b` to
  `a`): a rename to `b/b/a` while `a/b` does not exist stores the tags under
  `b/b/a`, because `metadataPath` answers the path as typed when its directory
  is not there yet, while the file is at `a/b/a` (a leading slash typed by the
  user does the same). "Renaming files or folders through Lightngx moves
  assignments" (`docs/docs/tags.md:121`). The runs serve `Straight` requests.

The passing properties state these exceptions where they touch them
(`Clean` in `Vhosts`; `Straight` and the links in `RollbackKeepsTree`; `crossed`
and `displaced` in `FileEditor`; `missed` in `WebSession`; `stale` in `FileTags`).

Behaviours of the client that the models show and no formula names:

* Editor: `newFile` writes without a base hash and so replaces a file of that
  name; the retry after a conflict carries no hash either, so a third version that came
  meanwhile is lost; `deleteOpenFile` resets the buffer whatever is in it by then;
  the answer of a save that comes after its file was left becomes the saved text and
  the base hash of the next one (`useFileEditor.ts:97`).
* Session: a setup that succeeds with a failing `/api/me` stays on the setup
  screen; a late answer of `/api/me` brings the shell back until the next poll; a late 401
  of an old session signs out a new one; a `loadMe` that fails for the network shows
  the login screen to a valid session; the verify and enrol screens never learn that
  their session ended; a policy prompt left open overwrites another
  administrator's decision.
* Tags: a toggle that fails restores what it started from over a newer fetch; an
  answer that is lost leaves the views behind until their next fetch.
* List: an action begun under other filters, when it succeeds, empties the selection
  made since (`setSelected` of the old scope); a batch confirmed after going back in
  the browser acts on rows that are hidden by then, although "Site selection is
  cleared when filters change so bulk actions do not act on hidden selections"
  (`docs/docs/tags.md:114-115`); the end of a delete, a rename or a create moves the
  page to or from an editor, whichever is open by then and with its edits
  (`VhostsView.tsx:213-215`, `259-262`, `596-598`); the list has no sequence number, so an
  older answer may stay on screen.

## 4. Proofs

Checked by TLAPS, for every value of the constants that satisfies the named
assumptions: null values are not members of the sets they stand beside, bounds are
natural numbers, the names of `SiteList` and the lanes of `WebSession` are finite
sets, what is rejected is among the contents there are, the directories lightngx starts
on are trees. None bounds the number of handlers, files, users, tags or names.

In each module `IInv` is the inductive invariant, with named parts; `InitInv`
and `StepInv` are its two facts, with one step (or lemma) per action, and the
theorems follow. None of the properties is inductive by itself. TLC checked every
`IInv` on the instance of its run, or on a smaller one, before it was proved, and
`WholeInv`, `ChangeInv` and `DeletionsUndone` of `GuardedConfigProofs` on that of
`guarded_config`.

**SupervisorProofs**: `TypeCorrect`, `StoppingFlag`, `OverDeadMaster`,
`NoOrphan`, `ShutdownStops`, `NoLateStart`. `StoppingFlag` is about
`StoppingTracksStop`, a lemma of sorts for the others, which no run repeats. That
`stopping` is up exactly during a stop needs that `op` has one holder
(`LockInv`); that a restart starts over a dead master needs that what it waited for
was the tracked one and that a closed `done` means dead (`MasterInv`,
`DeadInv`); that no master is orphaned before the loop runs needs that only the
holder of `op` changes `child` until then (`OffInv`); that shutdown leaves no
master needs that nothing starts once the flag is up (`ShutdownInv`).

**AccountsProofs**: `TypeCorrect`, `SessionsAlwaysCurrent`, `FullAlwaysEarned`,
`LastAdminAlwaysKept`, `PasswordChangesOverVerified`, `SetupAddsOnlyFirstAdmin`,
`EnrollmentKeepsFactors`.
The invariant has a part about rows (`SessionsCurrent`, `FullIsEarned`, and that
ids are fresh) and one about each request in flight (`ReqInv`): a login that
is about to insert a full session has read a version at which, if that version
is still the user's, there was no factor or it presented one; a request that
upgrades is about a session that, if it is still there, is of its user. Lemmas
say what a step that leaves a user's row alone keeps (`OthersKeep`), what
a request that only moves on keeps (`Moves`), and when a transaction is safe
for all other requests (`Safe`): it changes the factors of a user only with a
new version. `EnrollmentKeepsFactors` needs the exclusion: an enrolment past its lock
holds `mfaMu` (`HolderInv`), so that what `canEnrol` found is still so when the
store writes (`NoFactorInv`): resets take factors away, and only an enrolment, which would
hold `mfaMu`, gives one.

**VhostsProofs**: `TypeCorrect`, `RollbackIsExact`, `RollbackNeverFails`,
`TagsStayOnFiles`, `OthersStayUntouched`, `AppliedStaysValid`. The invariant
says, from what the request found (`before`), what the disk is after its
first k names (`DiskAfter`) and what the closure made after them holds
(`ClosureAfter`), and that this is so of every closure on the stack (`UndoInv`):
then undoing from the newest goes back through the same disks. A name may
occur twice in a batch, which is why a closure may hold what an earlier operation
left rather than what was found. `ProgressInv` counts closures against names,
`TagsInv` says that no tag moves before the store's transaction, `OthersInv`
that only named vhosts change. The last two theorems assume `OneManager`: the managers of sites
and streams share the directory of generated vhosts by bare name, and with both TLC
refutes the two properties (section 3): they are theorems about a system that uses
sites or streams, which is what the run checks too. The other four hold of both together. `AppliedStaysValid` adds `ValidInv`: after the test the disk stays valid
up to the reply, Cleanup included.

**GuardedConfigProofs**: for any number of handlers, any tree with any links, with
restarts in between. It has three parts.

*The tree.* Everything is about where paths lead, so the first lemmas are about the walk
of `EvalSymlinks`. A step takes a name or a link, which brings at most `MaxDepth` names, so
the walk has less to go after it (`Fuel`, `OnwardWalk`); by well-founded
induction over that number the recursive function is defined everywhere (`WalksEnd`) and
satisfies its own equation (`WalkStep`). The induction theorems of the library take an
operator and cannot be used; `NatInd` and `WalkInd` say the same of a set, which is
enough. From the equation: a walk goes on from the directory it reached (`WalkGoesOn`); it
is the same in two trees that differ only where it does not pass, or by directories that
were not there (`FoundKept` and what it rests on); a path found without an entry is found
whatever becomes of the entry. Then one lemma says what each operation makes of a tree, and
one what its closure makes of that: `MakesAll` (the ancestors, by induction over their
number), `WriteDoes`, `WriteUndoes`, `DeleteDoes`, `DeleteUndoes`, `RenameDoes`, `RenameUndoes`,
over `MovesBack` (an entry and all below it moved there and back is where it was, unless cut off
at `MaxDepth`, which is why a move needs `Fits`).

*The lock.* `IInv`, which needs nothing of that: `OneChangeAtATime` (`LockInv`);
`CountsOnlyAccepted`: a change that counts leaves a directory nginx accepts, exactly what
the request makes of the directory its handler found (`CandidateInv`, `AcceptedInv`);
`SavesReplaceTheirBase`: what the base hash was compared with is what is replaced (`SaveInv`).

*The handlers.* `WholeInv` adds that disk and memory hold trees (`TreeInv`), that a
handler remembers what follows from the tree it found (`MemoryInv`), that what is done is straight
(`StraightInv`), and that tags are on the files of the committed tree (`TagsInv`). Each
needs the others: the tags follow a rename only if it does what `RenameDoes` says of a tree, and
after a rollback they are on files only because the closure put the files back, which it can
because the path still leads where it led (`StraightInv`) and what it holds is what was
there (`MemoryInv`). From it `TypeCorrect`, `TagsStayOnFiles`, `RollbackRestores`, and
`StoreImplemented`: `StageStep`, `CommitStep` and `AbortStep` map `Apply` to `Stage` of
`ConfigStore`, the reply to `Commit`, `Rollback` to `Abort`; all else maps to nothing
(`StoreStep`). These four assume `~Twisted`: with it, TLC refutes two of them (section 3), and
they are theorems about requests that are `Straight`, as the runs are. `AlwaysATree` and
`DeletionsComeBack` (a deletion that does not count is undone to the last entry if its place
is found at all) hold of all requests, straight or not.

**FileEditorProofs**: `TypeCorrect`, `BaseIsSaved`, `SavesOverSeen`. Each
handler under way carries what it found out before it waited (`TaskOK`), a save
carries a base that was on this screen, and what it has written counts as seen
before its answer makes it the base (`Informed`); an open buffer rests on
a content that was shown, as long as no save was answered behind its back (`BufferInv`).

**WebSessionProofs**: `LandsWhereItShould`. What `App` takes for the configuration is
the deployment's if it knows one, and it knows none only before the fetch is answered
or after one that failed (`ConfInv`); an answer under way says what is so (`AnswersInv`).

**FileTagsProofs**: `TypeCorrect`, `SettledViewsAlwaysAgree`,
`TogglesStayShown`. The answer of the fetch that counts, and a view for which nothing is under way,
are what the server holds (`FetchOK`, `ShownOK`), except where the handler
under way will still make that hook fetch (`Behind`) or the page was not told
of a change (`stale`). `Behind` is the argument: between the server's change and the
handler's end some view is always wrong, and always has a refresh coming. A fetch that counts during
a toggle was asked for during it (`DuringInv`).

**SiteListProofs**: `SelectionAlwaysTheVisitors`, `PicksAreKept`. The
pruning effect that is due is always that of the state and the list as they are
now (`DueInv`), though it was computed by an older render; an action carries the scope
it was begun in (`JobInv`).

**Only model-checked**: liveness under fairness, which TLAPS does not reach:
`DeadMasterRespawned`, `ShutdownCompletes`, `RequestsComplete`, `NginxComesBack`, `SaveEnds`,
`BusyEnds`, `ShellLands`, `DeadSessionNoticed`. Every invariant and every action
property of a run is a theorem, and so is the refinement.

## 5. Not modelled

* External mode of the controller: signals to a pid from a file, no state.
  Log rotation by the hour. Reuse of pids.
* Disk errors in the middle of a file operation, file sizes and modes, links
  that leave the root (refused before anything is touched), the listing.
* The reload after an edit: it changes no file, and nginx keeps its old
  configuration when it refuses the new one.
* OIDC, TOTP codes, passkey ceremonies, the window of fresh authentication, and
  the admin seeded from the environment.
* Cookies, API keys, static files, ownership, the maintenance page, presentation:
  no state of their own, or one statement.
* The client's settings, log viewer, widgets, texts and icons; paging and sorting of
  the list; directories in the client's tree; the inside of the batch tag
  dialog; the catalogue the rail keeps for itself; the status badge; re-authentication.
  They are forms with one request, or read what the modelled parts decide.
* A crash between a change and its test: the code keeps no journal, so the
  candidate is the configuration after a restart of the daemon; nothing is
  promised, and nothing is checked.

## 6. Plan

In order of what matters next:

1. `RateLimiter`: sliding window, cap of the table, collection.
2. `OneTime`: TOTP counters and challenges are consumed once; OIDC sessions join
   `Accounts`.
3. `TagEngine`: the cache of matches against an abstract engine without one.
4. `LogPaging`, `LogFollow`: pages against the list of lines; follow across
   rotation and truncation.
5. Safety of the modules above, proved as they are written.
