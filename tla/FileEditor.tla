----------------------------- MODULE FileEditor -----------------------------
(***************************************************************************)
(* The editor of the web client: the hook useFileEditor, the handlers of   *)
(* ConfigView that call it, and the single question (ConfirmProvider) they *)
(* all share, against a server that other clients write to.                *)
(*                                                                         *)
(* JavaScript runs one task at a time, so a handler is atomic between two  *)
(* awaits. An await is a question to the user or a request; while it lasts *)
(* the user goes on clicking and other handlers run. A handler keeps the   *)
(* values of the render it was called in: these are the fields of a task.  *)
(* The server's part of a request is one step, which GuardedConfig shows   *)
(* the handlers to implement.                                              *)
(***************************************************************************)
EXTENDS Naturals, FiniteSets

CONSTANTS Files,       \* paths of the configuration directory
          External,    \* those that are links to outside of it
          Contents,    \* contents of files
          Template,    \* what newFile writes
          Blank,       \* the empty buffer, and the empty hash
          NoFile, Absent,
          Slots,       \* handlers that can be under way at once
          MaxTasks,    \* bound on the handlers started
          MaxEdits,    \* bound on what the user types
          MaxOther     \* bound on the changes of other clients

ASSUME EditorConstants ==
  /\ External \subseteq Files
  /\ Template \in Contents
  /\ Blank \notin Contents /\ Absent \notin Contents
  /\ NoFile \notin Files
  /\ Slots \subseteq Nat \ {0}

VARIABLES
  disk,      \* content of each file on the server
  ed,        \* the state of useFileEditor
  tasks,     \* the handlers waiting at an await
  dialog,    \* the task whose question is on screen (confirmP), or 0
  prompt,    \* the task whose prompt is on screen (promptP), or 0
  restored,  \* whether the deep link ?file= was opened
  mine,      \* TRUE when the buffer holds typing that is not on the server
  seen,      \* the contents of each file that were on this screen
  crossed,   \* TRUE once a save was answered after its file had been left
  displaced, \* TRUE once the question of a save was replaced by another
  started, edits, others   \* counters for the bounds

counters == <<started, edits, others>>
asking == <<dialog, displaced>>
vars == <<disk, ed, tasks, asking, prompt, restored, mine, seen, crossed, counters>>

Idle == [kind |-> "none", at |-> "idle", file |-> NoFile, to |-> NoFile,
         text |-> Blank, base |-> Blank, ro |-> FALSE, dirty |-> FALSE,
         agreed |-> FALSE, res |-> "none"]

Closed(e) == [path |-> NoFile, content |-> Blank, saved |-> Blank, base |-> Blank,
              readOnly |-> e.readOnly, loading |-> e.loading, saving |-> e.saving]

Dirty == ed.content # ed.saved

Init ==
  /\ disk \in [Files -> Contents \cup {Absent}]
  /\ ed = Closed([readOnly |-> FALSE, loading |-> FALSE, saving |-> FALSE])
  /\ tasks = [i \in Slots |-> Idle]
  /\ dialog = 0 /\ prompt = 0
  /\ restored \in BOOLEAN
  /\ mine = FALSE /\ crossed = FALSE /\ displaced = FALSE /\ seen = [f \in Files |-> {}]
  /\ started = 0 /\ edits = 0 /\ others = 0

-----------------------------------------------------------------------------
(* Tasks and questions.                                                    *)

Free(i) == tasks[i].at = "idle" /\ started < MaxTasks /\ started' = started + 1

Put(i, t) == tasks' = [tasks EXCEPT ![i] = t]

(* Defect: the replaced question is kept waiting.                           *)
AskForKept(i, t) == Put(i, [t EXCEPT !.at = "ask"]) /\ dialog' = i /\ UNCHANGED displaced

(* confirmP holds one question: asking another replaces it, and the promise *)
(* of the first never settles, so its task does nothing any more.           *)
AskFor(i, t) ==
  /\ tasks' = [j \in Slots |-> IF j = i THEN [t EXCEPT !.at = "ask"]
                               ELSE IF j = dialog THEN Idle ELSE tasks[j]]
  /\ dialog' = i
  /\ displaced' = (displaced \/ (dialog # 0 /\ tasks[dialog].kind = "save"))

(* open(p): confirmDiscard with the dirty of the render it belongs to, then *)
(* the request.                                                             *)
OpenTask(f, ro, dirty) ==
  [Idle EXCEPT !.kind = "open", !.file = f, !.ro = ro, !.dirty = dirty]

Opening(i, t) ==
  IF t.dirty
    THEN AskFor(i, t) /\ UNCHANGED ed
    ELSE /\ Put(i, [t EXCEPT !.at = "sent"])
         /\ ed' = [ed EXCEPT !.loading = TRUE]
         /\ UNCHANGED asking

Reset == ed' = Closed(ed) /\ mine' = FALSE

(* A modal covers the page: the user acts on it only when none is shown.   *)
UserFree == dialog = 0 /\ prompt = 0
ListShown == UserFree /\ ed.path = NoFile
FileShown == UserFree /\ ed.path # NoFile

-----------------------------------------------------------------------------
(* What the user starts.                                                   *)

(* openEntry: a file of the list, which may be gone by now.                *)
ClickEntry(i, f) ==
  /\ ListShown /\ Free(i)
  /\ Opening(i, OpenTask(f, f \in External, Dirty))
  /\ UNCHANGED <<disk, prompt, restored, mine, seen, crossed, edits, others>>

(* The effect that opens ?file= once a tree is there, never as external.    *)
RestoreLink(i, f) ==
  /\ ~restored /\ restored' = TRUE
  /\ ed.path = NoFile /\ Free(i)
  /\ Opening(i, OpenTask(f, FALSE, Dirty))
  /\ UNCHANGED <<disk, prompt, mine, seen, crossed, edits, others>>

(* closeFile, and goDir from the folder tree.                               *)
ClickClose(i) ==
  /\ FileShown
  /\ IF Dirty
       THEN /\ Free(i) /\ AskFor(i, [Idle EXCEPT !.kind = "close", !.dirty = TRUE])
            /\ UNCHANGED <<ed, mine>>
       ELSE Reset /\ UNCHANGED <<tasks, asking, started>>
  /\ UNCHANGED <<disk, prompt, restored, seen, crossed, edits, others>>

Type(c) ==
  /\ FileShown /\ ~ed.loading /\ ~ed.readOnly
  /\ edits < MaxEdits /\ edits' = edits + 1
  /\ c # ed.content
  /\ ed' = [ed EXCEPT !.content = c]
  /\ mine' = TRUE
  /\ tasks' = [i \in Slots |-> [tasks[i] EXCEPT !.agreed = FALSE]]
  /\ UNCHANGED <<disk, asking, prompt, restored, seen, crossed, started, others>>

(* Defect: the hash is not sent.                                            *)
ClickSaveBlind(i) ==
  /\ FileShown /\ Free(i)
  /\ ~ed.saving /\ ~ed.readOnly /\ Dirty
  /\ ed' = [ed EXCEPT !.saving = TRUE]
  /\ Put(i, [Idle EXCEPT !.kind = "save", !.at = "sent", !.file = ed.path,
                         !.text = ed.content])
  /\ UNCHANGED <<disk, asking, prompt, restored, mine, seen, crossed, edits, others>>

(* save(): the button and Mod-s, with the early returns of the hook.        *)
ClickSave(i) ==
  /\ FileShown /\ Free(i)
  /\ ~ed.saving /\ ~ed.readOnly /\ Dirty
  /\ ed' = [ed EXCEPT !.saving = TRUE]
  /\ Put(i, [Idle EXCEPT !.kind = "save", !.at = "sent", !.file = ed.path,
                         !.text = ed.content, !.base = ed.base])
  /\ UNCHANGED <<disk, asking, prompt, restored, mine, seen, crossed, edits, others>>

(* The handlers that begin with a prompt: newFile, newDir, renameEntry and  *)
(* renameOpenFile. Each keeps the path and the dirty of its render.         *)
ClickPrompt(i, kind) ==
  /\ UserFree /\ Free(i)
  /\ CASE kind \in {"create", "move"} -> ed.path = NoFile
       [] kind = "rename" -> ed.path # NoFile /\ ~ed.readOnly
       [] kind = "mkdir" -> TRUE
  /\ prompt' = i
  /\ Put(i, [Idle EXCEPT !.kind = kind, !.at = "prompt", !.file = ed.path,
                         !.dirty = Dirty])
  /\ UNCHANGED <<disk, ed, asking, restored, mine, seen, crossed, edits, others>>

(* deleteOpenFile and deleteEntry: a confirmation, then the request.        *)
ClickDelete(i, f) ==
  /\ UserFree /\ Free(i)
  /\ ed.path \in {NoFile, f}
  /\ AskFor(i, [Idle EXCEPT !.kind = IF ed.path = f THEN "delete" ELSE "remove",
                            !.file = f])
  /\ UNCHANGED <<disk, ed, prompt, restored, mine, seen, crossed, edits, others>>
-----------------------------------------------------------------------------
(* Answers to questions.                                                   *)

(* closePrompt(f): cancelling, or naming the file a rename starts from,     *)
(* ends the handler; renameOpenFile first closes the editor, with the dirty *)
(* of its own render.                                                       *)
AnswerPrompt(f) ==
  /\ prompt # 0 /\ dialog = 0 /\ prompt' = 0
  /\ LET i == prompt
         t == tasks[i]
     IN \/ /\ Put(i, Idle)
           /\ UNCHANGED <<ed, asking, mine>>
        \/ /\ t.kind \in {"create", "mkdir"}
           /\ Put(i, [t EXCEPT !.at = "sent", !.to = f,
                  !.text = IF t.kind = "create" THEN Template ELSE Blank])
           /\ UNCHANGED <<ed, asking, mine>>
        \/ \E from \in Files \ {f} :
              /\ t.kind = "move"
              /\ Put(i, [t EXCEPT !.at = "sent", !.file = from, !.to = f])
              /\ UNCHANGED <<ed, asking, mine>>
        \/ /\ t.kind = "rename" /\ t.file # f
           /\ IF t.dirty
                THEN AskFor(i, [t EXCEPT !.to = f]) /\ UNCHANGED <<ed, mine>>
                ELSE /\ Reset
                     /\ Put(i, [t EXCEPT !.at = "sent", !.to = f])
                     /\ UNCHANGED asking
  /\ UNCHANGED <<disk, restored, seen, crossed, counters>>

(* closeConfirm(true): what each handler does when the question it awaits   *)
(* is answered yes.                                                         *)
ConfirmYes ==
  /\ dialog # 0 /\ dialog' = 0 /\ UNCHANGED displaced
  /\ LET i == dialog
         t == [tasks[i] EXCEPT !.agreed = TRUE, !.at = "sent"]
     IN CASE t.kind = "open" ->
               Put(i, t) /\ ed' = [ed EXCEPT !.loading = TRUE] /\ UNCHANGED mine
          [] t.kind = "close" -> Put(i, Idle) /\ Reset
          [] t.kind = "rename" -> Put(i, t) /\ Reset
          [] t.kind = "save" ->
               /\ Put(i, [t EXCEPT !.kind = "overwrite", !.base = Blank])
               /\ UNCHANGED <<ed, mine>>
          [] OTHER -> Put(i, t) /\ UNCHANGED <<ed, mine>>
  /\ UNCHANGED <<disk, prompt, restored, seen, crossed, counters>>

(* Defect: a refused overwrite returns without the finally.                 *)
ConfirmNoStuck ==
  /\ dialog # 0 /\ dialog' = 0 /\ UNCHANGED displaced
  /\ Put(dialog, Idle)
  /\ UNCHANGED <<disk, ed, prompt, restored, mine, seen, crossed, counters>>

(* closeConfirm(false): the handler ends; the finally of save runs.         *)
ConfirmNo ==
  /\ dialog # 0 /\ dialog' = 0 /\ UNCHANGED displaced
  /\ Put(dialog, Idle)
  /\ ed' = [ed EXCEPT !.saving = @ /\ tasks[dialog].kind # "save"]
  /\ UNCHANGED <<disk, prompt, restored, mine, seen, crossed, counters>>

-----------------------------------------------------------------------------
(* The server, and the network that may lose its answer.                    *)

Respond(i, res) == Put(i, [tasks[i] EXCEPT !.at = "back", !.res = res])

Reads(i, t) ==
  /\ UNCHANGED <<disk, seen>>
  /\ \/ /\ disk[t.file] # Absent
        /\ Put(i, [t EXCEPT !.at = "back", !.res = "ok", !.text = disk[t.file]])
     \/ Respond(i, "failed")

(* PUT of a file: the base check, then Write, nginx -t and its rollback.    *)
Writes(i, t, f) ==
  IF t.base # Blank /\ disk[f] # t.base
    THEN Respond(i, "conflict") /\ UNCHANGED <<disk, seen>>
    ELSE \/ /\ f \notin External
            /\ disk' = [disk EXCEPT ![f] = t.text]
            /\ seen' = [seen EXCEPT ![f] = @ \cup {t.text}]
            /\ \E res \in {"ok", "failed"} : Respond(i, res)
         \/ Respond(i, "failed") /\ UNCHANGED <<disk, seen>>

Moves(i, t) ==
  /\ UNCHANGED seen
  /\ \/ /\ disk[t.file] # Absent /\ disk[t.to] = Absent
        /\ disk' = [disk EXCEPT ![t.to] = disk[t.file], ![t.file] = Absent]
        /\ \E res \in {"ok", "failed"} : Respond(i, res)
     \/ Respond(i, "failed") /\ UNCHANGED disk

Removes(i, t) ==
  /\ UNCHANGED seen
  /\ \/ /\ disk[t.file] # Absent
        /\ disk' = [disk EXCEPT ![t.file] = Absent]
        /\ \E res \in {"ok", "failed"} : Respond(i, res)
     \/ Respond(i, "failed") /\ UNCHANGED disk

Serve(i) ==
  /\ tasks[i].at = "sent"
  /\ LET t == tasks[i] IN
       \/ t.kind = "open" /\ Reads(i, t)
       \/ t.kind \in {"save", "overwrite"} /\ Writes(i, t, t.file)
       \/ t.kind = "create" /\ Writes(i, t, t.to)
       \/ t.kind \in {"rename", "move"} /\ Moves(i, t)
       \/ t.kind \in {"delete", "remove"} /\ Removes(i, t)
       \/ /\ t.kind = "mkdir" /\ UNCHANGED <<disk, seen>>
          /\ \E res \in {"ok", "failed"} : Respond(i, res)
  /\ UNCHANGED <<ed, asking, prompt, restored, mine, crossed, counters>>

(* Another client, or an operator with a shell.                             *)
OtherChanges(f, c) ==
  /\ others < MaxOther /\ others' = others + 1
  /\ f \notin External /\ disk[f] # c
  /\ disk' = [disk EXCEPT ![f] = c]
  /\ UNCHANGED <<ed, tasks, asking, prompt, restored, mine, seen, crossed, started, edits>>
-----------------------------------------------------------------------------
(* What the handlers do with an answer.                                     *)

(* open: all of the state of the file at once, and loading off whatever the *)
(* answer, even with another open under way.                                *)
OpenAnswered(i, t) ==
  /\ Put(i, Idle)
  /\ IF t.res = "ok"
       THEN /\ ed' = [path |-> t.file, content |-> t.text, saved |-> t.text,
                      base |-> t.text, readOnly |-> t.ro, loading |-> FALSE,
                      saving |-> ed.saving]
            /\ mine' = FALSE
            /\ seen' = [seen EXCEPT ![t.file] = @ \cup {t.text}]
       ELSE ed' = [ed EXCEPT !.loading = FALSE] /\ UNCHANGED <<mine, seen>>
  /\ UNCHANGED asking

(* Defect: the hash of the saved file is not kept.                          *)
SaveAnsweredOldHash(i, t) ==
  /\ UNCHANGED seen
  /\ CASE t.res = "conflict" -> AskFor(i, t) /\ UNCHANGED <<ed, mine>>
       [] t.res = "ok" ->
            /\ Put(i, Idle) /\ UNCHANGED asking
            /\ ed' = [ed EXCEPT !.saved = t.text, !.saving = FALSE]
            /\ mine' = (mine /\ ~(ed.path = t.file /\ ed.content = t.text))
       [] OTHER ->
            /\ Put(i, Idle) /\ UNCHANGED <<asking, mine>>
            /\ ed' = [ed EXCEPT !.saving = FALSE]

(* save: the text and the hash of what was sent become those of the buffer, *)
(* a conflict asks, anything else only ends the save.                       *)
SaveAnswered(i, t) ==
  /\ UNCHANGED seen
  /\ CASE t.res = "conflict" -> AskFor(i, t) /\ UNCHANGED <<ed, mine>>
       [] t.res = "ok" ->
            /\ Put(i, Idle) /\ UNCHANGED asking
            /\ ed' = [ed EXCEPT !.saved = t.text, !.base = t.text, !.saving = FALSE]
            /\ mine' = (mine /\ ~(ed.path = t.file /\ ed.content = t.text))
       [] OTHER ->
            /\ Put(i, Idle) /\ UNCHANGED <<asking, mine>>
            /\ ed' = [ed EXCEPT !.saving = FALSE]

(* newFile and renameOpenFile go on to open what they made, or, when the    *)
(* rename failed, the file they had closed; with the dirty of their render. *)
CreateAnswered(i, t) ==
  /\ UNCHANGED <<mine, seen>>
  /\ IF t.res = "ok" THEN Opening(i, OpenTask(t.to, FALSE, t.dirty))
                     ELSE Put(i, Idle) /\ UNCHANGED <<ed, asking>>

RenameAnswered(i, t) ==
  /\ UNCHANGED <<mine, seen>>
  /\ Opening(i, OpenTask(IF t.res = "ok" THEN t.to ELSE t.file, FALSE, t.dirty))

(* newDir goes to the directory it made: goDir closes the file that was     *)
(* open in its render.                                                      *)
MkdirAnswered(i, t) ==
  /\ UNCHANGED seen
  /\ IF t.res = "ok" /\ t.file # NoFile
       THEN IF t.dirty THEN AskFor(i, [t EXCEPT !.kind = "close"]) /\ UNCHANGED <<ed, mine>>
                       ELSE Put(i, Idle) /\ Reset /\ UNCHANGED asking
       ELSE Put(i, Idle) /\ UNCHANGED <<ed, mine, asking>>

(* deleteOpenFile resets the editor unconditionally.                        *)
DeleteAnswered(i, t) ==
  /\ Put(i, Idle) /\ UNCHANGED <<asking, seen>>
  /\ IF t.kind = "delete" /\ t.res = "ok" THEN Reset ELSE UNCHANGED <<ed, mine>>

LeftBehind(t) == t.kind \in {"save", "overwrite"} /\ t.res = "ok" /\ ed.path # t.file

Deliver(i) ==
  /\ tasks[i].at = "back"
  /\ LET t == tasks[i] IN
       \/ t.kind = "open" /\ OpenAnswered(i, t)
       \/ t.kind \in {"save", "overwrite"} /\ SaveAnswered(i, t)
       \/ t.kind = "create" /\ CreateAnswered(i, t)
       \/ t.kind = "rename" /\ RenameAnswered(i, t)
       \/ t.kind = "mkdir" /\ MkdirAnswered(i, t)
       \/ t.kind \in {"delete", "remove"} /\ DeleteAnswered(i, t)
       \/ /\ t.kind = "move"
          /\ Put(i, Idle) /\ UNCHANGED <<ed, mine, asking, seen>>
  /\ crossed' = (crossed \/ LeftBehind(tasks[i]))
  /\ UNCHANGED <<disk, prompt, restored, counters>>

Answer == ConfirmYes \/ ConfirmNo

Next ==
  \/ \E i \in Slots, f \in Files :
       ClickEntry(i, f) \/ RestoreLink(i, f) \/ ClickDelete(i, f)
  \/ \E i \in Slots : ClickClose(i) \/ ClickSave(i) \/ Serve(i) \/ Deliver(i)
  \/ \E i \in Slots, kind \in {"create", "move", "rename", "mkdir"} : ClickPrompt(i, kind)
  \/ \E c \in Contents : Type(c)
  \/ \E f \in Files : AnswerPrompt(f)
  \/ Answer
  \/ \E f \in Files, c \in Contents \cup {Absent} : OtherChanges(f, c)

(* A request is answered in the end and its answer handled; the user        *)
(* answers a question that stays on screen.                                 *)
Fairness ==
  /\ \A i \in Slots : WF_vars(Serve(i)) /\ WF_vars(Deliver(i))
  /\ WF_vars(Answer)

Spec == Init /\ [][Next]_vars /\ Fairness

-----------------------------------------------------------------------------
Task == [kind : {"none", "open", "close", "save", "overwrite", "create", "mkdir",
                 "move", "rename", "delete", "remove"},
         at : {"idle", "ask", "prompt", "sent", "back"},
         file : Files \cup {NoFile}, to : Files \cup {NoFile},
         text : Contents \cup {Blank}, base : Contents \cup {Blank},
         ro : BOOLEAN, dirty : BOOLEAN, agreed : BOOLEAN,
         res : {"none", "ok", "failed", "conflict"}]

(* Every state is well typed, and a question on screen is that of a handler *)
(* that waits for it.                                                       *)
TypeOK ==
  /\ disk \in [Files -> Contents \cup {Absent}]
  /\ ed \in [path : Files \cup {NoFile}, content : Contents \cup {Blank},
             saved : Contents \cup {Blank}, base : Contents \cup {Blank},
             readOnly : BOOLEAN, loading : BOOLEAN, saving : BOOLEAN]
  /\ tasks \in [Slots -> Task]
  /\ dialog \in Slots \cup {0} /\ prompt \in Slots \cup {0}
  /\ \A i \in Slots : (tasks[i].at = "ask") <=> (dialog = i)
  /\ \A i \in Slots : (tasks[i].at = "prompt") <=> (prompt = i)
  /\ {restored, mine, crossed, displaced} \subseteq BOOLEAN
  /\ seen \in [Files -> SUBSET Contents]

(* A buffer the editor shows as saved is the version its next save will be  *)
(* checked against: whatever answers arrive, and in whatever order, the     *)
(* hash kept by the hook is that of the text it compares the buffer with.   *)
CleanBufferIsBase == ed.base = ed.saved

(* A save that carries a hash replaces on the server only a content of that *)
(* file that was on this screen; any other content is replaced only by the  *)
(* overwrite that follows a yes to the conflict. Closing a file while it is *)
(* being saved lets the answer of the save become the version of the next   *)
(* file (setBaseHash after the await): nothing is promised from there on.   *)
SavesAreInformed ==
  [][\A i \in Slots :
       /\ ~crossed
       /\ tasks[i].kind = "save" /\ tasks[i].at = "sent" /\ tasks'[i].at = "back"
       => \A f \in Files : disk'[f] # disk[f] => disk[f] \in seen[f]]_vars

(* Typing leaves the buffer only with the file it was saved to, or after a  *)
(* yes to a question asked when it was already there: "confirmDiscard       *)
(* resolves true when it is safe to drop current changes"                   *)
(* (useFileEditor.ts, over confirmDiscard).                                 *)
EditsNotDropped ==
  [][mine /\ ~mine' =>
       \/ ed'.content = ed.content
       \/ \E i \in Slots : tasks'[i] # tasks[i] /\ (tasks[i].agreed \/ dialog = i)]_vars

(* A save ends: saving is reset on every path of the handler, through       *)
(* conflicts, refusals and lost answers, unless another handler's question  *)
(* replaces that of the conflict, which then is never answered.             *)
SaveEnds == ed.saving ~> (~ed.saving \/ displaced)
=============================================================================
