-------------------------- MODULE FileEditorProofs --------------------------
(***************************************************************************)
(* Proofs about FileEditor, for any number of files, contents and handlers *)
(* under way: types, that the hash the hook keeps is that of the text it   *)
(* compares the buffer with, and that a save replaces only what was shown. *)
(***************************************************************************)
EXTENDS FileEditor, TLAPS

(* What a handler has found out by the time it waits where it waits.        *)
TaskOK(t) ==
  /\ t.kind = "none" => t.at = "idle"
  /\ t.kind = "close" => t.at = "ask"
  /\ t.kind \in {"open", "save", "overwrite", "rename", "delete", "remove"} => t.file \in Files
  /\ t.kind \in {"save", "overwrite"} => t.text \in Contents
  /\ t.kind \in {"create", "rename", "move"} /\ t.at # "prompt" => t.to \in Files
  /\ t.kind = "move" /\ t.at # "prompt" => t.file \in Files
  /\ t.kind = "create" /\ t.at # "prompt" => t.text \in Contents
  /\ t.kind = "open" /\ t.at = "back" /\ t.res = "ok" => t.text \in Contents

(* What a save under way carries was on this screen, and what it has        *)
(* written is counted as seen before its answer makes it the base.          *)
Informed(t, shown, left) ==
  /\ ~left /\ t.kind = "save" => t.base \in shown[t.file]
  /\ t.kind \in {"save", "overwrite"} /\ t.at = "back" /\ t.res = "ok" => t.text \in shown[t.file]

(* An open buffer holds a content, and rests on one that was on this screen *)
(* as long as no save was answered behind its back.                         *)
BufferInv ==
  ed.path # NoFile => /\ ed.content \in Contents
                      /\ ~crossed => ed.base \in seen[ed.path]

TasksInv == \A i \in Slots : TaskOK(tasks[i]) /\ Informed(tasks[i], seen, crossed)

(* The two halves of TypeOK: what the screen and the server hold, and the   *)
(* handlers with the question and the prompt that belong to them.           *)
DataOK ==
  /\ disk \in [Files -> Contents \cup {Absent}]
  /\ ed \in [path : Files \cup {NoFile}, content : Contents \cup {Blank},
             saved : Contents \cup {Blank}, base : Contents \cup {Blank},
             readOnly : BOOLEAN, loading : BOOLEAN, saving : BOOLEAN]
  /\ {restored, mine, crossed, displaced} \subseteq BOOLEAN
  /\ seen \in [Files -> SUBSET Contents]

AskOK ==
  /\ tasks \in [Slots -> Task]
  /\ dialog \in Slots \cup {0} /\ prompt \in Slots \cup {0}
  /\ \A i \in Slots : (tasks[i].at = "ask") <=> (dialog = i)
  /\ \A i \in Slots : (tasks[i].at = "prompt") <=> (prompt = i)

IInv == DataOK /\ AskOK /\ CleanBufferIsBase /\ BufferInv /\ TasksInv

-----------------------------------------------------------------------------
(* What Put and AskFor do to the handlers.                                  *)

LEMMA IdleOK == Idle \in Task /\ TaskOK(Idle)
BY DEF Idle, Task, TaskOK

LEMMA PutTask ==
  ASSUME AskOK, NEW i \in Slots, NEW t \in Task, Put(i, t)
  PROVE  /\ tasks' \in [Slots -> Task]
         /\ tasks'[i] = t
         /\ \A j \in Slots : j # i => tasks'[j] = tasks[j]
BY DEF AskOK, Put

(* A handler that moves on without a question.                              *)
LEMMA PutAsks ==
  ASSUME AskOK, NEW i \in Slots, NEW t \in Task, Put(i, t),
         t.at \notin {"ask", "prompt"},
         dialog' = (IF dialog = i THEN 0 ELSE dialog),
         prompt' = (IF prompt = i THEN 0 ELSE prompt)
  PROVE  AskOK'
<1>1. tasks' \in [Slots -> Task] /\ tasks'[i] = t /\ \A j \in Slots : j # i => tasks'[j] = tasks[j]
  BY PutTask
<1>2. 0 \notin Slots
  BY EditorConstants
<1>. QED
  BY <1>1, <1>2 DEF AskOK

(* A question replaces the one on screen, whose handler is gone.            *)
LEMMA AskTask ==
  ASSUME AskOK, NEW i \in Slots, NEW t \in Task, AskFor(i, t)
  PROVE  /\ tasks' \in [Slots -> Task]
         /\ tasks'[i] = [t EXCEPT !.at = "ask"]
         /\ \A j \in Slots : j # i => tasks'[j] = Idle \/ tasks'[j] = tasks[j]
         /\ displaced' \in BOOLEAN
<1>1. [t EXCEPT !.at = "ask"] \in Task
  BY DEF Task
<1>. QED
  BY <1>1, IdleOK DEF AskOK, AskFor

LEMMA AskAsks ==
  ASSUME AskOK, NEW i \in Slots, NEW t \in Task, AskFor(i, t),
         prompt' = (IF prompt = i THEN 0 ELSE prompt)
  PROVE  AskOK'
<1>1. 0 \notin Slots
  BY EditorConstants
<1>2. [t EXCEPT !.at = "ask"] \in Task /\ [t EXCEPT !.at = "ask"].at = "ask"
  BY DEF Task
<1>3. tasks' = [j \in Slots |-> IF j = i THEN [t EXCEPT !.at = "ask"]
                                ELSE IF j = dialog THEN Idle ELSE tasks[j]]
      /\ dialog' = i
  BY DEF AskFor
<1>4. tasks' \in [Slots -> Task]
  BY AskTask
<1>5. Idle.at = "idle"
  BY DEF Idle
<1>. QED
  BY <1>1, <1>2, <1>3, <1>4, <1>5 DEF AskOK

(* The handlers keep what they found out: what was seen stays seen.         *)
LEMMA KeepTasks ==
  ASSUME TasksInv, NEW i \in Slots, NEW t, TaskOK(t), Informed(t, seen', crossed'),
         \A f \in Files : seen[f] \subseteq seen'[f], crossed => crossed',
         \A j \in Slots : tasks'[j] = t \/ tasks'[j] = Idle \/ tasks'[j] = tasks[j]
  PROVE  TasksInv'
<1>1. SUFFICES ASSUME NEW j \in Slots PROVE TaskOK(tasks'[j]) /\ Informed(tasks'[j], seen', crossed')
  BY DEF TasksInv
<1>2. CASE tasks'[j] = t
  BY <1>2 DEF Informed
<1>3. CASE tasks'[j] = Idle
  BY <1>3, IdleOK DEF Informed, Idle
<1>4. CASE tasks'[j] = tasks[j]
  <2>1. TaskOK(tasks[j]) /\ Informed(tasks[j], seen, crossed)
    BY DEF TasksInv
  <2>. QED
    BY <1>4, <2>1 DEF Informed, TaskOK
<1>. QED
  BY <1>2, <1>3, <1>4
-----------------------------------------------------------------------------
(* Every initial state satisfies the inductive invariant.                   *)
LEMMA InitInv == Init => IInv
<1> SUFFICES ASSUME Init PROVE IInv
  OBVIOUS
<1>1. DataOK
  BY EditorConstants DEF Init, DataOK, Closed
<1>2. AskOK
  BY EditorConstants, IdleOK DEF Init, AskOK, Idle
<1>3. CleanBufferIsBase /\ BufferInv
  BY DEF Init, CleanBufferIsBase, BufferInv, Closed
<1>4. TasksInv
  BY IdleOK DEF Init, TasksInv, Informed, Idle
<1>. QED
  BY <1>1, <1>2, <1>3, <1>4 DEF IInv

(* open, from the list, a link, or a handler that goes on to it.            *)
LEMMA OpeningKeeps ==
  ASSUME IInv, NEW i \in Slots, NEW f \in Files, NEW ro \in BOOLEAN, NEW dirty \in BOOLEAN,
         tasks[i].at \notin {"ask", "prompt"}, Opening(i, OpenTask(f, ro, dirty)),
         restored' \in BOOLEAN, crossed' \in BOOLEAN, crossed => crossed',
         UNCHANGED <<disk, prompt, mine, seen>>
  PROVE  IInv'
<1> DEFINE t == OpenTask(f, ro, dirty)
<1>1. t \in Task /\ t.kind = "open" /\ t.file = f
  BY DEF OpenTask, Idle, Task
<1>2. 0 \notin Slots /\ dialog # i /\ prompt # i
  BY EditorConstants DEF IInv, AskOK
<1>3. /\ ed' \in [path : Files \cup {NoFile}, content : Contents \cup {Blank},
                  saved : Contents \cup {Blank}, base : Contents \cup {Blank},
                  readOnly : BOOLEAN, loading : BOOLEAN, saving : BOOLEAN]
      /\ ed'.path = ed.path /\ ed'.content = ed.content
      /\ ed'.saved = ed.saved /\ ed'.base = ed.base
  BY DEF IInv, DataOK, Opening
<1>4. CASE t.dirty
  <2>1. AskFor(i, t)
    BY <1>4 DEF Opening
  <2>2. AskOK'
    BY <1>1, <1>2, <2>1, AskAsks DEF IInv
  <2>3. DataOK'
    BY <1>1, <1>3, <2>1, AskTask DEF IInv, DataOK
  <2>4. CleanBufferIsBase' /\ BufferInv'
    BY <1>3 DEF IInv, CleanBufferIsBase, BufferInv
  <2> DEFINE u == [t EXCEPT !.at = "ask"]
  <2>5. TaskOK(u) /\ Informed(u, seen', crossed')
    BY <1>1 DEF TaskOK, Informed, OpenTask, Idle
  <2>6. \A j \in Slots : tasks'[j] = u \/ tasks'[j] = Idle \/ tasks'[j] = tasks[j]
    BY <1>1, <2>1, AskTask DEF IInv
  <2>7. TasksInv'
    BY <2>5, <2>6, KeepTasks DEF IInv
  <2>. QED
    BY <2>2, <2>3, <2>4, <2>7 DEF IInv
<1>5. CASE ~t.dirty
  <2> DEFINE u == [t EXCEPT !.at = "sent"]
  <2>1. Put(i, u) /\ UNCHANGED asking
    BY <1>5 DEF Opening
  <2>2. u \in Task /\ u.at = "sent"
    BY <1>1 DEF Task
  <2>3. AskOK'
    BY <1>2, <2>1, <2>2, PutAsks DEF IInv, asking
  <2>4. DataOK'
    BY <1>3, <2>1 DEF IInv, DataOK, asking
  <2>5. CleanBufferIsBase' /\ BufferInv'
    BY <1>3 DEF IInv, CleanBufferIsBase, BufferInv
  <2>6. TaskOK(u) /\ Informed(u, seen', crossed')
    BY <1>1 DEF TaskOK, Informed, OpenTask, Idle
  <2>7. \A j \in Slots : tasks'[j] = u \/ tasks'[j] = Idle \/ tasks'[j] = tasks[j]
    BY <2>1, <2>2, PutTask DEF IInv
  <2>8. TasksInv'
    BY <2>6, <2>7, KeepTasks DEF IInv
  <2>. QED
    BY <2>3, <2>4, <2>5, <2>8 DEF IInv
<1>. QED
  BY <1>4, <1>5

(* A handler moves on; the rest of the invariant is about what it set.      *)
LEMMA PutKeeps ==
  ASSUME IInv, NEW i \in Slots, NEW t \in Task, Put(i, t),
         t.at \notin {"ask", "prompt"},
         dialog' = (IF dialog = i THEN 0 ELSE dialog),
         prompt' = (IF prompt = i THEN 0 ELSE prompt),
         TaskOK(t), Informed(t, seen', crossed'),
         \A f \in Files : seen[f] \subseteq seen'[f], crossed => crossed',
         DataOK', CleanBufferIsBase', BufferInv'
  PROVE  IInv'
<1>1. AskOK'
  BY PutAsks DEF IInv
<1>2. \A j \in Slots : tasks'[j] = t \/ tasks'[j] = Idle \/ tasks'[j] = tasks[j]
  BY PutTask DEF IInv
<1>3. TasksInv'
  BY <1>2, KeepTasks DEF IInv
<1>. QED
  BY <1>1, <1>3 DEF IInv

(* A handler asks.                                                          *)
LEMMA AskKeeps ==
  ASSUME IInv, NEW i \in Slots, NEW t \in Task, AskFor(i, t),
         prompt' = (IF prompt = i THEN 0 ELSE prompt),
         TaskOK([t EXCEPT !.at = "ask"]), Informed([t EXCEPT !.at = "ask"], seen', crossed'),
         \A f \in Files : seen[f] \subseteq seen'[f], crossed => crossed',
         DataOK', CleanBufferIsBase', BufferInv'
  PROVE  IInv'
<1>1. AskOK'
  BY AskAsks DEF IInv
<1> DEFINE u == [t EXCEPT !.at = "ask"]
<1>2. \A j \in Slots : tasks'[j] = u \/ tasks'[j] = Idle \/ tasks'[j] = tasks[j]
  BY AskTask DEF IInv
<1>3. TasksInv'
  BY <1>2, KeepTasks DEF IInv
<1>. QED
  BY <1>1, <1>3 DEF IInv

(* What Reset, and setting the flags alone, leave of the buffer.            *)
LEMMA ResetData ==
  ASSUME IInv, Reset, {restored', displaced', crossed'} \subseteq BOOLEAN, UNCHANGED <<disk, seen>>
  PROVE  DataOK' /\ CleanBufferIsBase' /\ BufferInv'
BY EditorConstants DEF IInv, Reset, Closed, DataOK, CleanBufferIsBase, BufferInv

LEMMA SameBuffer ==
  ASSUME IInv, NEW l \in BOOLEAN, NEW s \in BOOLEAN,
         ed' = [ed EXCEPT !.loading = l, !.saving = s],
         disk' \in [Files -> Contents \cup {Absent}], seen' \in [Files -> SUBSET Contents],
         {restored', mine', displaced', crossed'} \subseteq BOOLEAN,
         \A f \in Files : seen[f] \subseteq seen'[f], crossed => crossed'
  PROVE  DataOK' /\ CleanBufferIsBase' /\ BufferInv'
BY DEF IInv, DataOK, CleanBufferIsBase, BufferInv

LEMMA UnchangedBuffer ==
  ASSUME IInv, UNCHANGED ed,
         disk' \in [Files -> Contents \cup {Absent}], seen' \in [Files -> SUBSET Contents],
         {restored', mine', displaced', crossed'} \subseteq BOOLEAN,
         \A f \in Files : seen[f] \subseteq seen'[f], crossed => crossed'
  PROVE  DataOK' /\ CleanBufferIsBase' /\ BufferInv'
BY DEF IInv, DataOK, CleanBufferIsBase, BufferInv

-----------------------------------------------------------------------------
(* What the user starts.                                                    *)

LEMMA ClickCloseKeeps == ASSUME IInv, NEW i \in Slots, ClickClose(i) PROVE IInv'
<1>1. CASE Dirty
  <2> DEFINE t == [Idle EXCEPT !.kind = "close", !.dirty = TRUE]
  <2>1. t \in Task /\ TaskOK([t EXCEPT !.at = "ask"]) /\ Informed([t EXCEPT !.at = "ask"], seen, crossed)
    BY DEF Idle, Task, TaskOK, Informed
  <2>2. AskFor(i, t) /\ UNCHANGED <<ed, mine, disk, prompt, restored, seen, crossed>> /\ prompt = 0
    BY <1>1 DEF ClickClose, FileShown, UserFree
  <2>3. displaced' \in BOOLEAN
    BY <2>1, <2>2, AskTask DEF IInv
  <2>4. DataOK' /\ CleanBufferIsBase' /\ BufferInv'
    BY <2>2, <2>3, UnchangedBuffer DEF IInv, DataOK
  <2>. QED
    BY <2>1, <2>2, <2>4, AskKeeps
<1>2. CASE ~Dirty
  <2>1. Reset /\ UNCHANGED <<tasks, asking, disk, prompt, restored, seen, crossed>>
    BY <1>2 DEF ClickClose
  <2>2. DataOK' /\ CleanBufferIsBase' /\ BufferInv'
    BY <2>1, ResetData DEF IInv, DataOK, asking
  <2>3. AskOK' /\ TasksInv'
    BY <2>1 DEF IInv, AskOK, TasksInv, asking
  <2>. QED
    BY <2>2, <2>3 DEF IInv
<1>. QED
  BY <1>1, <1>2

LEMMA TypeKeeps == ASSUME IInv, NEW c \in Contents, Type(c) PROVE IInv'
<1>1. ed' = [ed EXCEPT !.content = c] /\ mine' = TRUE /\ UNCHANGED <<disk, asking, prompt, restored, seen, crossed>>
      /\ tasks' = [i \in Slots |-> [tasks[i] EXCEPT !.agreed = FALSE]]
  BY DEF Type
<1>2. DataOK' /\ CleanBufferIsBase' /\ BufferInv'
  BY <1>1 DEF IInv, DataOK, CleanBufferIsBase, BufferInv, asking
<1>3. AskOK'
  <2>1. ASSUME NEW i \in Slots PROVE tasks'[i] \in Task /\ tasks'[i].at = tasks[i].at
    <3>1. tasks[i] \in Task /\ tasks'[i] = [tasks[i] EXCEPT !.agreed = FALSE]
      BY <1>1 DEF IInv, AskOK
    <3>. QED
      BY <3>1 DEF Task
  <2>2. tasks' \in [Slots -> Task]
    BY <1>1, <2>1
  <2>. QED
    BY <1>1, <2>1, <2>2 DEF IInv, AskOK, asking
<1>4. TasksInv'
  BY <1>1 DEF IInv, AskOK, Task, TasksInv, TaskOK, Informed
<1>. QED
  BY <1>2, <1>3, <1>4 DEF IInv

LEMMA ClickSaveKeeps == ASSUME IInv, NEW i \in Slots, ClickSave(i) PROVE IInv'
<1> DEFINE t == [Idle EXCEPT !.kind = "save", !.at = "sent", !.file = ed.path,
                             !.text = ed.content, !.base = ed.base]
<1>1. Put(i, t) /\ ed' = [ed EXCEPT !.saving = TRUE] /\ dialog = 0 /\ prompt = 0 /\ ed.path # NoFile
      /\ UNCHANGED <<disk, asking, prompt, restored, mine, seen, crossed>>
  BY DEF ClickSave, FileShown, UserFree
<1>2. ed.path \in Files /\ ed.content \in Contents /\ (~crossed => ed.base \in seen[ed.path])
  BY <1>1 DEF IInv, DataOK, BufferInv
<1>3. t \in Task /\ t.at = "sent"
  BY <1>2 DEF IInv, DataOK, Idle, Task
<1>4. TaskOK(t) /\ Informed(t, seen', crossed')
  BY <1>1, <1>2 DEF Idle, TaskOK, Informed
<1>5. DataOK' /\ CleanBufferIsBase' /\ BufferInv'
  BY <1>1, SameBuffer DEF IInv, DataOK, asking
<1>6. 0 \notin Slots
  BY EditorConstants
<1>. QED
  BY <1>1, <1>3, <1>4, <1>5, <1>6, PutKeeps DEF asking

LEMMA ClickPromptKeeps ==
  ASSUME IInv, NEW i \in Slots, NEW kind \in {"create", "move", "rename", "mkdir"}, ClickPrompt(i, kind)
  PROVE  IInv'
<1> DEFINE t == [Idle EXCEPT !.kind = kind, !.at = "prompt", !.file = ed.path, !.dirty = Dirty]
<1>1. Put(i, t) /\ prompt' = i /\ dialog = 0 /\ prompt = 0 /\ (kind = "rename" => ed.path # NoFile)
      /\ UNCHANGED <<disk, ed, asking, restored, mine, seen, crossed>>
  BY DEF ClickPrompt, UserFree
<1>2. t \in Task /\ t.at = "prompt"
  BY DEF IInv, DataOK, Idle, Task, Dirty
<1>3. TaskOK(t) /\ Informed(t, seen', crossed')
  BY <1>1 DEF IInv, DataOK, Idle, TaskOK, Informed
<1>4. DataOK' /\ CleanBufferIsBase' /\ BufferInv'
  BY <1>1, UnchangedBuffer DEF IInv, DataOK, asking
<1>5. 0 \notin Slots
  BY EditorConstants
<1>6. \A j \in Slots : tasks[j].at \notin {"ask", "prompt"}
  BY <1>1, <1>5 DEF IInv, AskOK
<1>7. tasks' \in [Slots -> Task] /\ tasks'[i] = t /\ \A j \in Slots : j # i => tasks'[j] = tasks[j]
  BY <1>1, <1>2, PutTask DEF IInv
<1>8. AskOK'
  BY <1>1, <1>2, <1>5, <1>6, <1>7 DEF AskOK, asking
<1>9. TasksInv'
  <2>1. \A j \in Slots : tasks'[j] = t \/ tasks'[j] = Idle \/ tasks'[j] = tasks[j]
    BY <1>7
  <2>. QED
    BY <1>1, <1>3, <2>1, KeepTasks DEF IInv
<1>. QED
  BY <1>4, <1>8, <1>9 DEF IInv

LEMMA ClickDeleteKeeps == ASSUME IInv, NEW i \in Slots, NEW f \in Files, ClickDelete(i, f) PROVE IInv'
<1> DEFINE t == [Idle EXCEPT !.kind = IF ed.path = f THEN "delete" ELSE "remove", !.file = f]
<1>1. AskFor(i, t) /\ UNCHANGED <<ed, disk, prompt, restored, mine, seen, crossed>> /\ prompt = 0
  BY DEF ClickDelete, UserFree
<1>2. t \in Task /\ TaskOK([t EXCEPT !.at = "ask"]) /\ Informed([t EXCEPT !.at = "ask"], seen', crossed')
  BY DEF Idle, Task, TaskOK, Informed
<1>3. displaced' \in BOOLEAN
  BY <1>1, <1>2, AskTask DEF IInv
<1>4. DataOK' /\ CleanBufferIsBase' /\ BufferInv'
  BY <1>1, <1>3, UnchangedBuffer DEF IInv, DataOK
<1>. QED
  BY <1>1, <1>2, <1>4, AskKeeps

-----------------------------------------------------------------------------
(* Answers to questions and prompts.                                        *)

LEMMA AnswerPromptKeeps == ASSUME IInv, NEW f \in Files, AnswerPrompt(f) PROVE IInv'
<1> DEFINE i == prompt
           t == tasks[i]
<1>1. prompt # 0 /\ dialog = 0 /\ prompt' = 0 /\ UNCHANGED <<disk, restored, seen, crossed>>
  BY DEF AnswerPrompt
<1>2. i \in Slots /\ t \in Task /\ t.at = "prompt" /\ 0 \notin Slots /\ TaskOK(t)
  BY <1>1, EditorConstants DEF IInv, AskOK, TasksInv
<1>3. CASE Put(i, Idle) /\ UNCHANGED <<ed, asking, mine>>
  <2>1. DataOK' /\ CleanBufferIsBase' /\ BufferInv'
    BY <1>1, <1>3, UnchangedBuffer DEF IInv, DataOK, asking
  <2>2. Idle.at = "idle" /\ Informed(Idle, seen', crossed')
    BY DEF Idle, Informed
  <2>. QED
    BY <1>1, <1>2, <1>3, <2>1, <2>2, IdleOK, PutKeeps DEF asking
<1>4. CASE /\ t.kind \in {"create", "mkdir"}
           /\ Put(i, [t EXCEPT !.at = "sent", !.to = f,
                  !.text = IF t.kind = "create" THEN Template ELSE Blank])
           /\ UNCHANGED <<ed, asking, mine>>
  <2> DEFINE u == [t EXCEPT !.at = "sent", !.to = f,
                            !.text = IF t.kind = "create" THEN Template ELSE Blank]
  <2>1. DataOK' /\ CleanBufferIsBase' /\ BufferInv'
    BY <1>1, <1>4, UnchangedBuffer DEF IInv, DataOK, asking
  <2>2. u \in Task /\ u.at = "sent"
    BY <1>2, EditorConstants DEF Task
  <2>3. TaskOK(u) /\ Informed(u, seen', crossed')
    BY <1>2, <1>4, EditorConstants DEF Task, TaskOK, Informed
  <2>. QED
    BY <1>1, <1>2, <1>4, <2>1, <2>2, <2>3, PutKeeps DEF asking
<1>5. ASSUME NEW from \in Files \ {f}, t.kind = "move",
             Put(i, [t EXCEPT !.at = "sent", !.file = from, !.to = f]), UNCHANGED <<ed, asking, mine>>
      PROVE  IInv'
  <2> DEFINE u == [t EXCEPT !.at = "sent", !.file = from, !.to = f]
  <2>1. DataOK' /\ CleanBufferIsBase' /\ BufferInv'
    BY <1>1, <1>5, UnchangedBuffer DEF IInv, DataOK, asking
  <2>2. u \in Task /\ u.at = "sent"
    BY <1>2 DEF Task
  <2>3. TaskOK(u) /\ Informed(u, seen', crossed')
    BY <1>2, <1>5 DEF Task, TaskOK, Informed
  <2>. QED
    BY <1>1, <1>2, <1>5, <2>1, <2>2, <2>3, PutKeeps DEF asking
<1>6. CASE t.kind = "rename" /\ t.dirty /\ AskFor(i, [t EXCEPT !.to = f]) /\ UNCHANGED <<ed, mine>>
  <2> DEFINE u == [t EXCEPT !.to = f]
  <2>1. u \in Task
    BY <1>2 DEF Task
  <2>2. TaskOK([u EXCEPT !.at = "ask"]) /\ Informed([u EXCEPT !.at = "ask"], seen', crossed')
    BY <1>2, <1>6 DEF Task, TaskOK, Informed
  <2>3. displaced' \in BOOLEAN
    BY <1>2, <1>6, <2>1, AskTask DEF IInv
  <2>4. DataOK' /\ CleanBufferIsBase' /\ BufferInv'
    BY <1>1, <1>6, <2>3, UnchangedBuffer DEF IInv, DataOK
  <2>. QED
    BY <1>1, <1>2, <1>6, <2>1, <2>2, <2>4, AskKeeps
<1>7. CASE t.kind = "rename" /\ Reset /\ Put(i, [t EXCEPT !.at = "sent", !.to = f]) /\ UNCHANGED asking
  <2> DEFINE u == [t EXCEPT !.at = "sent", !.to = f]
  <2>1. DataOK' /\ CleanBufferIsBase' /\ BufferInv'
    BY <1>1, <1>7, ResetData DEF IInv, DataOK, asking
  <2>2. u \in Task /\ u.at = "sent"
    BY <1>2 DEF Task
  <2>3. TaskOK(u) /\ Informed(u, seen', crossed')
    BY <1>2, <1>7 DEF Task, TaskOK, Informed
  <2>. QED
    BY <1>1, <1>2, <1>7, <2>1, <2>2, <2>3, PutKeeps DEF asking
<1>. QED
  BY <1>3, <1>4, <1>5, <1>6, <1>7 DEF AnswerPrompt

LEMMA ConfirmYesKeeps == ASSUME IInv, ConfirmYes PROVE IInv'
<1> DEFINE i == dialog
           t == [tasks[i] EXCEPT !.agreed = TRUE, !.at = "sent"]
<1>1. dialog # 0 /\ dialog' = 0 /\ UNCHANGED <<displaced, disk, prompt, restored, seen, crossed>>
  BY DEF ConfirmYes
<1>2. i \in Slots /\ tasks[i] \in Task /\ tasks[i].at = "ask" /\ 0 \notin Slots /\ prompt # i
      /\ TaskOK(tasks[i]) /\ Informed(tasks[i], seen, crossed)
  BY <1>1, EditorConstants DEF IInv, AskOK, TasksInv
<1>3. t \in Task /\ t.at = "sent" /\ t.kind = tasks[i].kind
  BY <1>2 DEF Task
<1>4. t.kind # "close" => TaskOK(t) /\ Informed(t, seen', crossed')
  BY <1>1, <1>2 DEF Task, TaskOK, Informed
<1>5. CASE t.kind = "open"
  <2>1. Put(i, t) /\ ed' = [ed EXCEPT !.loading = TRUE] /\ UNCHANGED mine
    BY <1>5 DEF ConfirmYes
  <2>2. DataOK' /\ CleanBufferIsBase' /\ BufferInv'
    BY <1>1, <2>1, SameBuffer DEF IInv, DataOK
  <2>. QED
    BY <1>1, <1>2, <1>3, <1>4, <1>5, <2>1, <2>2, PutKeeps
<1>6. CASE t.kind = "close"
  <2>1. Put(i, Idle) /\ Reset
    BY <1>6 DEF ConfirmYes
  <2>2. DataOK' /\ CleanBufferIsBase' /\ BufferInv'
    BY <1>1, <2>1, ResetData DEF IInv, DataOK
  <2>3. Idle.at = "idle" /\ Informed(Idle, seen', crossed')
    BY DEF Idle, Informed
  <2>. QED
    BY <1>1, <1>2, <2>1, <2>2, <2>3, IdleOK, PutKeeps
<1>7. CASE t.kind = "rename"
  <2>1. Put(i, t) /\ Reset
    BY <1>7 DEF ConfirmYes
  <2>2. DataOK' /\ CleanBufferIsBase' /\ BufferInv'
    BY <1>1, <2>1, ResetData DEF IInv, DataOK
  <2>. QED
    BY <1>1, <1>2, <1>3, <1>4, <1>7, <2>1, <2>2, PutKeeps
<1>8. CASE t.kind = "save"
  <2> DEFINE u == [t EXCEPT !.kind = "overwrite", !.base = Blank]
  <2>1. Put(i, u) /\ UNCHANGED <<ed, mine>>
    BY <1>8 DEF ConfirmYes
  <2>2. DataOK' /\ CleanBufferIsBase' /\ BufferInv'
    BY <1>1, <2>1, UnchangedBuffer DEF IInv, DataOK
  <2>3. u \in Task /\ u.at = "sent"
    BY <1>3 DEF Task
  <2>4. TaskOK(u) /\ Informed(u, seen', crossed')
    BY <1>3, <1>4, <1>8 DEF Task, TaskOK, Informed
  <2>. QED
    BY <1>1, <1>2, <2>1, <2>2, <2>3, <2>4, PutKeeps
<1>9. CASE t.kind \notin {"open", "close", "rename", "save"}
  <2>1. Put(i, t) /\ UNCHANGED <<ed, mine>>
    BY <1>9 DEF ConfirmYes
  <2>2. DataOK' /\ CleanBufferIsBase' /\ BufferInv'
    BY <1>1, <2>1, UnchangedBuffer DEF IInv, DataOK
  <2>. QED
    BY <1>1, <1>2, <1>3, <1>4, <1>9, <2>1, <2>2, PutKeeps
<1>. QED
  BY <1>5, <1>6, <1>7, <1>8, <1>9

LEMMA ConfirmNoKeeps == ASSUME IInv, ConfirmNo PROVE IInv'
<1>1. /\ dialog # 0 /\ dialog' = 0 /\ Put(dialog, Idle)
      /\ ed' = [ed EXCEPT !.saving = ed.saving /\ tasks[dialog].kind # "save"]
      /\ UNCHANGED <<displaced, disk, prompt, restored, mine, seen, crossed>>
  BY DEF ConfirmNo
<1>2. dialog \in Slots /\ tasks[dialog].at = "ask" /\ prompt # dialog
  BY <1>1, EditorConstants DEF IInv, AskOK
<1>3. DataOK' /\ CleanBufferIsBase' /\ BufferInv'
  <2>1. (ed.saving /\ tasks[dialog].kind # "save") \in BOOLEAN /\ ed.loading \in BOOLEAN
        /\ [ed EXCEPT !.saving = ed.saving /\ tasks[dialog].kind # "save"]
             = [ed EXCEPT !.loading = ed.loading, !.saving = ed.saving /\ tasks[dialog].kind # "save"]
    BY DEF IInv, DataOK
  <2>. QED
    BY <1>1, <2>1, SameBuffer DEF IInv, DataOK
<1>4. Idle.at = "idle" /\ Informed(Idle, seen', crossed')
  BY DEF Idle, Informed
<1>. QED
  BY <1>1, <1>2, <1>3, <1>4, IdleOK, PutKeeps

-----------------------------------------------------------------------------
(* The server.                                                              *)

LEMMA ServeKeeps == ASSUME IInv, NEW i \in Slots, Serve(i) PROVE IInv'
<1> DEFINE t == tasks[i]
<1>1. t.at = "sent" /\ UNCHANGED <<ed, asking, prompt, restored, mine, crossed>>
  BY DEF Serve
<1>2. t \in Task /\ TaskOK(t) /\ Informed(t, seen, crossed) /\ dialog # i /\ prompt # i
  BY <1>1 DEF IInv, AskOK, TasksInv
<1>3. ASSUME NEW u \in Task, Put(i, u), u.at = "back", TaskOK(u), Informed(u, seen', crossed'),
             disk' \in [Files -> Contents \cup {Absent}], seen' \in [Files -> SUBSET Contents],
             \A f \in Files : seen[f] \subseteq seen'[f]
      PROVE  IInv'
  <2>1. DataOK' /\ CleanBufferIsBase' /\ BufferInv'
    BY <1>1, <1>3, UnchangedBuffer DEF IInv, DataOK, asking
  <2>. QED
    BY <1>1, <1>2, <1>3, <2>1, PutKeeps DEF asking
<1>4. disk \in [Files -> Contents \cup {Absent}] /\ seen \in [Files -> SUBSET Contents]
  BY DEF IInv, DataOK
<1>5. ASSUME NEW res \in {"ok", "failed", "conflict"}, Respond(i, res), t.kind \notin {"open", "save", "overwrite"},
             disk' \in [Files -> Contents \cup {Absent}], seen' \in [Files -> SUBSET Contents],
             \A f \in Files : seen[f] \subseteq seen'[f]
      PROVE  IInv'
  <2> DEFINE u == [t EXCEPT !.at = "back", !.res = res]
  <2>1. u \in Task /\ u.at = "back" /\ Put(i, u)
    BY <1>2, <1>5 DEF Task, Respond
  <2>2. TaskOK(u) /\ Informed(u, seen', crossed')
    BY <1>1, <1>2, <1>5 DEF Task, TaskOK, Informed
  <2>. QED
    BY <1>3, <1>5, <2>1, <2>2
<1>6. ASSUME NEW res \in {"failed", "conflict"}, Respond(i, res), UNCHANGED <<disk, seen>>
      PROVE  IInv'
  <2> DEFINE u == [t EXCEPT !.at = "back", !.res = res]
  <2>1. u \in Task /\ u.at = "back" /\ Put(i, u)
    BY <1>2, <1>6 DEF Task, Respond
  <2>2. TaskOK(u) /\ Informed(u, seen', crossed')
    BY <1>1, <1>2, <1>6 DEF Task, TaskOK, Informed
  <2>. QED
    BY <1>3, <1>4, <1>6, <2>1, <2>2
<1>7. CASE t.kind = "open" /\ Reads(i, t)
  <2>1. CASE /\ disk[t.file] # Absent
             /\ Put(i, [t EXCEPT !.at = "back", !.res = "ok", !.text = disk[t.file]])
    <3> DEFINE u == [t EXCEPT !.at = "back", !.res = "ok", !.text = disk[t.file]]
    <3>1. disk[t.file] \in Contents
      BY <1>2, <1>4, <1>7, <2>1 DEF TaskOK
    <3>2. u \in Task /\ u.at = "back"
      BY <1>2, <3>1 DEF Task
    <3>3. TaskOK(u) /\ Informed(u, seen', crossed')
      BY <1>2, <1>7, <3>1 DEF Task, TaskOK, Informed
    <3>. QED
      BY <1>3, <1>4, <1>7, <2>1, <3>2, <3>3 DEF Reads
  <2>. QED
    BY <1>6, <1>7, <2>1 DEF Reads
<1>8. ASSUME NEW f \in Files, Writes(i, t, f),
             (t.kind \in {"save", "overwrite"} /\ f = t.file) \/ (t.kind = "create" /\ f = t.to)
      PROVE  IInv'
  <2>1. CASE (\E res \in {"failed", "conflict"} : Respond(i, res)) /\ UNCHANGED <<disk, seen>>
    BY <1>6, <2>1
  <2>2. CASE /\ disk' = [disk EXCEPT ![f] = t.text]
             /\ seen' = [seen EXCEPT ![f] = @ \cup {t.text}]
             /\ \E res \in {"ok", "failed"} : Respond(i, res)
    <3>1. t.text \in Contents
      BY <1>1, <1>2, <1>8 DEF TaskOK
    <3>2. /\ disk' \in [Files -> Contents \cup {Absent}] /\ seen' \in [Files -> SUBSET Contents]
          /\ \A g \in Files : seen[g] \subseteq seen'[g]
          /\ t.text \in seen'[f]
      BY <1>4, <2>2, <3>1
    <3>3. PICK res \in {"ok", "failed"} : Respond(i, res)
      BY <2>2
    <3> DEFINE u == [t EXCEPT !.at = "back", !.res = res]
    <3>4. u \in Task /\ u.at = "back" /\ Put(i, u)
      BY <1>2, <3>3 DEF Task, Respond
    <3>5. TaskOK(u) /\ Informed(u, seen', crossed')
      BY <1>1, <1>2, <1>8, <3>2 DEF Task, TaskOK, Informed
    <3>. QED
      BY <1>3, <3>2, <3>4, <3>5
  <2>. QED
    BY <1>8, <2>1, <2>2 DEF Writes
<1>9. CASE t.kind \in {"rename", "move"} /\ Moves(i, t)
  <2>1. t.file \in Files /\ t.to \in Files
    BY <1>1, <1>2, <1>9 DEF TaskOK
  <2>2. CASE disk[t.file] # Absent /\ disk' = [disk EXCEPT ![t.to] = disk[t.file], ![t.file] = Absent]
             /\ \E res \in {"ok", "failed"} : Respond(i, res)
    <3>1. disk' \in [Files -> Contents \cup {Absent}]
      BY <1>4, <2>1, <2>2
    <3>2. UNCHANGED seen
      BY <1>9 DEF Moves
    <3>. QED
      BY <1>4, <1>5, <1>9, <2>2, <3>1, <3>2
  <2>. QED
    BY <1>6, <1>9, <2>2 DEF Moves
<1>10. CASE t.kind \in {"delete", "remove"} /\ Removes(i, t)
  <2>1. CASE disk' = [disk EXCEPT ![t.file] = Absent] /\ \E res \in {"ok", "failed"} : Respond(i, res)
    <3>1. disk' \in [Files -> Contents \cup {Absent}]
      BY <1>4, <2>1
    <3>2. UNCHANGED seen
      BY <1>10 DEF Removes
    <3>. QED
      BY <1>4, <1>5, <1>10, <2>1, <3>1, <3>2
  <2>. QED
    BY <1>6, <1>10, <2>1 DEF Removes
<1>11. CASE t.kind = "mkdir" /\ UNCHANGED <<disk, seen>> /\ \E res \in {"ok", "failed"} : Respond(i, res)
  BY <1>4, <1>5, <1>11
<1>12. CASE t.kind \in {"save", "overwrite"} /\ Writes(i, t, t.file)
  BY <1>2, <1>8, <1>12 DEF TaskOK
<1>13. CASE t.kind = "create" /\ Writes(i, t, t.to)
  BY <1>1, <1>2, <1>8, <1>13 DEF TaskOK
<1>. QED
  BY <1>7, <1>9, <1>10, <1>11, <1>12, <1>13 DEF Serve

LEMMA OtherKeeps ==
  ASSUME IInv, NEW f \in Files, NEW c \in Contents \cup {Absent}, OtherChanges(f, c) PROVE IInv'
<1>1. disk' = [disk EXCEPT ![f] = c] /\ UNCHANGED <<ed, tasks, asking, prompt, restored, mine, seen, crossed>>
  BY DEF OtherChanges
<1>2. DataOK' /\ CleanBufferIsBase' /\ BufferInv'
  BY <1>1 DEF IInv, DataOK, CleanBufferIsBase, BufferInv, asking
<1>3. AskOK' /\ TasksInv'
  BY <1>1 DEF IInv, AskOK, TasksInv, asking
<1>. QED
  BY <1>2, <1>3 DEF IInv

-----------------------------------------------------------------------------
(* What the handlers do with an answer.                                     *)

LEMMA DeliverKeeps == ASSUME IInv, NEW i \in Slots, Deliver(i) PROVE IInv'
<1> DEFINE t == tasks[i]
<1>1. t.at = "back" /\ crossed' = (crossed \/ LeftBehind(t)) /\ UNCHANGED <<disk, prompt, restored>>
  BY DEF Deliver
<1>2. t \in Task /\ TaskOK(t) /\ Informed(t, seen, crossed) /\ dialog # i /\ prompt # i
  BY <1>1 DEF IInv, AskOK, TasksInv
<1>3. crossed' \in BOOLEAN /\ (crossed => crossed')
  BY <1>1 DEF IInv, DataOK
<1>4. disk \in [Files -> Contents \cup {Absent}] /\ seen \in [Files -> SUBSET Contents]
      /\ {restored, mine, crossed, displaced} \subseteq BOOLEAN
  BY DEF IInv, DataOK
<1>5. Idle.at = "idle" /\ Informed(Idle, seen', crossed')
  BY DEF Idle, Informed
<1>6. ASSUME Put(i, Idle), UNCHANGED asking, \A f \in Files : seen[f] \subseteq seen'[f],
             DataOK', CleanBufferIsBase', BufferInv'
      PROVE  IInv'
  BY <1>1, <1>2, <1>3, <1>5, <1>6, IdleOK, PutKeeps DEF asking
<1>7. ASSUME Put(i, Idle), UNCHANGED <<asking, seen>>, Reset
      PROVE  IInv'
  <2>1. DataOK' /\ CleanBufferIsBase' /\ BufferInv'
    BY <1>1, <1>3, <1>4, <1>7, ResetData DEF asking
  <2>. QED
    BY <1>6, <1>7, <2>1
<1>8. ASSUME Put(i, Idle), UNCHANGED <<asking, seen, ed, mine>>
      PROVE  IInv'
  <2>1. DataOK' /\ CleanBufferIsBase' /\ BufferInv'
    BY <1>1, <1>3, <1>4, <1>8, UnchangedBuffer DEF asking
  <2>. QED
    BY <1>6, <1>8, <2>1
<1>9. CASE t.kind = "open" /\ OpenAnswered(i, t)
  <2>1. Put(i, Idle) /\ UNCHANGED asking
    BY <1>9 DEF OpenAnswered
  <2>2. CASE t.res = "ok"
    <3>1. t.file \in Files /\ t.text \in Contents /\ t.ro \in BOOLEAN /\ ed.saving \in BOOLEAN
      BY <1>1, <1>2, <1>9, <2>2 DEF TaskOK, Task, IInv, DataOK
    <3>2. /\ ed' = [path |-> t.file, content |-> t.text, saved |-> t.text,
                    base |-> t.text, readOnly |-> t.ro, loading |-> FALSE, saving |-> ed.saving]
          /\ mine' = FALSE /\ seen' = [seen EXCEPT ![t.file] = @ \cup {t.text}]
      BY <1>9, <2>2 DEF OpenAnswered
    <3>3. DataOK' /\ CleanBufferIsBase' /\ BufferInv' /\ \A f \in Files : seen[f] \subseteq seen'[f]
      BY <1>1, <1>3, <1>4, <2>1, <3>1, <3>2 DEF DataOK, CleanBufferIsBase, BufferInv, asking
    <3>. QED
      BY <1>6, <2>1, <3>3
  <2>3. CASE t.res # "ok"
    <3>1. ed' = [ed EXCEPT !.loading = FALSE] /\ UNCHANGED <<mine, seen>>
      BY <1>9, <2>3 DEF OpenAnswered
    <3>2. ed.saving \in BOOLEAN /\ ed' = [ed EXCEPT !.loading = FALSE, !.saving = ed.saving]
      BY <3>1 DEF IInv, DataOK
    <3>3. DataOK' /\ CleanBufferIsBase' /\ BufferInv'
      BY <1>1, <1>3, <1>4, <2>1, <3>1, <3>2, SameBuffer DEF asking
    <3>. QED
      BY <1>6, <2>1, <3>1, <3>3
  <2>. QED
    BY <2>2, <2>3
<1>10. CASE t.kind \in {"save", "overwrite"} /\ SaveAnswered(i, t)
  <2>1. UNCHANGED seen
    BY <1>10 DEF SaveAnswered
  <2>2. CASE t.res = "conflict"
    <3>1. AskFor(i, t) /\ UNCHANGED <<ed, mine>>
      BY <1>10, <2>2 DEF SaveAnswered
    <3>2. displaced' \in BOOLEAN
      BY <1>2, <3>1, AskTask DEF IInv
    <3>3. DataOK' /\ CleanBufferIsBase' /\ BufferInv'
      BY <1>1, <1>3, <1>4, <2>1, <3>1, <3>2, UnchangedBuffer
    <3>4. TaskOK([t EXCEPT !.at = "ask"]) /\ Informed([t EXCEPT !.at = "ask"], seen', crossed')
      BY <1>2, <1>3, <1>10, <2>1 DEF Task, TaskOK, Informed
    <3>. QED
      BY <1>1, <1>2, <1>3, <2>1, <3>1, <3>3, <3>4, AskKeeps
  <2>3. CASE t.res = "ok"
    <3>1. /\ Put(i, Idle) /\ UNCHANGED asking
          /\ ed' = [ed EXCEPT !.saved = t.text, !.base = t.text, !.saving = FALSE]
          /\ mine' = (mine /\ ~(ed.path = t.file /\ ed.content = t.text))
      BY <1>10, <2>3 DEF SaveAnswered
    <3>2. t.text \in Contents /\ t.text \in seen[t.file] /\ (~crossed' => ed.path = t.file)
      BY <1>1, <1>2, <1>10, <2>3 DEF TaskOK, Informed, LeftBehind
    <3>3. mine' \in BOOLEAN
      BY <1>4, <3>1
    <3>4. DataOK'
      BY <1>1, <1>3, <1>4, <2>1, <3>1, <3>2, <3>3 DEF IInv, DataOK, asking
    <3>5. CleanBufferIsBase' /\ BufferInv'
      BY <1>3, <2>1, <3>1, <3>2 DEF IInv, DataOK, CleanBufferIsBase, BufferInv
    <3>. QED
      BY <1>6, <2>1, <3>1, <3>4, <3>5
  <2>4. CASE t.res \notin {"conflict", "ok"}
    <3>1. Put(i, Idle) /\ UNCHANGED <<asking, mine>> /\ ed' = [ed EXCEPT !.saving = FALSE]
      BY <1>10, <2>4 DEF SaveAnswered
    <3>2. ed.loading \in BOOLEAN /\ ed' = [ed EXCEPT !.loading = ed.loading, !.saving = FALSE]
      BY <3>1 DEF IInv, DataOK
    <3>3. DataOK' /\ CleanBufferIsBase' /\ BufferInv'
      BY <1>1, <1>3, <1>4, <2>1, <3>1, <3>2, SameBuffer DEF asking
    <3>. QED
      BY <1>6, <2>1, <3>1, <3>3
  <2>. QED
    BY <2>2, <2>3, <2>4
<1>11. ASSUME NEW f \in Files, UNCHANGED <<mine, seen>>, Opening(i, OpenTask(f, FALSE, t.dirty))
       PROVE  IInv'
  <2>1. t.dirty \in BOOLEAN
    BY <1>2 DEF Task
  <2>. QED
    BY <1>1, <1>3, <1>4, <1>11, <2>1, OpeningKeeps
<1>12. CASE t.kind = "create" /\ CreateAnswered(i, t)
  BY <1>1, <1>2, <1>8, <1>11, <1>12 DEF CreateAnswered, TaskOK
<1>13. CASE t.kind = "rename" /\ RenameAnswered(i, t)
  BY <1>1, <1>2, <1>11, <1>13 DEF RenameAnswered, TaskOK
<1>14. CASE t.kind = "mkdir" /\ MkdirAnswered(i, t)
  <2>1. CASE AskFor(i, [t EXCEPT !.kind = "close"]) /\ UNCHANGED <<ed, mine, seen>>
    <3> DEFINE u == [t EXCEPT !.kind = "close"]
    <3>1. u \in Task /\ TaskOK([u EXCEPT !.at = "ask"]) /\ Informed([u EXCEPT !.at = "ask"], seen', crossed')
      BY <1>2 DEF Task, TaskOK, Informed
    <3>2. displaced' \in BOOLEAN
      BY <2>1, <3>1, AskTask DEF IInv
    <3>3. DataOK' /\ CleanBufferIsBase' /\ BufferInv'
      BY <1>1, <1>3, <1>4, <2>1, <3>2, UnchangedBuffer
    <3>. QED
      BY <1>1, <1>2, <1>3, <2>1, <3>1, <3>3, AskKeeps
  <2>. QED
    BY <1>7, <1>8, <1>14, <2>1 DEF MkdirAnswered
<1>15. CASE t.kind \in {"delete", "remove"} /\ DeleteAnswered(i, t)
  BY <1>7, <1>8, <1>15 DEF DeleteAnswered
<1>16. CASE t.kind = "move" /\ Put(i, Idle) /\ UNCHANGED <<ed, mine, asking, seen>>
  BY <1>8, <1>16
<1>. QED
  BY <1>9, <1>10, <1>12, <1>13, <1>14, <1>15, <1>16 DEF Deliver

-----------------------------------------------------------------------------
(* Every step of the user, of the handlers, of the server and of other      *)
(* clients keeps the inductive invariant.                                   *)
LEMMA StepInv == IInv /\ [Next]_vars => IInv'
<1> SUFFICES ASSUME IInv, [Next]_vars PROVE IInv'
  OBVIOUS
<1>1. ASSUME NEW i \in Slots, NEW f \in Files, ClickEntry(i, f) \/ RestoreLink(i, f) PROVE IInv'
  <2>1. Dirty \in BOOLEAN /\ (f \in External) \in BOOLEAN
    BY DEF Dirty
  <2>2. CASE ClickEntry(i, f)
    <3>1. /\ tasks[i].at = "idle" /\ UNCHANGED <<disk, prompt, restored, mine, seen, crossed>>
          /\ Opening(i, OpenTask(f, f \in External, Dirty))
      BY <2>2 DEF ClickEntry, Free
    <3>2. restored' \in BOOLEAN /\ crossed' \in BOOLEAN /\ (crossed => crossed')
      BY <3>1 DEF IInv, DataOK
    <3>. QED
      BY <2>1, <3>1, <3>2, OpeningKeeps
  <2>3. CASE RestoreLink(i, f)
    <3>1. /\ tasks[i].at = "idle" /\ restored' = TRUE /\ UNCHANGED <<disk, prompt, mine, seen, crossed>>
          /\ Opening(i, OpenTask(f, FALSE, Dirty))
      BY <2>3 DEF RestoreLink, Free
    <3>2. restored' \in BOOLEAN /\ crossed' \in BOOLEAN /\ (crossed => crossed')
      BY <3>1 DEF IInv, DataOK
    <3>. QED
      BY <2>1, <3>1, <3>2, OpeningKeeps
  <2>. QED
    BY <1>1, <2>2, <2>3
<1>2. CASE UNCHANGED vars
  BY <1>2 DEF vars, asking, IInv, DataOK, AskOK, CleanBufferIsBase, BufferInv, TasksInv
<1>. QED
  BY <1>1, <1>2, ClickDeleteKeeps, ClickCloseKeeps, ClickSaveKeeps, ServeKeeps, DeliverKeeps,
     ClickPromptKeeps, TypeKeeps, AnswerPromptKeeps, ConfirmYesKeeps, ConfirmNoKeeps, OtherKeeps
  DEF Next, Answer

LEMMA AlwaysInv == Spec => []IInv
BY InitInv, StepInv, PTL DEF Spec

(* The hook, its handlers and the question on screen are always well typed, *)
(* and a question belongs to the one handler that waits for it.             *)
THEOREM TypeCorrect == Spec => []TypeOK
<1>1. IInv => TypeOK
  BY DEF IInv, DataOK, AskOK, TypeOK
<1>. QED
  BY <1>1, AlwaysInv, PTL

(* The hash that the next save sends is that of the text which decides      *)
(* whether the buffer is dirty, in whatever order answers arrive.           *)
THEOREM BaseIsSaved == Spec => []CleanBufferIsBase
<1>1. IInv => CleanBufferIsBase
  BY DEF IInv
<1>. QED
  BY <1>1, AlwaysInv, PTL

(* A save that carries a hash overwrites only what was on this screen.      *)
THEOREM SavesOverSeen == Spec => SavesAreInformed
<1>1. ASSUME IInv, Next, NEW i \in Slots, ~crossed,
             tasks[i].kind = "save", tasks[i].at = "sent", tasks'[i].at = "back",
             NEW f \in Files, disk'[f] # disk[f]
      PROVE  disk[f] \in seen[f]
  <2>1. CASE Serve(i)
    <3> DEFINE t == tasks[i]
    <3>1. Writes(i, t, t.file)
      BY <1>1, <2>1 DEF Serve
    <3>2. t \in Task /\ TaskOK(t) /\ Informed(t, seen, crossed) /\ disk \in [Files -> Contents \cup {Absent}]
          /\ seen \in [Files -> SUBSET Contents]
      BY <1>1 DEF IInv, AskOK, TasksInv, DataOK
    <3>3. t.file \in Files /\ t.base \in seen[t.file] /\ t.base # Blank
      BY <1>1, <3>2, EditorConstants DEF TaskOK, Informed
    <3>4. disk[t.file] = t.base /\ disk' = [disk EXCEPT ![t.file] = t.text]
      BY <1>1, <3>1, <3>3 DEF Writes
    <3>. QED
      BY <1>1, <3>2, <3>3, <3>4
  <2>2. ASSUME NEW j \in Slots, j # i, Serve(j) PROVE FALSE
    <3>1. \E u : Put(j, u)
      BY <2>2 DEF Serve, Reads, Writes, Moves, Removes, Respond
    <3>2. tasks'[i] = tasks[i]
      BY <1>1, <2>2, <3>1 DEF Put, IInv, AskOK
    <3>. QED
      BY <1>1, <3>2
  <2>3. ASSUME NEW g \in Files, NEW c \in Contents \cup {Absent}, OtherChanges(g, c) PROVE FALSE
    BY <1>1, <2>3 DEF OtherChanges
  <2>4. CASE UNCHANGED disk
    BY <1>1, <2>4
  <2>. QED
    BY <1>1, <2>1, <2>2, <2>3, <2>4 DEF Next, Answer, ClickEntry, RestoreLink, ClickDelete, ClickClose,
       ClickSave, Deliver, ClickPrompt, Type, AnswerPrompt, ConfirmYes, ConfirmNo
<1>2. IInv /\ [Next]_vars =>
        [\A i \in Slots :
           /\ ~crossed
           /\ tasks[i].kind = "save" /\ tasks[i].at = "sent" /\ tasks'[i].at = "back"
           => \A f \in Files : disk'[f] # disk[f] => disk[f] \in seen[f]]_vars
  BY <1>1
<1>. QED
  BY <1>2, AlwaysInv, PTL DEF Spec, SavesAreInformed
=============================================================================
