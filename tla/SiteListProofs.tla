--------------------------- MODULE SiteListProofs ---------------------------
(***************************************************************************)
(* Proofs about SiteList, for any finite set of names, any limit and any   *)
(* number of actions under way: what is selected was selected by the       *)
(* visitor under the filters shown, and picks are not lost.                *)
(***************************************************************************)
EXTENDS SiteList, FiniteSetTheorems, TLAPS

Scopes == Filters \X (Names \cup {NoName})
Selections == [scope : Scopes, keys : SUBSET Names]

Job == [kind : {"none", "action", "prompt", "tags"}, names : SUBSET Names,
        scope : Scopes \cup {Null}, goto : Names \cup {NoName, Null}, at : {"idle", "ask", "sent"}]

(* An action that goes back to the list was begun in an editor; an action   *)
(* and an applied tag dialog have the scope they were begun in.             *)
JobOK(job) ==
  /\ job.kind = "none" => job.at = "idle"
  /\ job.kind = "prompt" => job.scope = Null
  /\ job.kind = "tags" => job.goto = Null
  /\ job.kind \in {"action", "tags"} /\ job.at = "sent" => job.scope \in Scopes
  /\ job.kind = "action" =>
       /\ job.scope \in Scopes
       /\ job.goto = Null \/ (job.goto = NoName /\ job.scope[2] # NoName)

TypeInv ==
  /\ filter \in Filters /\ editing \in Names \cup {NoName}
  /\ sel \in Selections /\ picked \in SUBSET Names
  /\ jobs \in [Slots -> Job]

JobInv == \A j \in Slots : JobOK(jobs[j])

(* The effect that is due is that of the state and of the list as they are: *)
(* it is due whenever the state is of another scope or has keys that are    *)
(* gone, and it sets the state to what is selected.                         *)
DueInv ==
  due = IF sel.scope # Scope \/ ~(sel.keys \subseteq Visible)
          THEN [scope |-> Scope, keys |-> Selected] ELSE Null

IInv == TypeInv /\ JobInv /\ DueInv /\ SelectionIsTheVisitors

-----------------------------------------------------------------------------
LEMMA NullFacts ==
  /\ Null \notin Names \cup {NoName} /\ Null \notin Scopes /\ Null \notin Selections
  /\ NoName \notin Names
BY NullIsNothing, SiteListConstants DEF Scopes, Selections

LEMMA RowFacts == Visible \subseteq Names /\ Selected \subseteq Visible /\ Selected \subseteq sel.keys
BY DEF Visible, Exists, Selected

LEMMA ScopeType == TypeInv => Scope \in Scopes
BY DEF TypeInv, Scope, Scopes

(* Before its effect runs a render shows what the effect will leave; without*)
(* one, the state is what is selected.                                      *)
LEMMA DueFacts ==
  ASSUME IInv
  PROVE  /\ due # Null => due = [scope |-> Scope, keys |-> Selected] /\ due \in Selections
         /\ due = Null => sel.scope = Scope /\ sel.keys = Selected /\ Selected \subseteq Visible
<1>1. [scope |-> Scope, keys |-> Selected] \in Selections
  BY ScopeType, RowFacts DEF IInv, Selections
<1>2. [scope |-> Scope, keys |-> Selected] # Null
  BY <1>1, NullFacts
<1>3. CASE sel.scope # Scope \/ ~(sel.keys \subseteq Visible)
  BY <1>1, <1>2, <1>3 DEF IInv, DueInv
<1>4. CASE sel.scope = Scope /\ sel.keys \subseteq Visible
  BY <1>4, RowFacts DEF IInv, DueInv, Selected
<1>. QED
  BY <1>3, <1>4

(* A subset of what is selected is not more than a batch either.            *)
LEMMA FewerSelected ==
  ASSUME SelectionIsTheVisitors, NEW S \in SUBSET Selected
  PROVE  Cardinality(S) <= Limit
<1>1. IsFiniteSet(Selected)
  BY RowFacts, SiteListConstants, FS_Subset
<1>2. Cardinality(S) <= Cardinality(Selected) /\ Cardinality(S) \in Nat /\ Cardinality(Selected) \in Nat
  BY <1>1, FS_Subset, FS_CardinalityType
<1>. QED
  BY <1>2, SiteListConstants DEF SelectionIsTheVisitors

(* A render does not add to the selection, unless it is of another scope:   *)
(* then nothing is selected.                                                *)
LEMMA RenderShows ==
  ASSUME IInv, NEW state \in Selections, Render(state),
         Scope' = Scope => due # Null \/ state.scope # Scope \/ state.keys \subseteq sel.keys,
         Scope' # Scope => due # Null \/ state.scope # Scope'
  PROVE  /\ sel' \in Selections /\ DueInv'
         /\ Scope' = Scope => Selected' \subseteq Selected
         /\ Scope' # Scope => Selected' = {}
<1>1. sel' = IF due = Null THEN state ELSE due
  BY DEF Render
<1>2. sel' \in Selections
  BY <1>1, DueFacts
<1>3. DueInv'
  BY DEF Render, DueInv
<1>4. CASE due = Null
  BY <1>1, <1>2, <1>3, <1>4, DueFacts DEF Selected
<1>5. CASE due # Null
  <2>1. sel'.scope = Scope /\ sel'.keys = Selected
    BY <1>1, <1>5, DueFacts
  <2>. QED
    BY <1>2, <1>3, <2>1 DEF Selected
<1>. QED
  BY <1>2, <1>3, <1>4, <1>5

LEMMA RenderKeeps ==
  ASSUME IInv, NEW state \in Selections, Render(state), Scope' \in Scopes,
         Scope' = Scope => picked' = picked /\
                           (due # Null \/ state.scope # Scope \/ state.keys \subseteq sel.keys),
         Scope' # Scope => picked' = {} /\ (due # Null \/ state.scope # Scope'),
         jobs' \in [Slots -> Job], JobInv'
  PROVE  IInv'
<1>1. filter' \in Filters /\ editing' \in Names \cup {NoName}
  BY DEF Scope, Scopes
<1>2. sel' \in Selections /\ DueInv' /\ (Scope' = Scope => Selected' \subseteq Selected)
      /\ (Scope' # Scope => Selected' = {})
  BY RenderShows
<1>3. picked' \in SUBSET Names
  BY DEF IInv, TypeInv
<1>4. Selected' \subseteq picked' \cap Visible'
  <2>1. Selected' \subseteq Visible'
    BY DEF Selected
  <2>. QED
    BY <1>2, <2>1 DEF IInv, SelectionIsTheVisitors
<1>5. Cardinality(Selected') <= Limit
  <2>1. Selected' \in SUBSET Selected
    BY <1>2
  <2>. QED
    BY <2>1, FewerSelected DEF IInv
<1>. QED
  BY <1>1, <1>2, <1>3, <1>4, <1>5 DEF IInv, TypeInv, SelectionIsTheVisitors

-----------------------------------------------------------------------------
(* Every initial state satisfies the inductive invariant.                   *)
LEMMA InitInv == Init => IInv
<1> SUFFICES ASSUME Init PROVE IInv
  OBVIOUS
<1>1. TypeInv /\ JobInv
  <2>1. NoJob \in Job /\ JobOK(NoJob)
    BY DEF NoJob, Job, JobOK
  <2>2. Scope \in Scopes
    BY DEF Init, Scope, Scopes
  <2>. QED
    BY <2>1, <2>2 DEF Init, TypeInv, JobInv, Selections
<1>2. Selected = {} /\ sel.scope = Scope /\ sel.keys = {}
  BY DEF Init, Selected
<1>3. DueInv
  BY <1>2 DEF Init, DueInv
<1>4. SelectionIsTheVisitors
  BY <1>2, FS_EmptySet, SiteListConstants DEF SelectionIsTheVisitors
<1>. QED
  BY <1>1, <1>3, <1>4 DEF IInv

(* The effect leaves what the render showed.                                *)
LEMMA EffectKeeps == ASSUME IInv, Effect PROVE IInv' /\ Selected' = Selected
<1>1. sel' = [scope |-> Scope, keys |-> Selected] /\ sel' \in Selections /\ due' = Null
      /\ UNCHANGED <<sites, filter, editing, jobs, picked>>
  BY DueFacts DEF Effect
<1>2. Scope' = Scope /\ Visible' = Visible
  BY <1>1 DEF Scope, Visible, Exists
<1>3. Selected' = Selected
  BY <1>1, <1>2, RowFacts DEF Selected
<1>4. DueInv'
  BY <1>1, <1>2, <1>3, RowFacts DEF DueInv
<1>. QED
  BY <1>1, <1>2, <1>3, <1>4 DEF IInv, TypeInv, JobInv, SelectionIsTheVisitors

(* A click sets the selection to what is picked: rows of the list, at most  *)
(* a batch of them.                                                         *)
LEMMA PickKeeps ==
  ASSUME IInv, due = Null, picked' \in SUBSET Visible, Cardinality(picked') <= Limit,
         sel' = [scope |-> Scope, keys |-> picked'], UNCHANGED <<sites, filter, editing, due, jobs>>
  PROVE  IInv'
<1>1. Scope' = Scope /\ Visible' = Visible /\ Scope \in Scopes
  BY ScopeType DEF Scope, Visible, Exists, IInv
<1>2. Selected' = picked'
  BY <1>1 DEF Selected
<1>3. DueInv'
  BY <1>1 DEF DueInv
<1>. QED
  BY <1>1, <1>2, <1>3, RowFacts DEF IInv, TypeInv, JobInv, Selections, SelectionIsTheVisitors

LEMMA ToggleKeeps == ASSUME IInv, NEW rows \in SUBSET Names, Toggle(rows) PROVE IInv'
<1>1. due = Null /\ rows \subseteq Visible /\ sel' = [scope |-> Scope, keys |-> picked']
      /\ UNCHANGED <<sites, filter, editing, due, jobs>>
  BY DEF Toggle, OnList, Click
<1>2. CASE rows \subseteq Selected
  <2>1. picked' = Selected \ rows
    BY <1>2 DEF Toggle
  <2>2. picked' \in SUBSET Visible /\ Cardinality(picked') <= Limit
    BY <2>1, RowFacts, FewerSelected DEF IInv
  <2>. QED
    BY <1>1, <2>2, PickKeeps
<1>3. CASE ~(rows \subseteq Selected)
  <2>1. PICK add \in SUBSET (rows \ Selected) :
          /\ IF Cardinality(Selected \cup rows) <= Limit
               THEN add = rows \ Selected
               ELSE Cardinality(add) = Limit - Cardinality(Selected)
          /\ picked' = Selected \cup add
    BY <1>3 DEF Toggle
  <2>2. picked' \in SUBSET Visible
    BY <1>1, <2>1, RowFacts
  <2>3. IsFiniteSet(Selected) /\ IsFiniteSet(add)
    BY <1>1, <2>1, RowFacts, SiteListConstants, FS_Subset
  <2>4. Cardinality(picked') <= Limit
    <3>1. CASE Cardinality(Selected \cup rows) <= Limit
      <4>1. picked' = Selected \cup rows
        BY <2>1, <3>1
      <4>. QED
        BY <3>1, <4>1
    <3>2. CASE ~(Cardinality(Selected \cup rows) <= Limit)
      <4>1. Cardinality(add) = Limit - Cardinality(Selected) /\ Selected \cap add = {}
        BY <2>1, <3>2
      <4>2. Cardinality(picked') = Cardinality(Selected) + Cardinality(add) - Cardinality({})
        BY <2>1, <2>3, <4>1, FS_Union
      <4>3. Cardinality({}) = 0 /\ Cardinality(Selected) \in Nat /\ Cardinality(add) \in Nat
        BY <2>3, FS_EmptySet, FS_CardinalityType
      <4>. QED
        BY <4>1, <4>2, <4>3, SiteListConstants
    <3>. QED
      BY <3>1, <3>2
  <2>. QED
    BY <1>1, <2>2, <2>4, PickKeeps
<1>. QED
  BY <1>2, <1>3

LEMMA SelectMatchingKeeps == ASSUME IInv, SelectMatching PROVE IInv'
<1>1. due = Null /\ picked' \in SUBSET Visible /\ sel' = [scope |-> Scope, keys |-> picked']
      /\ UNCHANGED <<sites, filter, editing, due, jobs>>
  BY DEF SelectMatching, OnList, Click
<1>2. Cardinality(picked') <= Limit
  <2>1. Limit <= Limit
    BY SiteListConstants
  <2>. QED
    BY <2>1 DEF SelectMatching
<1>. QED
  BY <1>1, <1>2, PickKeeps

LEMMA ClearKeeps == ASSUME IInv, Clear PROVE IInv'
<1>1. due = Null /\ picked' = {} /\ sel' = [scope |-> Scope, keys |-> picked']
      /\ UNCHANGED <<sites, filter, editing, due, jobs>>
  BY DEF Clear, OnList, Click
<1>. QED
  BY <1>1, PickKeeps, FS_EmptySet, SiteListConstants

LEMMA NavigateKeeps ==
  ASSUME IInv, NEW f \in Filters, NEW e \in Names \cup {NoName}, Navigate(f, e)
  PROVE  IInv'
<1>1. Render(sel) /\ picked' = {} /\ UNCHANGED jobs /\ Scope' # Scope /\ Scope' \in Scopes
  BY DEF Navigate, Scope, Scopes
<1>2. due # Null \/ sel.scope # Scope'
  BY <1>1, DueFacts
<1>. QED
  BY <1>1, <1>2, RenderKeeps DEF IInv, TypeInv, JobInv

LEMMA DeliverListKeeps == ASSUME IInv, DeliverList PROVE IInv'
<1>1. Render(sel) /\ UNCHANGED <<jobs, picked>> /\ Scope' = Scope
  BY DEF DeliverList, Scope
<1>. QED
  BY <1>1, ScopeType, RenderKeeps DEF IInv, TypeInv, JobInv

(* Steps that leave the list and the selection alone.                       *)
LEMMA JobsOnly ==
  ASSUME IInv, UNCHANGED <<list, selection>>, jobs' \in [Slots -> Job], JobInv'
  PROVE  IInv' /\ Selected' = Selected
<1>1. Scope' = Scope /\ Visible' = Visible
  BY DEF list, Scope, Visible, Exists
<1>2. Selected' = Selected
  BY <1>1 DEF selection, Selected
<1>. QED
  BY <1>1, <1>2 DEF list, selection, IInv, TypeInv, DueInv, SelectionIsTheVisitors

LEMMA AskKeeps ==
  ASSUME IInv, NEW j \in Slots, NEW kind \in {"action", "prompt", "tags"}, NEW names \in SUBSET Names,
         NEW goto \in Names \cup {NoName, Null}, Ask(j, kind, names, goto),
         kind = "tags" => goto = Null,
         kind = "action" => goto = Null \/ (goto = NoName /\ editing # NoName)
  PROVE  IInv'
<1> DEFINE job == [kind |-> kind, names |-> names, goto |-> goto, at |-> "ask",
                   scope |-> IF kind = "action" THEN Scope ELSE Null]
<1>1. Scope \in Scopes /\ Scope[2] = editing
  BY ScopeType DEF IInv, Scope
<1>2. job \in Job /\ JobOK(job)
  BY <1>1 DEF Job, JobOK
<1>3. jobs' = [jobs EXCEPT ![j] = job] /\ UNCHANGED <<list, selection>>
  BY DEF Ask
<1>4. jobs' \in [Slots -> Job] /\ JobInv'
  BY <1>2, <1>3 DEF IInv, TypeInv, JobInv
<1>. QED
  BY <1>3, <1>4, JobsOnly

LEMMA ConfirmKeeps == ASSUME IInv, NEW j \in Slots, Confirm(j) PROVE IInv'
<1> DEFINE job == [jobs[j] EXCEPT !.at = "sent", !.scope = IF jobs[j].kind = "tags" THEN Scope ELSE @]
<1>1. jobs' = [jobs EXCEPT ![j] = job] /\ jobs[j].at = "ask" /\ UNCHANGED <<list, selection>>
  BY DEF Confirm, Answerable, IInv, TypeInv
<1>2. Scope \in Scopes /\ jobs[j] \in Job /\ JobOK(jobs[j])
  BY ScopeType DEF IInv, TypeInv, JobInv
<1>3. job \in Job /\ JobOK(job)
  BY <1>1, <1>2 DEF Job, JobOK
<1>4. jobs' \in [Slots -> Job] /\ JobInv'
  BY <1>1, <1>3 DEF IInv, TypeInv, JobInv
<1>. QED
  BY <1>1, <1>4, JobsOnly

LEMMA DropJob ==
  ASSUME IInv, NEW j \in Slots, jobs' = [jobs EXCEPT ![j] = NoJob]
  PROVE  jobs' \in [Slots -> Job] /\ JobInv'
BY DEF NoJob, Job, JobOK, IInv, TypeInv, JobInv

LEMMA RefuseKeeps == ASSUME IInv, NEW j \in Slots, Refuse(j) PROVE IInv'
BY DropJob, JobsOnly DEF Refuse

LEMMA FailedKeeps == ASSUME IInv, NEW j \in Slots, Failed(j), UNCHANGED filter PROVE IInv'
<1>1. Render(sel) /\ picked' = picked /\ Scope' = Scope
  BY DEF Failed, Scope
<1>2. CASE jobs[j].kind = "tags"
  <2> DEFINE job == [jobs[j] EXCEPT !.at = "ask", !.scope = Null]
  <2>1. jobs' = [jobs EXCEPT ![j] = job]
    BY <1>2 DEF Failed, IInv, TypeInv
  <2>2. job \in Job /\ JobOK(job)
    BY <1>2 DEF IInv, TypeInv, JobInv, Job, JobOK
  <2>3. jobs' \in [Slots -> Job] /\ JobInv'
    BY <2>1, <2>2 DEF IInv, TypeInv, JobInv
  <2>. QED
    BY <1>1, <2>3, ScopeType, RenderKeeps DEF IInv, TypeInv
<1>3. CASE jobs[j].kind # "tags"
  <2>1. jobs' \in [Slots -> Job] /\ JobInv'
    BY <1>3, DropJob DEF Failed
  <2>. QED
    BY <1>1, <2>1, ScopeType, RenderKeeps DEF IInv, TypeInv
<1>. QED
  BY <1>2, <1>3

(* What a successful action sets is of its own scope, without the rows it   *)
(* acted on, and opens nothing in that scope.                               *)
LEMMA DeselectedFacts ==
  ASSUME IInv, NEW j \in Slots, jobs[j].at = "sent", jobs[j].kind # "prompt"
  PROVE  /\ jobs[j].kind \in {"action", "tags"} /\ jobs[j].scope \in Scopes
         /\ Deselected(jobs[j]) \in Selections
         /\ Deselected(jobs[j]).scope = jobs[j].scope
         /\ Deselected(jobs[j]).keys \subseteq sel.keys
         /\ jobs[j].scope = sel.scope /\ jobs[j].kind = "action" =>
              sel.keys \ jobs[j].names \subseteq Deselected(jobs[j]).keys
<1>1. jobs[j].kind \in {"action", "tags"} /\ jobs[j].scope \in Scopes
  BY DEF IInv, TypeInv, JobInv, Job, JobOK
<1>2. sel \in Selections
  BY DEF IInv, TypeInv
<1>. QED
  BY <1>1, <1>2 DEF Deselected, Without, Current, Selections

LEMMA SucceededKeeps ==
  ASSUME IInv, NEW j \in Slots, jobs[j].at = "sent", Succeeded(j), UNCHANGED filter
  PROVE  IInv'
<1> DEFINE state == IF jobs[j].kind = "prompt" THEN sel ELSE Deselected(jobs[j])
<1>1. Render(state) /\ editing' = (IF jobs[j].goto = Null THEN editing ELSE jobs[j].goto)
      /\ picked' = (IF editing' = editing THEN picked ELSE {})
  BY DEF Succeeded
<1>2. jobs[j] \in Job /\ JobOK(jobs[j])
  BY DEF IInv, TypeInv, JobInv
<1>3. jobs' \in [Slots -> Job] /\ JobInv'
  BY DropJob DEF Succeeded
<1>4. editing' \in Names \cup {NoName} /\ filter' \in Filters
  BY <1>1, <1>2 DEF Job, IInv, TypeInv
<1>5. Scope' \in Scopes /\ Scope'[2] = editing' /\ (Scope' = Scope <=> editing' = editing)
  BY <1>4 DEF Scope, Scopes
<1>6. state \in Selections /\ (state.keys \subseteq sel.keys)
  BY DeselectedFacts DEF IInv, TypeInv
<1>7. Scope' # Scope => due # Null \/ state.scope # Scope'
  <2>1. CASE jobs[j].kind = "prompt"
    BY <2>1, DueFacts
  <2>2. CASE jobs[j].kind # "prompt" /\ Scope' # Scope
    <3>1. jobs[j].kind = "action" /\ jobs[j].goto = NoName /\ jobs[j].scope[2] # NoName
      BY <1>1, <1>2, <1>5, <2>2, DeselectedFacts DEF JobOK
    <3>2. editing' = NoName
      BY <1>1, <3>1, NullFacts
    <3>. QED
      BY <1>5, <2>2, <3>1, <3>2, DeselectedFacts
  <2>. QED
    BY <2>1, <2>2
<1>. QED
  BY <1>1, <1>3, <1>5, <1>6, <1>7, RenderKeeps

-----------------------------------------------------------------------------
(* Every step of the visitor, of the actions and of the list keeps it.      *)
LEMMA StepInv == IInv /\ [Next]_vars => IInv'
<1> SUFFICES ASSUME IInv, [Next]_vars PROVE IInv'
  OBVIOUS
<1>1. ASSUME NEW j \in Slots, NEW action \in Actions \cup {"tags"}, Batch(j, action) PROVE IInv'
  <2>1. {n \in Selected : Offered(action, sites[n])} \in SUBSET Names
    BY RowFacts
  <2>. QED
    BY <1>1, <2>1, AskKeeps DEF Batch
<1>2. ASSUME NEW j \in Slots, NEW action \in Actions, NEW n \in Names, OnRow(j, action, n) PROVE IInv'
  <2>1. CASE Ask(j, "action", {n}, Null)
    BY <1>2, <2>1, AskKeeps
  <2>2. CASE OnEditor /\ Ask(j, "action", {n}, NoName)
    BY <1>2, <2>2, AskKeeps DEF OnEditor
  <2>. QED
    BY <1>2, <2>1, <2>2 DEF OnRow
<1>3. ASSUME NEW j \in Slots, NEW what \in Prompts, NEW to \in Names, Prompt(j, what, to) PROVE IInv'
  BY <1>3, AskKeeps DEF Prompt
<1>4. ASSUME NEW j \in Slots, DeliverJob(j) PROVE IInv'
  BY <1>4, FailedKeeps, SucceededKeeps DEF DeliverJob
<1>5. CASE UNCHANGED vars
  BY <1>5, JobsOnly DEF vars, IInv, TypeInv, JobInv
<1>. QED
  BY <1>1, <1>2, <1>3, <1>4, <1>5, EffectKeeps, SelectMatchingKeeps, ClearKeeps, DeliverListKeeps,
     ToggleKeeps, NavigateKeeps, ConfirmKeeps, RefuseKeeps
  DEF Next

LEMMA AlwaysInv == Spec => []IInv
BY InitInv, StepInv, PTL DEF Spec

(* What a batch would act on is in the list, was selected by the visitor    *)
(* since the filters were set, and is at most one batch.                    *)
THEOREM SelectionAlwaysTheVisitors == Spec => []SelectionIsTheVisitors
<1>1. IInv => SelectionIsTheVisitors
  BY DEF IInv
<1>. QED
  BY <1>1, AlwaysInv, PTL
-----------------------------------------------------------------------------
(* What SelectionKept says of one step.                                     *)
KeptStep ==
  \A n \in Selected \ Selected' :
    \/ n \notin Visible' \/ Scope' # Scope \/ picked' # picked
    \/ \E j \in Slots :
         /\ jobs[j].at = "sent" /\ jobs'[j] = NoJob /\ jobs[j].scope # Null
         /\ n \in jobs[j].names \/ jobs[j].kind = "tags" \/ jobs[j].scope # Scope

(* A pick that the new list still has survives a render that does not set   *)
(* the selection to one without it: an effect that is due brings it back.   *)
LEMMA RenderKeepsPick ==
  ASSUME IInv, NEW state, Render(state), Scope' = Scope, NEW n \in Selected \cap Visible',
         due = Null => state.scope = Scope /\ n \in state.keys
  PROVE  n \in Selected'
<1>1. sel'.scope = Scope /\ n \in sel'.keys
  <2>1. CASE due = Null
    BY <2>1 DEF Render
  <2>2. CASE due # Null
    BY <2>2, DueFacts DEF Render
  <2>. QED
    BY <2>1, <2>2
<1>. QED
  BY <1>1 DEF Selected

(* A render that sets the state to what it was loses no pick.               *)
LEMMA SameStateKept == ASSUME IInv, Render(sel) PROVE KeptStep
<1> SUFFICES ASSUME NEW n \in Selected \ Selected', n \in Visible', Scope' = Scope PROVE FALSE
  BY DEF KeptStep
<1>1. due = Null => sel.scope = Scope /\ n \in sel.keys
  BY DueFacts
<1>. QED
  BY <1>1, RenderKeepsPick

(* A click that drops a row changes what is picked.                         *)
LEMMA PickKept ==
  ASSUME IInv, sel' = [scope |-> Scope, keys |-> picked'], UNCHANGED <<sites, filter, editing>>,
         picked' \subseteq Visible
  PROVE  KeptStep
<1>1. Scope' = Scope /\ Visible' = Visible
  BY DEF Scope, Visible, Exists
<1>2. Selected' = picked'
  BY <1>1 DEF Selected
<1>3. Selected \subseteq picked
  BY DEF IInv, SelectionIsTheVisitors
<1>. QED
  BY <1>2, <1>3 DEF KeptStep

LEMMA ToggleKept == ASSUME IInv, NEW rows \in SUBSET Names, Toggle(rows) PROVE KeptStep
<1>1. picked' \subseteq Visible
  BY RowFacts DEF Toggle
<1>. QED
  BY <1>1, PickKept DEF Toggle

(* An action that succeeded costs the selection the rows it acted on, the   *)
(* tag dialog all of it; when it was begun in another scope it is said so.  *)
LEMMA SucceededKept ==
  ASSUME IInv, NEW j \in Slots, jobs[j].at = "sent", Succeeded(j) PROVE KeptStep
<1>1. CASE jobs[j].kind = "prompt"
  BY <1>1, SameStateKept DEF Succeeded
<1>2. CASE jobs[j].kind # "prompt"
  <2> SUFFICES ASSUME NEW n \in Selected \ Selected', n \in Visible', Scope' = Scope,
                      n \notin jobs[j].names, jobs[j].kind # "tags", jobs[j].scope = Scope
               PROVE  FALSE
    <3>1. jobs'[j] = NoJob
      BY DEF Succeeded, IInv, TypeInv
    <3>2. jobs[j].scope # Null
      BY <1>2, DeselectedFacts, NullFacts
    <3>. QED
      BY <3>1, <3>2 DEF KeptStep
  <2>1. Render(Deselected(jobs[j]))
    BY <1>2 DEF Succeeded
  <2>2. due = Null => Deselected(jobs[j]).scope = Scope /\ n \in Deselected(jobs[j]).keys
    BY <1>2, DeselectedFacts, DueFacts
  <2>. QED
    BY <2>1, <2>2, RenderKeepsPick
<1>. QED
  BY <1>1, <1>2

LEMMA StepKept == ASSUME IInv, [Next]_vars PROVE KeptStep
<1>1. CASE UNCHANGED <<list, selection>>
  <2>1. Selected' = Selected
    BY <1>1 DEF list, selection, Selected, Scope, Visible, Exists
  <2>. QED
    BY <2>1 DEF KeptStep
<1>2. CASE Effect
  BY <1>2, EffectKeeps DEF KeptStep
<1>3. CASE SelectMatching
  BY <1>3, PickKept DEF SelectMatching
<1>4. CASE Clear
  BY <1>4, PickKept DEF Clear
<1>5. CASE DeliverList
  BY <1>5, SameStateKept DEF DeliverList
<1>6. ASSUME NEW f \in Filters, NEW e \in Names \cup {NoName}, Navigate(f, e) PROVE KeptStep
  BY <1>6, SameStateKept DEF Navigate
<1>7. ASSUME NEW j \in Slots, DeliverJob(j) PROVE KeptStep
  BY <1>7, SameStateKept, SucceededKept DEF DeliverJob, Failed
<1>8. ASSUME NEW j \in Slots, NEW kind, NEW names, NEW goto, Ask(j, kind, names, goto) PROVE KeptStep
  BY <1>1, <1>8 DEF Ask
<1>9. ASSUME NEW j \in Slots,
             \/ \E action \in Actions \cup {"tags"} : Batch(j, action)
             \/ \E action \in Actions, n \in Names : OnRow(j, action, n)
             \/ \E what \in Prompts, to \in Names : Prompt(j, what, to)
             \/ Confirm(j) \/ Refuse(j)
      PROVE  KeptStep
  BY <1>1, <1>8, <1>9 DEF Batch, OnRow, Prompt, Confirm, Refuse
<1>10. CASE UNCHANGED vars
  BY <1>1, <1>10 DEF vars
<1>. QED
  BY <1>2, <1>3, <1>4, <1>5, <1>6, <1>7, <1>9, <1>10, ToggleKept DEF Next

(* No pick is lost to a fetch, a stale effect or an action that failed or    *)
(* acted on other rows: only a click, the list, a change of scope or the     *)
(* success of an action on the row, or of another scope, takes it away.      *)
THEOREM PicksAreKept == Spec => SelectionKept
<1>1. IInv /\ [Next]_vars => [KeptStep]_vars
  BY StepKept
<1>. QED
  BY <1>1, AlwaysInv, PTL DEF Spec, SelectionKept, KeptStep
=============================================================================
