------------------------------ MODULE SiteList ------------------------------
(***************************************************************************)
(* The list of sites (or streams) of the web client: its rows and filters, *)
(* the selection of rows (useBatchSelection), the actions on one row or on *)
(* the selection (runAction), the dialog that tags the selection, and the  *)
(* editor of one site as far as it acts on the list.                       *)
(*                                                                         *)
(* Nothing is assumed of the server: other clients change the sites, fetches*)
(* are answered in any order, so any list and any verdict may come back.   *)
(*                                                                         *)
(* Every action runs over several renders: it keeps the names and the      *)
(* scope of the render it was clicked in, while the list is fetched again, *)
(* the filters change, and other actions end. The selection is pruned by   *)
(* an effect that runs some time after the render it belongs to.           *)
(***************************************************************************)
EXTENDS Naturals, FiniteSets

CONSTANTS Names,    \* names of sites
          States,   \* what a list may say of a name: subset of AllStates
          Filters,  \* the filters a visitor sets: subset of AllFilters
          Limit,    \* BATCH_LIMIT
          Slots,    \* bound on the actions under way
          NoName, Null

AllFilters == {"all", "enabled", "maintenance"}

AllStates == {"absent", "disabled", "enabled", "maintenance"}

ASSUME SiteListConstants ==
  /\ Filters \subseteq AllFilters /\ States \subseteq AllStates
  /\ Limit \in Nat \ {0} /\ NoName \notin Names /\ IsFiniteSet(Names)

(* Null is none of the values it stands in for.                             *)
ASSUME NullIsNothing ==
  LET scopes == Filters \X (Names \cup {NoName}) IN
  /\ Null \notin Names \cup {NoName} /\ Null \notin scopes
  /\ Null \notin [scope : scopes, keys : SUBSET Names]

VARIABLES
  sites,    \* the rows of the list as last fetched, or Null
  filter, editing,   \* the query of the URL
  sel,      \* the state of useBatchSelection: its scope and its keys
  due,      \* what the effect that has not run yet will set it to, or Null
  jobs,     \* the actions, prompts and tag dialogs under way
  busy,     \* the names the spinner is on
  picked    \* history: what the visitor selected since the scope changed

list == <<sites, filter, editing>>
selection == <<sel, due, picked>>
vars == <<list, selection, jobs, busy>>

Scope == <<filter, editing>>

-----------------------------------------------------------------------------
(* The rows.                                                                *)

Exists == {n \in Names : sites[n] # "absent"}

(* A site in maintenance is enabled as well.                                *)
Matches(f, st) ==
  \/ f = "all"
  \/ f = "enabled" /\ st \in {"enabled", "maintenance"}
  \/ f = "maintenance" /\ st = "maintenance"

Visible == IF sites = Null THEN {} ELSE {n \in Exists : Matches(filter, sites[n])}

(* Defect: the keys of another scope count.                                 *)
SelectedAnyScope == sel.keys \cap Visible

Selected == IF sel.scope = Scope THEN sel.keys \cap Visible ELSE {}

(* What setSelected, called with the scope of the render it was made in,    *)
(* starts from.                                                             *)
Current(scope) == IF sel.scope = scope THEN sel.keys ELSE {}

(* A render: an effect still due from the last one sets the state after     *)
(* everything that was set since, and this render has its own effect if the *)
(* state is of another scope or has keys that are not in the list.          *)
Render(state) ==
  /\ sel' = IF due = Null THEN state ELSE due
  /\ due' = IF sel'.scope # Scope' \/ ~(sel'.keys \subseteq Visible')
              THEN [scope |-> Scope', keys |-> Selected'] ELSE Null

Effect ==
  /\ due # Null
  /\ sel' = due /\ due' = Null
  /\ UNCHANGED <<sites, filter, editing, jobs, busy, picked>>

-----------------------------------------------------------------------------
(* An action, a tag dialog or a prompt: the names an action acts on, the    *)
(* scope of the render whose setSelected it calls (Null: it calls none),    *)
(* and the editor it opens when it succeeds (NoName: back to the list;      *)
(* Null: it opens none).                                                    *)
NoJob == [kind |-> "none", names |-> {}, scope |-> Null, goto |-> Null, at |-> "idle"]

Actions == {"enable", "disable", "maintenance_on", "maintenance_off", "delete"}
Prompts == {"create", "clone", "rename"}

Init ==
  /\ sites = Null
  /\ filter \in Filters /\ editing \in Names \cup {NoName}
  /\ sel = [scope |-> Scope, keys |-> {}] /\ due = Null /\ picked = {}
  /\ jobs = [j \in Slots |-> NoJob] /\ busy = {}

(* A question covers the page, and so does the tag dialog while the list is *)
(* shown; the browser's back button works all the same.                     *)
Covered ==
  \E j \in Slots : IF jobs[j].kind = "tags" THEN editing = NoName ELSE jobs[j].at = "ask"

(* A click: on what the last render shows, after its effect.                *)
Click == ~Covered /\ sites # Null /\ due = Null
OnList == Click /\ editing = NoName
OnEditor == Click /\ editing # NoName

-----------------------------------------------------------------------------
(* Selecting.                                                               *)

(* A row's checkbox, or the one of the page: rows are added up to the       *)
(* limit, or taken out when all of them are selected.                       *)
Toggle(rows) ==
  /\ OnList /\ busy = {} /\ rows # {} /\ rows \subseteq Visible
  /\ IF rows \subseteq Selected
       THEN picked' = Selected \ rows
       ELSE /\ Cardinality(Selected) < Limit
            /\ \E add \in SUBSET (rows \ Selected) :
                 /\ IF Cardinality(Selected \cup rows) <= Limit
                      THEN add = rows \ Selected
                      ELSE Cardinality(add) = Limit - Cardinality(Selected)
                 /\ picked' = Selected \cup add
  /\ sel' = [scope |-> Scope, keys |-> picked']
  /\ UNCHANGED <<sites, filter, editing, due, jobs, busy>>

(* "Select all matching", the first Limit of them; and the cross.           *)
SelectMatching ==
  /\ OnList /\ busy = {} /\ Selected # {}
  /\ picked' \in SUBSET Visible
  /\ IF Cardinality(Visible) <= Limit THEN picked' = Visible
     ELSE Cardinality(picked') = Limit
  /\ sel' = [scope |-> Scope, keys |-> picked']
  /\ UNCHANGED <<sites, filter, editing, due, jobs, busy>>

Clear ==
  /\ OnList /\ busy = {} /\ Selected # {}
  /\ picked' = {} /\ sel' = [scope |-> Scope, keys |-> {}]
  /\ UNCHANGED <<sites, filter, editing, due, jobs, busy>>

(* The URL changes: a filter, a row that is opened, back and forward.       *)
Navigate(f, e) ==
  /\ <<f, e>> # Scope
  /\ filter' = f /\ editing' = e /\ picked' = {}
  /\ UNCHANGED <<sites, jobs, busy>> /\ Render(sel)

-----------------------------------------------------------------------------
(* Starting an action.                                                      *)

Offered(kind, st) ==
  CASE kind = "enable" -> st = "disabled"
    [] kind = "disable" -> st \in {"enabled", "maintenance"}
    [] kind = "maintenance_on" -> st = "enabled"
    [] kind = "maintenance_off" -> st = "maintenance"
    [] OTHER -> st # "absent"

Ask(j, kind, names, goto) ==
  /\ jobs[j] = NoJob
  /\ jobs' = [jobs EXCEPT ![j] =
       [kind |-> kind, names |-> names, goto |-> goto, at |-> "ask",
        scope |-> IF kind = "action" THEN Scope ELSE Null]]
  /\ UNCHANGED <<list, selection, busy>>

(* The menu of the selection: each entry acts on the selected rows it fits, *)
(* "Tags" opens the dialog on all of them.                                  *)
Batch(j, action) ==
  LET names == {n \in Selected : Offered(action, sites[n])} IN
  /\ OnList /\ busy = {} /\ names # {}
  /\ IF action = "tags" THEN Ask(j, "tags", {}, Null) ELSE Ask(j, "action", names, Null)

(* The switches of a row are off while it is busy, its menu is not; the     *)
(* editor's are never, and deleting goes back from it to the list.          *)
OnRow(j, action, n) ==
  /\ Click /\ (action = "delete" \/ (n \in Exists /\ Offered(action, sites[n])))
  /\ \/ /\ OnList /\ n \in Visible /\ (action # "delete" => n \notin busy)
        /\ Ask(j, "action", {n}, Null)
     \/ /\ OnEditor /\ n = editing
        /\ Ask(j, "action", {n}, IF action = "delete" THEN NoName ELSE Null)

(* The prompts: a new site, a copy of a site, another name for it. All but  *)
(* the list's "Clone" open what they made.                                  *)
Prompt(j, what, to) ==
  /\ CASE what = "create" -> OnList
       [] what = "clone" -> (OnList /\ Visible # {}) \/ OnEditor
       [] what = "rename" -> OnEditor /\ to # editing
  /\ Ask(j, "prompt", {}, IF OnList /\ what = "clone" THEN Null ELSE to)

(* The answer to the question; the dialog's "Apply" is a click of its own   *)
(* render.                                                                  *)
Answerable(j) ==
  jobs[j].at = "ask" /\ (jobs[j].kind = "tags" => editing = NoName)

Confirm(j) ==
  /\ Answerable(j)
  /\ jobs' = [jobs EXCEPT ![j].at = "sent",
                          ![j].scope = IF jobs[j].kind = "tags" THEN Scope ELSE @]
  /\ busy' = IF jobs[j].kind = "action" THEN jobs[j].names ELSE busy
  /\ UNCHANGED <<list, selection>>

Refuse(j) ==
  /\ Answerable(j)
  /\ jobs' = [jobs EXCEPT ![j] = NoJob]
  /\ UNCHANGED <<list, selection, busy>>

-----------------------------------------------------------------------------
(* The answers.                                                             *)

(* refresh has no sequence: any answer becomes the list.                    *)
DeliverList ==
  /\ sites' \in [Names -> States]
  /\ UNCHANGED <<filter, editing, jobs, busy, picked>> /\ Render(sel)

(* Defect: an action that succeeded empties the selection.                  *)
WithoutAll(names, keys) == {}

(* An action takes the rows it acted on out of the selection.               *)
Without(names, keys) == keys \ names

(* runAction: what succeeded is deselected, and the spinner stops, whoever  *)
(* it is of. The tag dialog, once it succeeded, clears the selection; when  *)
(* it fails it stays.                                                       *)
Deselected(job) ==
  [scope |-> job.scope,
   keys |-> IF job.kind = "tags" THEN {} ELSE Without(job.names, Current(job.scope))]

Failed(j) ==
  /\ jobs' = [jobs EXCEPT ![j] = IF jobs[j].kind = "tags" THEN [@ EXCEPT !.at = "ask", !.scope = Null]
                                   ELSE NoJob]
  /\ UNCHANGED <<editing, picked>> /\ Render(sel)

(* What the action opens, it opens from wherever the visitor is by now.     *)
Succeeded(j) ==
  /\ jobs' = [jobs EXCEPT ![j] = NoJob]
  /\ editing' = IF jobs[j].goto = Null THEN editing ELSE jobs[j].goto
  /\ picked' = IF editing' = editing THEN picked ELSE {}
  /\ Render(IF jobs[j].kind = "prompt" THEN sel ELSE Deselected(jobs[j]))

DeliverJob(j) ==
  /\ jobs[j].at = "sent" /\ UNCHANGED <<sites, filter>>
  /\ busy' = IF jobs[j].kind = "action" THEN {} ELSE busy
  /\ Failed(j) \/ Succeeded(j)

Next ==
  \/ Effect \/ SelectMatching \/ Clear \/ DeliverList
  \/ \E rows \in SUBSET Names : Toggle(rows)
  \/ \E f \in Filters, e \in Names \cup {NoName} : Navigate(f, e)
  \/ \E j \in Slots :
       \/ \E action \in Actions \cup {"tags"} : Batch(j, action)
       \/ \E action \in Actions, n \in Names : OnRow(j, action, n)
       \/ \E what \in Prompts, to \in Names : Prompt(j, what, to)
       \/ Confirm(j) \/ Refuse(j) \/ DeliverJob(j)

Spec == Init /\ [][Next]_vars

-----------------------------------------------------------------------------
(* What is selected is in the list and was selected by the visitor under    *)
(* the filters, and in the list, that are shown: "Keep selection across     *)
(* pages, but never across filters, folders or editors", whatever action,   *)
(* fetch or effect of an earlier render ends when; and it is never more     *)
(* than one batch.                                                          *)
SelectionIsTheVisitors ==
  Selected \subseteq picked \cap Visible /\ Cardinality(Selected) <= Limit

(* A row leaves the selection only with its place in the list, by a click,  *)
(* by a change of scope, by an action that succeeded on it, or when an      *)
(* action begun in another scope succeeds.                                  *)
SelectionKept ==
  [][\A n \in Selected \ Selected' :
       \/ n \notin Visible' \/ Scope' # Scope \/ picked' # picked
       \/ \E j \in Slots :
            /\ jobs[j].at = "sent" /\ jobs'[j] = NoJob /\ jobs[j].scope # Null
            /\ n \in jobs[j].names \/ jobs[j].kind = "tags" \/ jobs[j].scope # Scope]_vars
=============================================================================
