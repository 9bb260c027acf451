------------------------------ MODULE FileTags ------------------------------
(***************************************************************************)
(* The tags of the file that is open in the web client: the rail of the    *)
(* editor (FileTagsButton), the workspace it opens (TagWorkspace), and the *)
(* hooks useTags and useFileTags through which both show what the server   *)
(* holds.                                                                  *)
(*                                                                         *)
(* Every hook fetches on its own and whenever the workspace says the       *)
(* catalogue changed, so several fetches are under way at once; a sequence *)
(* number makes the last one count. Of the others only one that a handler  *)
(* of the workspace waits for still matters, and only in that it ends: one *)
(* handler runs at a time, so there is at most one. A toggle is shown      *)
(* before it is saved. The catalogue of the rail, a second useTags, is left*)
(* out.                                                                    *)
(***************************************************************************)
EXTENDS Naturals

CONSTANTS Tags,      \* identifiers of tags
          NoTag, Null,
          MaxTurns   \* bound on changes made here, changes of other clients,
                     \* "Retry" and new revisions of the file, together

ASSUME FileTagsConstants == NoTag \notin Tags /\ MaxTurns \in Nat

(* What the tags of a file, or the catalogue, are shown to be; Null is      *)
(* nothing fetched yet.                                                     *)
Tagging == [manual : SUBSET Tags, smart : SUBSET Tags]

ASSUME NullIsNothing == Null \notin Tagging

VARIABLES
  kind,    \* server: what each tag is, "none" when it does not exist
  pins,    \* server: the manual tags of the file
  views,   \* what each hook shows, and its fetches
  ws,      \* the workspace: whether it is open, its view, its form
  op,      \* the handler of the workspace under way, or none
  stale,   \* views that may differ from the server for want of an answer
  turns

server == <<kind, pins>>
vars == <<server, views, ws, op, stale, turns>>

Hooks == {"file", "catalog", "rail"}

Kinds(k) == {t \in Tags : kind[t] = k}

(* What a fetch of each hook returns. Every smart tag matches the file.     *)
Holds(v) == [manual |-> IF v = "catalog" THEN Kinds("manual") ELSE pins,
             smart |-> Kinds("smart")]

Get(awaited) == [at |-> "sent", ok |-> FALSE, val |-> Null, awaited |-> awaited, old |-> FALSE,
                 during |-> op.kind \in {"pin", "unpin"} /\ op.at \in {"sent", "back"}]

NoGet == [at |-> "none", ok |-> FALSE, val |-> Null, awaited |-> FALSE, old |-> FALSE,
          during |-> FALSE]

(* get is the fetch that counts; late says how far a fetch has come that no *)
(* longer does and is waited for.                                           *)
Unmounted == [val |-> Null, err |-> FALSE, get |-> NoGet, late |-> "none"]

Mounted == [Unmounted EXCEPT !.get = [NoGet EXCEPT !.at = "sent"]]

Closed == [open |-> FALSE, view |-> "list", tag |-> NoTag]

NoOp == [kind |-> "none", tag |-> NoTag, to |-> "none", assign |-> FALSE,
         prev |-> Null, at |-> "idle", ok |-> FALSE]

Init ==
  /\ kind \in [Tags -> {"none", "manual", "smart"}]
  /\ pins \in SUBSET Kinds("manual")
  /\ ws = Closed /\ op = NoOp /\ stale = {}
  /\ views = [v \in Hooks |-> IF v = "rail" THEN Mounted ELSE Unmounted]
  /\ turns = 0

-----------------------------------------------------------------------------
(* The hooks.                                                               *)

(* Defect: the handler that waits for a fetch is forgotten with it.         *)
SupersededForgotten(h) == [h EXCEPT !.get = NoGet]

(* The answer of a fetch that no longer counts changes nothing, so it is    *)
(* only kept for the handler that waits for it.                             *)
Superseded(h) ==
  [h EXCEPT !.get = NoGet, !.late = IF h.get.awaited THEN h.get.at ELSE @]

(* Defect: the answer to an earlier fetch counts for the new one.           *)
RefreshedToo(h, awaited) ==
  [Superseded(h) EXCEPT !.get = IF h.get.at = "back" THEN [h.get EXCEPT !.awaited = awaited]
                                                     ELSE Get(awaited)]

(* refresh: earlier fetches no longer count.                                *)
Refreshed(h, awaited) == [Superseded(h) EXCEPT !.get = Get(awaited)]

(* Defect: the fetches under way still count.                               *)
ShownOnly(h, data) == [h EXCEPT !.val = data]

(* setData of useFileTags: the same for a value that was not fetched.       *)
Shown(h, data) == [Superseded(h) EXCEPT !.val = data]

(* What is fetched before a change nobody tells this page of is outdated.   *)
Outdated == [v \in Hooks |-> [views[v] EXCEPT !.get.old = @ \/ views[v].get.at = "back"]]

(* The answer of the fetch that counts.                                     *)
Answered(h) ==
  IF h.get.ok THEN [h EXCEPT !.val = h.get.val, !.err = FALSE, !.get = NoGet]
              ELSE [h EXCEPT !.err = TRUE, !.get = NoGet]

(* catalogEvent, and onChanged of the rail: every hook fetches again.       *)
AllRefreshed == [v \in Hooks |-> Refreshed(views[v], FALSE)]

-----------------------------------------------------------------------------
(* The rail and the workspace.                                              *)

Open(t) ==
  /\ ~ws.open
  /\ t \in {NoTag} \cup (IF views["rail"].val = Null THEN {} ELSE
                          views["rail"].val.manual \cup views["rail"].val.smart)
  /\ ws' = [Closed EXCEPT !.open = TRUE, !.tag = t,
                          !.view = IF t = NoTag THEN "list" ELSE "edit"]
  /\ views' = [views EXCEPT !["file"] = Mounted, !["catalog"] = Mounted]
  /\ UNCHANGED <<server, op, stale, turns>>

Turn == turns < MaxTurns /\ turns' = turns + 1

Idle == ws.open /\ op.at = "idle"

(* leave: to the list or out. With an edited form it asks first, and a      *)
(* refusal is this step not taken.                                          *)
Leave(close) ==
  /\ Idle
  /\ IF close
       THEN /\ ws' = Closed
            /\ views' = [views EXCEPT !["file"] = Unmounted, !["catalog"] = Unmounted]
       ELSE /\ ws.view # "list"
            /\ ws' = [Closed EXCEPT !.open = TRUE] /\ UNCHANGED views
  /\ UNCHANGED <<server, op, stale, turns>>

(* "New tag", "Edit" of an assigned manual tag or of a smart one, "Delete"   *)
(* of a smart one: the picker of the manual tags has no "Delete".           *)
Listed == IF views["catalog"].val = Null THEN [manual |-> {}, smart |-> {}]
          ELSE views["catalog"].val

Assigned == IF views["file"].val = Null THEN {} ELSE views["file"].val.manual

Choose(view, t) ==
  /\ Idle /\ ws.view = "list"
  /\ \/ t \in Listed.smart
     \/ view = "edit" /\ t \in Listed.manual \cap Assigned
     \/ view = "edit" /\ t = NoTag /\ views["file"].val # Null
  /\ ws' = [ws EXCEPT !.view = view, !.tag = t]
  /\ UNCHANGED <<server, views, op, stale, turns>>

(* The error banner's "Retry".                                              *)
Retry ==
  /\ ws.open /\ (views["file"].err \/ views["catalog"].err)
  /\ Turn
  /\ views' = [views EXCEPT !["file"] = Refreshed(@, FALSE), !["catalog"] = Refreshed(@, FALSE)]
  /\ UNCHANGED <<server, ws, op, stale>>

(* The file was saved: its revision is new.                                 *)
Revise ==
  /\ ~ws.open
  /\ Turn
  /\ views' = [views EXCEPT !["rail"] = Refreshed(@, FALSE)]
  /\ UNCHANGED <<server, ws, op, stale>>

Waiting(k) == [NoOp EXCEPT !.kind = k, !.at = "wait"]

Begin(o) ==
  /\ Idle /\ Turn
  /\ op' = [o EXCEPT !.at = "sent"]

Toggled(data, t) ==
  [data EXCEPT !.manual = IF t \in @ THEN @ \ {t} ELSE @ \cup {t}]

(* toggle: the picker lists the manual tags of the catalogue it has.        *)
Toggle(t) ==
  LET data == views["file"].val IN
  /\ ws.view = "list" /\ data # Null
  /\ t \in Listed.manual
  /\ Begin([NoOp EXCEPT !.kind = IF t \in data.manual THEN "unpin" ELSE "pin",
                        !.tag = t, !.prev = data])
  /\ views' = [views EXCEPT !["file"] = Shown(@, Toggled(data, t))]
  /\ UNCHANGED <<server, ws, stale>>

Save(to, assign) ==
  /\ ws.view = "edit" /\ views["file"].val # Null
  /\ (assign => to = "manual" /\ ws.tag = NoTag)
  /\ Begin([NoOp EXCEPT !.kind = "save", !.tag = ws.tag, !.to = to, !.assign = assign])
  /\ UNCHANGED <<server, views, ws, stale>>

Remove ==
  /\ ws.view = "delete"
  /\ Begin([NoOp EXCEPT !.kind = "remove", !.tag = ws.tag])
  /\ UNCHANGED <<server, views, ws, stale>>

-----------------------------------------------------------------------------
(* The server, and the network.                                             *)

(* What a request does there, when it is accepted; t is the tag it names or *)
(* the one that is made for it.                                             *)
Accepts(o, t) ==
  CASE o.kind \in {"pin", "assign"} ->
         kind[t] = "manual" /\ pins' = pins \cup {t} /\ UNCHANGED kind
    [] o.kind = "unpin" ->
         kind[t] = "manual" /\ pins' = pins \ {t} /\ UNCHANGED kind
    [] o.kind = "save" ->
         /\ (kind[t] = "none") <=> (o.tag = NoTag)
         /\ kind' = [kind EXCEPT ![t] = o.to]
         /\ pins' = IF o.to = "smart" THEN pins \ {t} ELSE pins
    [] o.kind = "remove" ->
         /\ kind[t] # "none"
         /\ kind' = [kind EXCEPT ![t] = "none"] /\ pins' = pins \ {t}

ServeOp ==
  /\ op.at = "sent"
  /\ \/ /\ op' = [op EXCEPT !.at = "back", !.ok = FALSE]
        /\ UNCHANGED <<server, views, stale>>
     \/ \E t \in Tags :
          /\ op.tag \in {t, NoTag} /\ Accepts(op, t)
          /\ \/ /\ op' = [op EXCEPT !.at = "back", !.ok = TRUE, !.tag = t]
                /\ UNCHANGED <<views, stale>>
             \/ /\ op' = [op EXCEPT !.at = "back", !.ok = FALSE]
                /\ views' = Outdated /\ stale' = Hooks
  /\ UNCHANGED <<ws, turns>>

ServeGet(v) ==
  /\ \/ /\ views[v].get.at = "sent"
        /\ \E ok \in BOOLEAN :
             views' = [views EXCEPT ![v].get.at = "back", ![v].get.ok = ok,
                                    ![v].get.val = IF ok THEN Holds(v) ELSE Null]
     \/ /\ views[v].late = "sent"
        /\ views' = [views EXCEPT ![v].late = "back"]
  /\ UNCHANGED <<server, ws, op, stale, turns>>

(* Another client changes a tag or the tags of the file.                    *)
OtherChanges(t) ==
  /\ Turn
  /\ \/ \E k \in {"none", "manual", "smart"} \ {kind[t]} :
          kind' = [kind EXCEPT ![t] = k] /\ pins' = pins \ {t}
     \/ kind[t] = "manual" /\ UNCHANGED kind
        /\ pins' = IF t \in pins THEN pins \ {t} ELSE pins \cup {t}
  /\ stale' = Hooks /\ views' = Outdated
  /\ UNCHANGED <<ws, op>>
-----------------------------------------------------------------------------
(* What the handlers do with an answer.                                     *)

Listing == [Closed EXCEPT !.open = TRUE]

(* toggle goes on to fetch, and waits for that fetch; a failure puts the    *)
(* tags back that were there before.                                        *)
ToggleAnswered ==
  /\ op.kind \in {"pin", "unpin"} /\ UNCHANGED ws
  /\ IF op.ok
       THEN /\ views' = [views EXCEPT !["file"] = Refreshed(@, TRUE)]
            /\ op' = Waiting(op.kind)
       ELSE views' = [views EXCEPT !["file"] = Shown(@, op.prev)] /\ op' = NoOp

(* save: the catalogue changed; a new tag is then assigned, or the tags of  *)
(* the file are fetched. The fetch that catalogEvent starts in between is   *)
(* superseded before it counts.                                             *)
SaveAnswered ==
  /\ op.kind = "save" /\ UNCHANGED ws
  /\ IF op.ok
       THEN /\ IF op.assign
                 THEN /\ views' = AllRefreshed
                      /\ op' = [op EXCEPT !.kind = "assign", !.at = "sent"]
                 ELSE /\ views' = [AllRefreshed EXCEPT !["file"] = Refreshed(views["file"], TRUE)]
                      /\ op' = Waiting(op.kind)
       ELSE UNCHANGED views /\ op' = NoOp

(* A failed assignment is reported on the list: the tag was made.           *)
AssignAnswered ==
  /\ op.kind = "assign"
  /\ IF op.ok
       THEN /\ UNCHANGED ws
            /\ views' = [views EXCEPT !["file"] = Refreshed(@, TRUE)]
            /\ op' = Waiting(op.kind)
       ELSE ws' = Listing /\ op' = NoOp /\ UNCHANGED views

RemoveAnswered ==
  /\ op.kind = "remove" /\ op' = NoOp
  /\ IF op.ok THEN views' = AllRefreshed /\ ws' = Listing
              ELSE UNCHANGED <<views, ws>>

DeliverOp ==
  /\ op.at = "back"
  /\ ToggleAnswered \/ SaveAnswered \/ AssignAnswered \/ RemoveAnswered
  /\ stale' = IF ~op.ok /\ op.prev # Null THEN stale \cup {"file"} ELSE stale
  /\ UNCHANGED <<server, turns>>

(* The end of the handler that waited for a fetch: after a change of the    *)
(* file's tags it tells the rail (onChanged), after a save it is back on    *)
(* the list.                                                                *)
Resumed(next) ==
  /\ op' = NoOp
  /\ ws' = IF op.kind \in {"save", "assign"} THEN Listing ELSE ws
  /\ views' = IF op.kind = "save" THEN next
              ELSE [next EXCEPT !["rail"] = Refreshed(@, FALSE)]

DeliverGet(v) ==
  LET g == views[v].get
      next == [views EXCEPT ![v] = Answered(@)]
  IN /\ g.at = "back"
     /\ stale' = IF g.ok /\ ~g.old THEN stale \ {v} ELSE stale
     /\ \/ g.awaited /\ Resumed(next)
        \/ ~g.awaited /\ views' = next /\ UNCHANGED <<op, ws>>
     /\ UNCHANGED <<server, turns>>

(* Defect: a handler waits for its fetch only while that is the last one.   *)
DeliverLateUnheard(v) ==
  /\ views[v].late = "back"
  /\ views' = [views EXCEPT ![v].late = "none"]
  /\ UNCHANGED <<server, ws, op, stale, turns>>

(* The promise of a fetch settles whether or not its answer counts.         *)
DeliverLate(v) ==
  /\ views[v].late = "back"
  /\ Resumed([views EXCEPT ![v].late = "none"])
  /\ UNCHANGED <<server, stale, turns>>

Next ==
  \/ \E t \in Tags \cup {NoTag} : Open(t) \/ Choose("edit", t)
  \/ \E t \in Tags : Choose("delete", t) \/ Toggle(t) \/ OtherChanges(t)
  \/ \E close \in BOOLEAN : Leave(close)
  \/ Retry \/ Revise \/ Remove
  \/ \E to \in {"manual", "smart"}, assign \in BOOLEAN : Save(to, assign)
  \/ ServeOp \/ DeliverOp
  \/ \E v \in Hooks : ServeGet(v) \/ DeliverGet(v) \/ DeliverLate(v)

(* Every request is answered, or fails, and its answer is handled.          *)
Fairness ==
  /\ WF_vars(ServeOp) /\ WF_vars(DeliverOp)
  /\ \A v \in Hooks : WF_vars(ServeGet(v)) /\ WF_vars(DeliverGet(v) \/ DeliverLate(v))

Spec == Init /\ [][Next]_vars /\ Fairness

-----------------------------------------------------------------------------
Data == Tagging \cup {Null}

Fetch == [at : {"none", "sent", "back"}, ok : BOOLEAN, val : Data, awaited : BOOLEAN,
          old : BOOLEAN, during : BOOLEAN]

Hook == [val : Data, err : BOOLEAN, get : Fetch, late : {"none", "sent", "back"}]

Op == [kind : {"none", "pin", "unpin", "save", "assign", "remove"}, tag : Tags \cup {NoTag},
       to : {"none", "manual", "smart"}, assign : BOOLEAN, prev : Data,
       at : {"idle", "sent", "back", "wait"}, ok : BOOLEAN]

(* Every state is well typed; a handler that waits has one fetch to wait    *)
(* for, and no other fetch is waited for.                                   *)
TypeOK ==
  /\ kind \in [Tags -> {"none", "manual", "smart"}] /\ pins \subseteq Kinds("manual")
  /\ views \in [Hooks -> Hook]
  /\ ws \in [open : BOOLEAN, view : {"list", "edit", "delete"}, tag : Tags \cup {NoTag}]
  /\ op \in Op /\ stale \subseteq Hooks
  /\ (op.at = "wait") <=> (views["file"].get.awaited \/ views["file"].late # "none")
  /\ \A v \in Hooks : views[v].get.awaited => v = "file" /\ views[v].late = "none"
  /\ \A v \in Hooks : views[v].late # "none" => v = "file"

AtRest(v) ==
  /\ op.at = "idle" /\ ~views[v].err /\ views[v].val # Null
  /\ views[v].get.at = "none"

(* When nothing is under way, the workspace, the catalogue and the rail     *)
(* show what the server holds, whatever the order in which fetches and      *)
(* saves were answered: "An older refresh must not overwrite an optimistic  *)
(* edit or its saved result" (useTags.ts, update). A view that another      *)
(* client, or an answer that was lost, left behind is held to it again from *)
(* its next fetch.                                                          *)
SettledViewsAgree ==
  \A v \in Hooks : AtRest(v) /\ v \notin stale => views[v].val = Holds(v)

(* What a toggle shows stays on screen until its save is answered: only a   *)
(* fetch asked for meanwhile ("Retry") may replace it.                      *)
OptimisticHolds ==
  [][op.kind \in {"pin", "unpin"} /\ op.at \in {"sent", "back"} /\ op'.at # "idle"
       /\ views'["file"].val # views["file"].val
     => views["file"].get.during]_vars

(* The workspace does not stay busy: a handler ends even when the fetch it  *)
(* waits for is overtaken by another.                                       *)
BusyEnds == op.at # "idle" ~> op.at = "idle"
=============================================================================
