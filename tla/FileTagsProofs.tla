--------------------------- MODULE FileTagsProofs ---------------------------
(***************************************************************************)
(* Proofs about FileTags, for any set of tags and any number of changes:   *)
(* the views agree with the server when they settle, and a toggle stays on *)
(* screen while it is saved.                                               *)
(***************************************************************************)
EXTENDS FileTags, TLAPS

(* A toggle shows what it has not saved yet.                                *)
Toggling == op.kind \in {"pin", "unpin"} /\ op.at \in {"sent", "back"}

(* The handler under way will still make hook v fetch: it knows that the    *)
(* server made its change, or waits to tell the rail; or it will fetch the  *)
(* tags of the file, or give up what it shows of them.                      *)
Behind(v) ==
  \/ op.at = "back" /\ op.ok /\ (op.kind \in {"save", "remove"} \/ v # "catalog")
  \/ op.at = "wait" /\ op.kind # "save" /\ v = "rail"
  \/ Toggling /\ v = "file"

(* An answer that came back and a view nobody will refresh are what the     *)
(* server holds, unless something changed that this page was not told of.   *)
FetchOK(v) ==
  LET g == views[v].get IN
    /\ g.at = "none" => g = NoGet
    /\ g.at = "back" /\ g.ok /\ ~g.old => Behind(v) \/ g.val = Holds(v)
    /\ g.old => v \in stale

ShownOK(v) ==
  views[v].get.at = "none" /\ v \notin stale =>
    Behind(v) \/ views[v].err \/ views[v].val \in {Null, Holds(v)}

HookOK(v) == FetchOK(v) /\ ShownOK(v)

OpInv ==
  /\ op.at = "idle" => op = NoOp
  /\ op.at # "idle" => ws.open /\ op.kind # "none"
  /\ Toggling => op.prev # Null
  /\ op.kind = "save" => op.at = "wait" \/ op.to \in {"manual", "smart"}

(* A fetch of the file's tags that counts during a toggle was asked for     *)
(* during it.                                                               *)
DuringInv == Toggling /\ views["file"].get.at # "none" => views["file"].get.during

IInv == TypeOK /\ (\A v \in Hooks : HookOK(v)) /\ OpInv /\ DuringInv

-----------------------------------------------------------------------------
LEMMA HoldsType ==
  ASSUME kind \in [Tags -> {"none", "manual", "smart"}], pins \subseteq Kinds("manual")
  PROVE  pins \in SUBSET Tags /\ \A v \in Hooks : Holds(v) \in Tagging
BY DEF Kinds, Holds, Tagging

LEMMA GetFacts ==
  ASSUME op \in Op, NEW b \in BOOLEAN
  PROVE  /\ Get(b) \in Fetch /\ Get(b).at = "sent" /\ Get(b).ok = FALSE /\ Get(b).old = FALSE
         /\ Get(b).awaited = b /\ (Get(b).during <=> Toggling)
<1> DEFINE d == op.kind \in {"pin", "unpin"} /\ op.at \in {"sent", "back"}
<1>1. d \in BOOLEAN /\ (d <=> Toggling)
  BY DEF Toggling
<1>2. Get(b) = [at |-> "sent", ok |-> FALSE, val |-> Null, awaited |-> b, old |-> FALSE, during |-> d]
  BY DEF Get
<1> HIDE DEF d
<1> QED BY <1>1, <1>2 DEF Fetch, Data

(* What is left of the fetches of a hook when none counts any more.         *)
LEMMA SupersededFacts ==
  ASSUME TypeOK, NEW v \in Hooks, FetchOK(v)
  PROVE  LET h == Superseded(views[v]) IN
           /\ h \in Hook /\ h.get = NoGet /\ h.val = views[v].val /\ h.err = views[v].err
           /\ h.late # "none" <=> v = "file" /\ op.at = "wait"
<1>1. NoGet \in Fetch /\ views[v] \in Hook
  BY DEF TypeOK, NoGet, Fetch, Data
<1>2. views[v].get \in Fetch /\ views[v].get.at \in {"none", "sent", "back"}
  BY <1>1 DEF Hook, Fetch
<1>3. views[v].get.awaited => views[v].get.at # "none"
  BY <1>1 DEF FetchOK, NoGet
<1> QED BY <1>1, <1>2, <1>3 DEF Superseded, Hook, TypeOK

LEMMA RefreshedFacts ==
  ASSUME TypeOK, NEW v \in Hooks, FetchOK(v), NEW b \in BOOLEAN
  PROVE  LET h == Refreshed(views[v], b) IN
           /\ h \in Hook /\ h.get = Get(b) /\ h.val = views[v].val /\ h.err = views[v].err
           /\ h.late # "none" <=> v = "file" /\ op.at = "wait"
<1>1. Get(b) \in Fetch
  BY GetFacts DEF TypeOK
<1> DEFINE s == Superseded(views[v])
<1>2. /\ s \in Hook /\ s.get = NoGet /\ s.val = views[v].val /\ s.err = views[v].err
      /\ s.late # "none" <=> v = "file" /\ op.at = "wait"
  BY SupersededFacts
<1>3. Refreshed(views[v], b) = [s EXCEPT !.get = Get(b)]
  BY DEF Refreshed
<1> HIDE DEF s
<1> QED BY <1>1, <1>2, <1>3 DEF Hook

LEMMA ShownFacts ==
  ASSUME TypeOK, NEW v \in Hooks, FetchOK(v), NEW data \in Data
  PROVE  LET h == Shown(views[v], data) IN
           /\ h \in Hook /\ h.get = NoGet /\ h.val = data /\ h.err = views[v].err
           /\ h.late # "none" <=> v = "file" /\ op.at = "wait"
<1> DEFINE s == Superseded(views[v])
<1>2. /\ s \in Hook /\ s.get = NoGet /\ s.val = views[v].val /\ s.err = views[v].err
      /\ s.late # "none" <=> v = "file" /\ op.at = "wait"
  BY SupersededFacts
<1>3. Shown(views[v], data) = [s EXCEPT !.val = data]
  BY DEF Shown
<1> HIDE DEF s
<1> QED BY <1>2, <1>3 DEF Hook

LEMMA MountedFacts ==
  /\ \A h \in {Mounted, Unmounted} : h \in Hook /\ h.val = Null /\ h.late = "none"
                                      /\ h.get.awaited = FALSE /\ h.get.old = FALSE
  /\ Mounted.get.at = "sent" /\ Unmounted.get = NoGet
<1> DEFINE g == [NoGet EXCEPT !.at = "sent"]
<1>1. NoGet \in Fetch /\ NoGet.awaited = FALSE /\ NoGet.old = FALSE
  BY DEF NoGet, Fetch, Data
<1>2. g \in Fetch /\ g.awaited = FALSE /\ g.old = FALSE /\ g.at = "sent"
  BY DEF NoGet, Fetch, Data
<1>3. Null \in Data
  BY DEF Data
<1>4. /\ Unmounted \in Hook /\ Unmounted.val = Null /\ Unmounted.late = "none"
      /\ Unmounted.get = NoGet
  BY <1>1, <1>3 DEF Unmounted, Hook
<1>5. Mounted = [Unmounted EXCEPT !.get = g]
  BY DEF Mounted
<1> HIDE DEF g
<1>6. /\ Mounted \in Hook /\ Mounted.val = Null /\ Mounted.late = "none"
      /\ Mounted.get = g
  BY <1>2, <1>4, <1>5 DEF Hook
<1> QED BY <1>1, <1>2, <1>4, <1>6

-----------------------------------------------------------------------------
(* What a step keeps of a hook: all, when neither the hook nor what the     *)
(* server holds for it changed; what it shows, when it just sent a fetch.   *)
LEMMA KeptHook ==
  ASSUME NEW v \in Hooks, HookOK(v), views'[v] = views[v],
         Holds(v)' = Holds(v) \/ Behind(v)', Behind(v) => Behind(v)', v \in stale => v \in stale'
  PROVE  HookOK(v)'
BY DEF HookOK, FetchOK, ShownOK

LEMMA SentHook ==
  ASSUME NEW v \in Hooks, views'[v].get.at = "sent", views'[v].get.old = FALSE
  PROVE  HookOK(v)'
BY DEF HookOK, FetchOK, ShownOK

LEMMA InitInv == Init => IInv
<1> SUFFICES ASSUME Init PROVE IInv
  OBVIOUS
<1>1. TypeOK
  BY MountedFacts, FileTagsConstants DEF Init, TypeOK, Hooks, Closed, NoOp, Op, Data, Kinds
<1>2. ASSUME NEW v \in Hooks PROVE HookOK(v)
  BY MountedFacts DEF Init, HookOK, FetchOK, ShownOK, Hooks, NoGet
<1>3. OpInv /\ DuringInv
  BY DEF Init, OpInv, DuringInv, Toggling, NoOp
<1> QED BY <1>1, <1>2, <1>3 DEF IInv

(* The steps that change nothing but the workspace and its views.           *)
LEMMA OpenInv == ASSUME IInv, NEW t \in Tags \cup {NoTag}, Open(t) PROVE IInv'
<1>1. /\ views' = [views EXCEPT !["file"] = Mounted, !["catalog"] = Mounted]
      /\ UNCHANGED <<kind, pins, op, stale>> /\ ~ws.open
      /\ ws' = [open |-> TRUE, view |-> IF t = NoTag THEN "list" ELSE "edit", tag |-> t]
  BY DEF Open, Closed, server
<1>2. op = NoOp
  BY <1>1 DEF IInv, OpInv
<1>3. TypeOK'
  BY <1>1, <1>2, MountedFacts DEF IInv, TypeOK, Hooks, NoOp, Kinds
<1>4. ASSUME NEW v \in Hooks PROVE HookOK(v)'
  <2>1. CASE v \in {"file", "catalog"}
    BY <1>1, <2>1, MountedFacts, SentHook DEF IInv, TypeOK, Hooks
  <2>2. CASE v = "rail"
    BY <1>1, <2>2, KeptHook DEF IInv, TypeOK, Hooks, Holds, Kinds, Behind, Toggling
  <2> QED BY <2>1, <2>2 DEF Hooks
<1>5. OpInv' /\ DuringInv'
  BY <1>1, <1>2 DEF OpInv, DuringInv, Toggling, NoOp
<1> QED BY <1>3, <1>4, <1>5 DEF IInv

LEMMA LeaveInv == ASSUME IInv, NEW close \in BOOLEAN, Leave(close) PROVE IInv'
<1>1. /\ UNCHANGED <<kind, pins, op, stale>> /\ op.at = "idle"
      /\ views' = [views EXCEPT !["file"] = Unmounted, !["catalog"] = Unmounted] \/ UNCHANGED views
      /\ ws' \in [open : BOOLEAN, view : {"list", "edit", "delete"}, tag : Tags \cup {NoTag}]
  <2>1. Closed \in [open : BOOLEAN, view : {"list", "edit", "delete"}, tag : Tags \cup {NoTag}]
    BY DEF Closed
  <2>2. [Closed EXCEPT !.open = TRUE]
          \in [open : BOOLEAN, view : {"list", "edit", "delete"}, tag : Tags \cup {NoTag}]
    BY DEF Closed
  <2> QED BY <2>1, <2>2 DEF Leave, Idle, server
<1>2. op = NoOp
  BY <1>1 DEF IInv, OpInv
<1>3. TypeOK'
  BY <1>1, <1>2, MountedFacts DEF IInv, TypeOK, Hooks, NoOp, Kinds
<1>4. ASSUME NEW v \in Hooks PROVE HookOK(v)'
  <2>1. CASE views'[v] = Unmounted
    BY <2>1, MountedFacts DEF HookOK, FetchOK, ShownOK, NoGet
  <2>2. CASE views'[v] = views[v]
    BY <1>1, <2>2, KeptHook DEF IInv, Holds, Kinds, Behind, Toggling
  <2> QED BY <1>1, <2>1, <2>2 DEF IInv, TypeOK, Hooks
<1>5. OpInv' /\ DuringInv'
  BY <1>1, <1>2 DEF OpInv, DuringInv, Toggling, NoOp
<1> QED BY <1>3, <1>4, <1>5 DEF IInv

LEMMA ChooseInv ==
  ASSUME IInv, NEW view \in {"edit", "delete"}, NEW t \in Tags \cup {NoTag}, Choose(view, t)
  PROVE  IInv'
<1>1. /\ UNCHANGED <<kind, pins, views, op, stale>>
      /\ ws' = [ws EXCEPT !.view = view, !.tag = t]
  BY DEF Choose, server
<1>2. TypeOK'
  BY <1>1 DEF IInv, TypeOK, Kinds
<1>3. ASSUME NEW v \in Hooks PROVE HookOK(v)'
  BY <1>1, KeptHook DEF IInv, Holds, Kinds, Behind, Toggling
<1>4. OpInv' /\ DuringInv'
  BY <1>1 DEF IInv, TypeOK, OpInv, DuringInv, Toggling, NoOp
<1> QED BY <1>2, <1>3, <1>4 DEF IInv

(* The steps that only make hooks fetch again.                              *)
LEMMA FetchAgainInv ==
  ASSUME IInv, Retry \/ Revise
  PROVE  IInv'
<1>1. /\ UNCHANGED <<kind, pins, ws, op, stale>>
      /\ \A v \in Hooks : views'[v] = views[v] \/ views'[v] = Refreshed(views[v], FALSE)
      /\ views' = [v \in Hooks |-> views'[v]]
  <2>1. CASE Retry
    BY <2>1 DEF Retry, server, IInv, TypeOK, Hooks
  <2>2. CASE Revise
    BY <2>2 DEF Revise, server, IInv, TypeOK, Hooks
  <2> QED BY <2>1, <2>2
<1>2. ASSUME NEW v \in Hooks
      PROVE  /\ views'[v] \in Hook
             /\ views'[v].get.awaited = TRUE => v = "file" /\ views'[v].get = views[v].get
             /\ views'[v].late # "none" \/ views'[v].get.awaited
                  <=> views[v].late # "none" \/ views[v].get.awaited
             /\ views'[v].get.awaited => views'[v].late = "none"
             /\ views'[v].late # "none" => v = "file"
             /\ views'[v].get.at # "none" =>
                  views'[v].get = views[v].get \/ (views'[v].get.during <=> Toggling)
             /\ HookOK(v)'
  <2>1. CASE views'[v] = views[v]
    <3>1. HookOK(v)'
      BY <1>1, <2>1, KeptHook DEF IInv, Holds, Kinds, Behind, Toggling
    <3> QED BY <2>1, <3>1 DEF IInv, TypeOK
  <2>2. CASE views'[v] = Refreshed(views[v], FALSE)
    <3> DEFINE h == Refreshed(views[v], FALSE)
    <3>1. /\ h \in Hook /\ h.get = Get(FALSE)
          /\ h.late # "none" <=> v = "file" /\ op.at = "wait"
      BY RefreshedFacts DEF IInv, HookOK
    <3>2. /\ Get(FALSE).at = "sent" /\ Get(FALSE).old = FALSE /\ Get(FALSE).awaited = FALSE
          /\ (Get(FALSE).during <=> Toggling)
      BY GetFacts DEF IInv, TypeOK
    <3> HIDE DEF h
    <3>3. HookOK(v)'
      BY <2>2, <3>1, <3>2, SentHook DEF h
    <3> QED BY <2>2, <3>1, <3>2, <3>3 DEF IInv, TypeOK, h
  <2> QED BY <1>1, <2>1, <2>2
<1>3. TypeOK'
  BY <1>1, <1>2 DEF IInv, TypeOK, Kinds, Hooks
<1>4. OpInv' /\ DuringInv'
  BY <1>1, <1>2 DEF IInv, OpInv, DuringInv, Toggling, Hooks
<1> QED BY <1>2, <1>3, <1>4 DEF IInv

(* The steps that begin a handler.                                          *)
LEMMA ToggleInv == ASSUME IInv, NEW t \in Tags, Toggle(t) PROVE IInv'
<1> DEFINE data == views["file"].val
           k == IF t \in data.manual THEN "unpin" ELSE "pin"
           shown == Toggled(data, t)
           h == Shown(views["file"], shown)
<1>1. /\ UNCHANGED <<kind, pins, ws, stale>> /\ data \in Tagging /\ ws.open /\ op.at = "idle"
      /\ op' = [NoOp EXCEPT !.kind = k, !.tag = t, !.prev = data, !.at = "sent"]
      /\ views' = [views EXCEPT !["file"] = h]
  BY DEF Toggle, Begin, Idle, server, IInv, TypeOK, Hooks, Hook, Data
<1>2. op = NoOp
  BY <1>1 DEF IInv, OpInv
<1>3. k \in {"pin", "unpin"} /\ shown \in Data
  BY <1>1 DEF Toggled, Tagging, Data
<1>4. /\ op' \in Op /\ op'.kind \in {"pin", "unpin"} /\ op'.at = "sent" /\ op'.prev # Null
  <2>1. op' = [kind |-> k, tag |-> t, to |-> "none", assign |-> FALSE,
               prev |-> data, at |-> "sent", ok |-> FALSE]
    BY <1>1 DEF NoOp
  <2>2. data \in Data /\ data # Null
    BY <1>1, NullIsNothing DEF Data
  <2> HIDE DEF k, data
  <2> QED BY <1>3, <2>1, <2>2 DEF Op
<1>5. /\ h \in Hook /\ h.get = NoGet /\ h.val = shown /\ h.err = views["file"].err
      /\ h.late = "none"
  <2>1. h.late # "none" <=> op.at = "wait"
    BY <1>3, ShownFacts DEF IInv, HookOK, Hooks
  <2>2. h \in Hook /\ h.get = NoGet /\ h.val = shown /\ h.err = views["file"].err
    BY <1>3, ShownFacts DEF IInv, HookOK, Hooks
  <2> QED BY <1>1, <2>1, <2>2
<1> HIDE DEF data, k, shown, h
<1>6. TypeOK'
  <2>1. NoGet.awaited = FALSE
    BY DEF NoGet
  <2> QED BY <1>1, <1>2, <1>4, <1>5, <2>1 DEF IInv, TypeOK, Hooks, NoOp, Kinds
<1>7. ASSUME NEW v \in Hooks PROVE HookOK(v)'
  <2>1. CASE v = "file"
    <3>1. views'[v] = h /\ Behind(v)'
      BY <1>1, <1>4, <2>1 DEF IInv, TypeOK, Behind, Toggling
    <3> QED BY <1>5, <3>1 DEF HookOK, FetchOK, ShownOK, NoGet
  <2>2. CASE v # "file"
    BY <1>1, <1>2, <2>2, KeptHook DEF IInv, TypeOK, Holds, Kinds, Behind, Toggling, NoOp
  <2> QED BY <2>1, <2>2
<1>8. OpInv' /\ DuringInv'
  <2>1. NoGet.at = "none"
    BY DEF NoGet
  <2> QED BY <1>1, <1>4, <1>5, <2>1 DEF IInv, TypeOK, Hooks, OpInv, DuringInv, Toggling
<1> QED BY <1>6, <1>7, <1>8 DEF IInv

LEMMA BeginInv ==
  ASSUME IInv,
         Remove \/ \E to \in {"manual", "smart"}, assign \in BOOLEAN : Save(to, assign)
  PROVE  IInv'
<1>1. /\ UNCHANGED <<kind, pins, views, ws, stale>> /\ ws.open /\ op.at = "idle"
      /\ op' \in Op /\ op'.at = "sent" /\ op'.kind \in {"save", "remove"}
      /\ op'.kind = "save" => op'.to \in {"manual", "smart"}
  <2>1. CASE Remove
    <3>1. /\ UNCHANGED <<kind, pins, views, ws, stale>> /\ ws.open /\ op.at = "idle"
          /\ op' = [NoOp EXCEPT !.kind = "remove", !.tag = ws.tag, !.at = "sent"]
      BY <2>1 DEF Remove, Begin, Idle, server
    <3>2. op' = [kind |-> "remove", tag |-> ws.tag, to |-> "none", assign |-> FALSE,
                 prev |-> Null, at |-> "sent", ok |-> FALSE]
      BY <3>1 DEF NoOp
    <3>3. ws.tag \in Tags \cup {NoTag}
      BY DEF IInv, TypeOK
    <3>4. op' \in Op
      BY <3>2, <3>3 DEF Op, Data
    <3> QED BY <3>1, <3>2, <3>4
  <2>2. CASE \E to \in {"manual", "smart"}, assign \in BOOLEAN : Save(to, assign)
    <3>1. PICK to \in {"manual", "smart"}, assign \in BOOLEAN : Save(to, assign)
      BY <2>2
    <3>2. /\ UNCHANGED <<kind, pins, views, ws, stale>> /\ ws.open /\ op.at = "idle"
          /\ op' = [NoOp EXCEPT !.kind = "save", !.tag = ws.tag, !.to = to,
                                !.assign = assign, !.at = "sent"]
      BY <3>1 DEF Save, Begin, Idle, server
    <3>3. op' = [kind |-> "save", tag |-> ws.tag, to |-> to, assign |-> assign,
                 prev |-> Null, at |-> "sent", ok |-> FALSE]
      BY <3>2 DEF NoOp
    <3>4. ws.tag \in Tags \cup {NoTag}
      BY DEF IInv, TypeOK
    <3>5. op' \in Op
      BY <3>3, <3>4 DEF Op, Data
    <3> QED BY <3>2, <3>3, <3>5
  <2> QED BY <2>1, <2>2
<1>2. op = NoOp
  BY <1>1 DEF IInv, OpInv
<1>3. TypeOK'
  BY <1>1, <1>2 DEF IInv, TypeOK, NoOp, Kinds
<1>4. ASSUME NEW v \in Hooks PROVE HookOK(v)'
  BY <1>1, <1>2, KeptHook DEF IInv, Holds, Kinds, Behind, Toggling, NoOp
<1>5. OpInv' /\ DuringInv'
  BY <1>1 DEF OpInv, DuringInv, Toggling
<1> QED BY <1>3, <1>4, <1>5 DEF IInv

-----------------------------------------------------------------------------
(* The steps of the server.                                                 *)

(* What it holds stays a set of tags that exist.                            *)
LEMMA AcceptsFacts ==
  ASSUME TypeOK, NEW t \in Tags, Accepts(op, t), op.at = "sent",
         op.kind # "none", op.kind = "save" => op.to \in {"manual", "smart"}
  PROVE  /\ kind' \in [Tags -> {"none", "manual", "smart"}] /\ pins' \subseteq Kinds("manual")'
         /\ op.kind \in {"pin", "unpin", "assign", "save", "remove"}
         /\ op.kind \in {"save", "remove"} \/ UNCHANGED kind
<1>1. CASE op.kind \in {"pin", "assign"}
  BY <1>1 DEF Accepts, TypeOK, Kinds
<1>2. CASE op.kind = "unpin"
  BY <1>2 DEF Accepts, TypeOK, Kinds
<1>3. CASE op.kind = "save"
  <2>1. /\ (kind[t] = "none") <=> (op.tag = NoTag)
        /\ kind' = [kind EXCEPT ![t] = op.to] /\ op.to \in {"manual", "smart"}
        /\ pins' = IF op.to = "smart" THEN pins \ {t} ELSE pins
    BY <1>3 DEF Accepts
  <2> QED BY <1>3, <2>1 DEF TypeOK, Kinds
<1>4. CASE op.kind = "remove"
  <2>1. kind' = [kind EXCEPT ![t] = "none"] /\ pins' = pins \ {t}
    BY <1>4 DEF Accepts
  <2> QED BY <1>4, <2>1 DEF TypeOK, Kinds
<1> QED BY <1>1, <1>2, <1>3, <1>4 DEF TypeOK, Op

(* A change this page was not told of leaves every view with a fetch to     *)
(* wait for or marked.                                                      *)
LEMMA OutdatedHook ==
  ASSUME IInv, views' = Outdated, stale' = Hooks, NEW v \in Hooks
  PROVE  /\ views'[v] \in Hook /\ HookOK(v)' /\ views'[v].late = views[v].late
         /\ views'[v].get.awaited = views[v].get.awaited
         /\ views'[v].get.at = views[v].get.at /\ views'[v].get.during = views[v].get.during
<1> DEFINE g == views[v].get
           b == g.old \/ g.at = "back"
           n == [g EXCEPT !.old = b]
<1>1. views[v] \in Hook /\ g \in Fetch /\ b \in BOOLEAN /\ FetchOK(v)
  BY DEF IInv, TypeOK, Hook, Fetch, HookOK
<1>2. views'[v] = [views[v] EXCEPT !.get = n]
  BY DEF Outdated
<1>3. /\ n \in Fetch /\ n.at = g.at /\ n.awaited = g.awaited /\ n.during = g.during
      /\ n.old = b /\ n.ok = g.ok
      /\ g = NoGet => n = NoGet
  <2>1. NoGet.old = FALSE /\ NoGet.at = "none"
    BY DEF NoGet
  <2>2. g = NoGet => n = NoGet
    <3>1. g = NoGet => ~b
      BY <2>1
    <3> HIDE DEF b
    <3>2. g = NoGet => b = g.old
      BY <1>1, <2>1, <3>1
    <3>3. b = g.old => n = g
      BY <1>1 DEF Fetch
    <3> QED BY <3>2, <3>3
  <2> HIDE DEF b
  <2> QED BY <1>1, <2>2 DEF Fetch
<1>4. g.at = "none" => n = NoGet
  BY <1>1, <1>3 DEF FetchOK
<1>5. g.at = "back" => n.old = TRUE
  BY <1>3
<1> HIDE DEF n, b
<1>6. views'[v] \in Hook /\ views'[v].get = n /\ views'[v].late = views[v].late
  BY <1>1, <1>2, <1>3 DEF Hook
<1>7. HookOK(v)'
  BY <1>3, <1>4, <1>5, <1>6 DEF HookOK, FetchOK, ShownOK
<1> QED BY <1>3, <1>6, <1>7

LEMMA ServeOpInv == ASSUME IInv, ServeOp PROVE IInv'
<1>1. op \in Op /\ op.at = "sent" /\ op.kind # "none" /\ UNCHANGED <<ws, turns>>
  BY DEF ServeOp, IInv, TypeOK, OpInv
<1>2. ASSUME NEW ok \in BOOLEAN, NEW t \in Tags \cup {NoTag},
             op' = [op EXCEPT !.at = "back", !.ok = ok, !.tag = t]
      PROVE  /\ op' \in Op /\ op'.at = "back" /\ op'.ok = ok /\ op'.kind = op.kind
             /\ OpInv' /\ (Toggling <=> Toggling')
  <2>1. /\ op' \in Op /\ op'.at = "back" /\ op'.ok = ok /\ op'.kind = op.kind
        /\ op'.to = op.to /\ op'.prev = op.prev
    BY <1>1, <1>2 DEF Op
  <2> QED BY <1>1, <2>1 DEF IInv, OpInv, Toggling
<1>3. op.at = "sent" /\ op' = [op EXCEPT !.at = "back", !.ok = FALSE]
        => op' = [op EXCEPT !.at = "back", !.ok = FALSE, !.tag = op.tag]
  BY <1>1 DEF Op
<1>4. CASE op' = [op EXCEPT !.at = "back", !.ok = FALSE] /\ UNCHANGED <<server, views, stale>>
  <2>1. /\ op' \in Op /\ op'.at = "back" /\ op'.ok = FALSE /\ op'.kind = op.kind
        /\ OpInv' /\ (Toggling <=> Toggling')
    BY <1>1, <1>2, <1>3, <1>4 DEF Op
  <2>2. TypeOK'
    BY <1>1, <1>4, <2>1 DEF IInv, TypeOK, Kinds, server
  <2>3. ASSUME NEW v \in Hooks PROVE HookOK(v)'
    BY <1>1, <1>4, <2>1, KeptHook DEF IInv, Holds, Kinds, Behind, server
  <2>4. DuringInv'
    BY <1>4, <2>1 DEF IInv, DuringInv
  <2> QED BY <2>1, <2>2, <2>3, <2>4 DEF IInv
<1>5. ASSUME NEW t \in Tags, Accepts(op, t),
             op' = [op EXCEPT !.at = "back", !.ok = TRUE, !.tag = t], UNCHANGED <<views, stale>>
      PROVE  IInv'
  <2>1. /\ op' \in Op /\ op'.at = "back" /\ op'.ok = TRUE /\ op'.kind = op.kind
        /\ OpInv' /\ (Toggling <=> Toggling')
    BY <1>2, <1>5
  <2>2. /\ kind' \in [Tags -> {"none", "manual", "smart"}] /\ pins' \subseteq Kinds("manual")'
        /\ op.kind \in {"save", "remove"} \/ UNCHANGED kind
    BY <1>1, <1>5, AcceptsFacts DEF IInv, OpInv
  <2>3. TypeOK'
    BY <1>1, <1>5, <2>1, <2>2 DEF IInv, TypeOK
  <2>4. ASSUME NEW v \in Hooks PROVE HookOK(v)'
    <3>1. Behind(v)' \/ (v = "catalog" /\ UNCHANGED kind)
      BY <2>1, <2>2 DEF Behind
    <3>2. v = "catalog" /\ UNCHANGED kind => Holds(v)' = Holds(v)
      BY DEF Holds, Kinds
    <3>3. Behind(v) => Behind(v)'
      BY <1>1, <2>1, <3>1 DEF Behind
    <3> QED BY <1>5, <3>1, <3>2, <3>3, KeptHook DEF IInv
  <2>5. DuringInv'
    BY <1>5, <2>1 DEF IInv, DuringInv
  <2> QED BY <2>1, <2>3, <2>4, <2>5 DEF IInv
<1>6. ASSUME NEW t \in Tags, Accepts(op, t),
             op' = [op EXCEPT !.at = "back", !.ok = FALSE], views' = Outdated, stale' = Hooks
      PROVE  IInv'
  <2>1. /\ op' \in Op /\ op'.at = "back" /\ op'.ok = FALSE /\ op'.kind = op.kind
        /\ OpInv' /\ (Toggling <=> Toggling')
    BY <1>1, <1>2, <1>3, <1>6 DEF Op
  <2>2. kind' \in [Tags -> {"none", "manual", "smart"}] /\ pins' \subseteq Kinds("manual")'
    BY <1>1, <1>6, AcceptsFacts DEF IInv, OpInv
  <2>3. ASSUME NEW v \in Hooks
        PROVE  /\ views'[v] \in Hook /\ HookOK(v)' /\ views'[v].late = views[v].late
               /\ views'[v].get.awaited = views[v].get.awaited
               /\ views'[v].get.at = views[v].get.at
               /\ views'[v].get.during = views[v].get.during
    BY <1>6, OutdatedHook
  <2>4. views' = [v \in Hooks |-> views'[v]]
    BY <1>6 DEF Outdated
  <2>5. TypeOK'
    BY <1>1, <1>6, <2>1, <2>2, <2>3, <2>4 DEF IInv, TypeOK, Hooks
  <2>6. DuringInv'
    BY <2>1, <2>3 DEF IInv, DuringInv, Hooks
  <2> QED BY <2>1, <2>3, <2>5, <2>6 DEF IInv
<1> QED BY <1>4, <1>5, <1>6 DEF ServeOp

LEMMA OtherChangesInv == ASSUME IInv, NEW t \in Tags, OtherChanges(t) PROVE IInv'
<1>1. UNCHANGED <<ws, op>> /\ stale' = Hooks /\ views' = Outdated
  BY DEF OtherChanges
<1>2. kind' \in [Tags -> {"none", "manual", "smart"}] /\ pins' \subseteq Kinds("manual")'
  <2>1. kind \in [Tags -> {"none", "manual", "smart"}] /\ pins \subseteq Kinds("manual")
    BY DEF IInv, TypeOK
  <2>2. CASE \E k \in {"none", "manual", "smart"} \ {kind[t]} :
               kind' = [kind EXCEPT ![t] = k] /\ pins' = pins \ {t}
    BY <2>1, <2>2 DEF Kinds
  <2>3. CASE /\ kind[t] = "manual" /\ UNCHANGED kind
             /\ pins' = IF t \in pins THEN pins \ {t} ELSE pins \cup {t}
    BY <2>1, <2>3 DEF Kinds
  <2> QED BY <2>2, <2>3 DEF OtherChanges
<1>3. ASSUME NEW v \in Hooks
      PROVE  /\ views'[v] \in Hook /\ HookOK(v)' /\ views'[v].late = views[v].late
             /\ views'[v].get.awaited = views[v].get.awaited
             /\ views'[v].get.at = views[v].get.at
             /\ views'[v].get.during = views[v].get.during
  BY <1>1, OutdatedHook
<1>4. views' = [v \in Hooks |-> views'[v]]
  BY <1>1 DEF Outdated
<1>5. TypeOK'
  BY <1>1, <1>2, <1>3, <1>4 DEF IInv, TypeOK, Hooks
<1>6. OpInv' /\ DuringInv'
  BY <1>1, <1>3 DEF IInv, OpInv, DuringInv, Toggling, Hooks
<1> QED BY <1>3, <1>5, <1>6 DEF IInv

LEMMA ServeGetInv == ASSUME IInv, NEW v \in Hooks, ServeGet(v) PROVE IInv'
<1>1. UNCHANGED <<kind, pins, ws, op, stale>> /\ views[v] \in Hook /\ views[v].get \in Fetch
  BY DEF ServeGet, server, IInv, TypeOK, Hook
<1>2. views' = [views EXCEPT ![v] = views'[v]]
  BY DEF ServeGet, IInv, TypeOK
<1>3. ASSUME NEW ok \in BOOLEAN, views[v].get.at = "sent",
             views' = [views EXCEPT ![v].get.at = "back", ![v].get.ok = ok,
                                    ![v].get.val = IF ok THEN Holds(v) ELSE Null]
      PROVE  /\ views'[v] \in Hook /\ HookOK(v)' /\ views'[v].late = views[v].late
             /\ views'[v].get.awaited = views[v].get.awaited
             /\ views[v].get.at # "none" /\ views'[v].get.during = views[v].get.during
  <2> DEFINE val == IF ok THEN Holds(v) ELSE Null
             n == [views[v].get EXCEPT !.at = "back", !.ok = ok, !.val = val]
  <2>1. val \in Data
    BY HoldsType DEF IInv, TypeOK, Data
  <2>2. ok => val = Holds(v)'
    BY <1>1 DEF Holds, Kinds
  <2>3. views'[v] = [views[v] EXCEPT !.get = n]
    BY <1>1, <1>3 DEF IInv, TypeOK, Hook, Fetch
  <2> HIDE DEF val
  <2>4. /\ n \in Fetch /\ n.at = "back" /\ n.ok = ok /\ n.val = val
        /\ n.awaited = views[v].get.awaited /\ n.during = views[v].get.during
        /\ n.old = views[v].get.old
    BY <1>1, <2>1 DEF Fetch
  <2> HIDE DEF n
  <2>5. views'[v] \in Hook /\ views'[v].get = n /\ views'[v].late = views[v].late
    BY <1>1, <2>3, <2>4 DEF Hook
  <2>6. HookOK(v)'
    BY <1>1, <2>2, <2>4, <2>5 DEF HookOK, FetchOK, ShownOK, IInv
  <2> QED BY <1>3, <2>4, <2>5, <2>6
<1>4. ASSUME views[v].late = "sent", views' = [views EXCEPT ![v].late = "back"]
      PROVE  /\ views'[v] \in Hook /\ HookOK(v)' /\ views'[v].late = "back"
             /\ views'[v].get = views[v].get
  <2>1. views'[v] \in Hook /\ views'[v].late = "back" /\ views'[v].get = views[v].get
        /\ views'[v].val = views[v].val /\ views'[v].err = views[v].err
    BY <1>1, <1>4 DEF IInv, TypeOK, Hook
  <2>2. HookOK(v)'
    BY <1>1, <2>1 DEF IInv, HookOK, FetchOK, ShownOK, Holds, Kinds, Behind, Toggling
  <2> QED BY <2>1, <2>2
<1>5. /\ views'[v] \in Hook /\ HookOK(v)' /\ (views'[v].late = "none" <=> views[v].late = "none")
      /\ views'[v].get.awaited = views[v].get.awaited
      /\ views[v].get.at = "none" => views'[v].get = views[v].get
      /\ views'[v].get.during = views[v].get.during
  BY <1>3, <1>4 DEF ServeGet
<1>6. TypeOK'
  <2>1. \A w \in Hooks : /\ views'[w] \in Hook
                         /\ views'[w].late = "none" <=> views[w].late = "none"
                         /\ views'[w].get.awaited = views[w].get.awaited
    BY <1>2, <1>5 DEF IInv, TypeOK
  <2>2. views' \in [Hooks -> Hook]
    BY <1>2, <1>5 DEF IInv, TypeOK
  <2> QED BY <1>1, <2>1, <2>2 DEF IInv, TypeOK, Kinds, Hooks
<1>7. ASSUME NEW w \in Hooks PROVE HookOK(w)'
  <2>1. CASE w # v
    BY <1>1, <1>2, <2>1, KeptHook DEF IInv, TypeOK, Holds, Kinds, Behind, Toggling
  <2> QED BY <1>5, <2>1
<1>8. OpInv' /\ DuringInv'
  BY <1>1, <1>2, <1>5 DEF IInv, TypeOK, OpInv, DuringInv, Toggling, Hooks
<1> QED BY <1>6, <1>7, <1>8 DEF IInv

-----------------------------------------------------------------------------
(* The steps of the handlers.                                               *)

(* The handler ends, or fetches again, and leaves the workspace as it is or *)
(* on the list.                                                             *)
LEMMA RefreshedHook ==
  ASSUME IInv, NEW v \in Hooks, NEW b \in BOOLEAN, views'[v] = Refreshed(views[v], b)
  PROVE  /\ views'[v] \in Hook /\ HookOK(v)' /\ views'[v].get.awaited = b
         /\ views'[v].late # "none" <=> v = "file" /\ op.at = "wait"
         /\ views'[v].val = views[v].val /\ (views'[v].get.during <=> Toggling)
<1> DEFINE h == Refreshed(views[v], b)
<1>1. /\ h \in Hook /\ h.get = Get(b) /\ h.val = views[v].val
      /\ h.late # "none" <=> v = "file" /\ op.at = "wait"
  BY RefreshedFacts DEF IInv, HookOK
<1>2. /\ Get(b).at = "sent" /\ Get(b).old = FALSE /\ Get(b).awaited = b
      /\ (Get(b).during <=> Toggling)
  BY GetFacts DEF IInv, TypeOK
<1> HIDE DEF h
<1>3. HookOK(v)'
  BY <1>1, <1>2, SentHook DEF h
<1> QED BY <1>1, <1>2, <1>3 DEF h

LEMMA ListingType ==
  Listing \in [open : BOOLEAN, view : {"list", "edit", "delete"}, tag : Tags \cup {NoTag}]
    /\ Listing.open = TRUE
BY DEF Listing, Closed

LEMMA NoOpFacts == NoOp \in Op /\ NoOp.at = "idle" /\ NoOp.kind = "none"
BY DEF NoOp, Op, Data

LEMMA WaitingFacts ==
  ASSUME NEW k \in {"pin", "unpin", "save", "assign"}
  PROVE  Waiting(k) \in Op /\ Waiting(k).at = "wait" /\ Waiting(k).kind = k
<1>1. Waiting(k) = [NoOp EXCEPT !.kind = k, !.at = "wait"]
  BY DEF Waiting
<1> QED BY <1>1, NoOpFacts DEF Op

LEMMA ToggleAnsweredInv == ASSUME IInv, DeliverOp, ToggleAnswered PROVE IInv'
<1>1. /\ op.at = "back" /\ op.kind \in {"pin", "unpin"} /\ UNCHANGED <<kind, pins, ws>>
      /\ stale' = IF ~op.ok /\ op.prev # Null THEN stale \cup {"file"} ELSE stale
      /\ op.prev # Null /\ op.prev \in Data /\ ws.open /\ op.ok \in BOOLEAN /\ Toggling
  <2>1. /\ op.at = "back" /\ op.kind \in {"pin", "unpin"} /\ UNCHANGED <<kind, pins, ws>>
        /\ stale' = IF ~op.ok /\ op.prev # Null THEN stale \cup {"file"} ELSE stale
    BY DEF DeliverOp, ToggleAnswered, server
  <2>2. op.prev \in Data /\ op.ok \in BOOLEAN
    BY DEF IInv, TypeOK, Op
  <2>3. Toggling /\ op.prev # Null /\ ws.open
    BY <2>1 DEF IInv, OpInv, Toggling
  <2> QED BY <2>1, <2>2, <2>3
<1>2. CASE op.ok
  <2>1. views' = [views EXCEPT !["file"] = Refreshed(@, TRUE)] /\ op' = Waiting(op.kind)
        /\ UNCHANGED stale
    BY <1>1, <1>2 DEF ToggleAnswered
  <2>2. /\ op' \in Op /\ op'.at = "wait" /\ op'.kind = op.kind
    BY <1>1, <2>1, WaitingFacts
  <2>3. /\ views'["file"] \in Hook /\ HookOK("file")' /\ views'["file"].get.awaited = TRUE
        /\ views'["file"].late = "none"
    <3>1. views'["file"] = Refreshed(views["file"], TRUE)
      BY <2>1 DEF IInv, TypeOK, Hooks
    <3> QED BY <1>1, <3>1, RefreshedHook DEF Hooks
  <2>4. TypeOK'
    BY <1>1, <2>1, <2>2, <2>3 DEF IInv, TypeOK, Kinds, Hooks
  <2>5. ASSUME NEW v \in Hooks PROVE HookOK(v)'
    <3>1. CASE v # "file"
      <4>1. views'[v] = views[v] /\ Holds(v)' = Holds(v)
        BY <1>1, <2>1, <3>1 DEF IInv, TypeOK, Holds, Kinds
      <4>2. Behind(v) => v = "rail" \/ Behind(v)'
        BY <1>1, <2>2, <3>1 DEF Behind, Toggling, Hooks
      <4>3. v = "rail" => Behind(v)'
        BY <1>1, <2>2 DEF Behind
      <4> QED BY <2>1, <4>1, <4>2, <4>3, KeptHook DEF IInv
    <3> QED BY <2>3, <3>1
  <2>6. OpInv' /\ DuringInv'
    BY <1>1, <2>2 DEF OpInv, DuringInv, Toggling
  <2> QED BY <2>4, <2>5, <2>6 DEF IInv
<1>3. CASE ~op.ok
  <2>1. views' = [views EXCEPT !["file"] = Shown(@, op.prev)] /\ op' = NoOp
        /\ stale' = stale \cup {"file"}
    BY <1>1, <1>3 DEF ToggleAnswered
  <2> DEFINE h == Shown(views["file"], op.prev)
  <2>2. h \in Hook /\ h.get = NoGet /\ h.late = "none"
    <3>1. h.late # "none" <=> op.at = "wait"
      BY <1>1, ShownFacts DEF IInv, HookOK, Hooks
    <3>2. h \in Hook /\ h.get = NoGet
      BY <1>1, ShownFacts DEF IInv, HookOK, Hooks
    <3> QED BY <1>1, <3>1, <3>2
  <2>3. views' = [views EXCEPT !["file"] = h] /\ NoGet.awaited = FALSE /\ NoGet.at = "none"
    BY <2>1 DEF NoGet
  <2> HIDE DEF h
  <2>4. TypeOK'
    BY <1>1, <2>1, <2>2, <2>3, NoOpFacts DEF IInv, TypeOK, Kinds, Hooks
  <2>5. ASSUME NEW v \in Hooks PROVE HookOK(v)'
    <3>1. CASE v = "file"
      BY <2>1, <2>2, <2>3, <3>1 DEF IInv, TypeOK, HookOK, FetchOK, ShownOK, NoGet
    <3>2. CASE v # "file"
      BY <1>1, <1>3, <2>1, <2>3, <3>2, KeptHook
        DEF IInv, TypeOK, Holds, Kinds, Behind, Toggling, NoOp
    <3> QED BY <3>1, <3>2
  <2>6. OpInv' /\ DuringInv'
    BY <1>1, <2>1 DEF OpInv, DuringInv, Toggling, NoOp
  <2> QED BY <2>4, <2>5, <2>6 DEF IInv
<1> QED BY <1>2, <1>3

LEMMA AllRefreshedFacts ==
  ASSUME IInv, op.at = "back", NEW b \in BOOLEAN,
         views' = [AllRefreshed EXCEPT !["file"] = Refreshed(views["file"], b)]
  PROVE  /\ views' \in [Hooks -> Hook] /\ (\A v \in Hooks : HookOK(v)')
         /\ \A v \in Hooks : views'[v].late = "none" /\ views'[v].get.awaited = (b /\ v = "file")
<1>1. ASSUME NEW v \in Hooks
      PROVE  views'[v] = Refreshed(views[v], b /\ v = "file")
  BY DEF AllRefreshed, Hooks
<1>2. ASSUME NEW v \in Hooks
      PROVE  /\ views'[v] \in Hook /\ HookOK(v)' /\ views'[v].late = "none"
             /\ views'[v].get.awaited = (b /\ v = "file")
  <2> DEFINE c == b /\ v = "file"
  <2>1. c \in BOOLEAN /\ views'[v] = Refreshed(views[v], c)
    BY <1>1
  <2> HIDE DEF c
  <2>2. /\ views'[v] \in Hook /\ HookOK(v)' /\ views'[v].get.awaited = c
        /\ views'[v].late # "none" <=> v = "file" /\ op.at = "wait"
    BY <2>1, RefreshedHook
  <2> QED BY <2>2 DEF c
<1>3. views' = [v \in Hooks |-> views'[v]]
  BY DEF AllRefreshed
<1> QED BY <1>2, <1>3

LEMMA SaveAnsweredInv == ASSUME IInv, DeliverOp, SaveAnswered PROVE IInv'
<1>1. /\ op.at = "back" /\ op.kind = "save" /\ UNCHANGED <<kind, pins, ws>>
      /\ ws.open /\ op.ok \in BOOLEAN /\ op \in Op /\ op.assign \in BOOLEAN
  BY DEF DeliverOp, SaveAnswered, server, IInv, TypeOK, OpInv, Op
<1>2. stale \subseteq stale' /\ stale' \subseteq Hooks
  BY DEF DeliverOp, IInv, TypeOK, Hooks
<1>3. CASE op.ok
  <2> DEFINE b == ~op.assign
  <2>1. /\ b \in BOOLEAN
        /\ views' = [AllRefreshed EXCEPT !["file"] = Refreshed(views["file"], b)]
    <3>1. CASE op.assign
      <4>1. views' = AllRefreshed /\ b = FALSE
        BY <1>3, <3>1 DEF SaveAnswered
      <4> QED BY <4>1 DEF AllRefreshed, Hooks
    <3>2. CASE ~op.assign
      <4>1. views' = [AllRefreshed EXCEPT !["file"] = Refreshed(views["file"], TRUE)] /\ b = TRUE
        BY <1>3, <3>2 DEF SaveAnswered
      <4> QED BY <4>1
    <3> QED BY <3>1, <3>2
  <2>2. /\ op' \in Op /\ op'.kind \in {"save", "assign"} /\ op'.at \in {"sent", "wait"}
        /\ op'.at = "wait" <=> b
        /\ op'.kind = "save" => op'.at = "wait"
    <3>1. CASE op.assign
      <4>1. op' = [op EXCEPT !.kind = "assign", !.at = "sent"]
        BY <1>3, <3>1 DEF SaveAnswered
      <4> QED BY <1>1, <3>1, <4>1 DEF Op
    <3>2. CASE ~op.assign
      <4>1. op' = Waiting("save")
        BY <1>1, <1>3, <3>2 DEF SaveAnswered
      <4> QED BY <3>2, <4>1, WaitingFacts
    <3> QED BY <3>1, <3>2
  <2> HIDE DEF b
  <2>3. /\ views' \in [Hooks -> Hook] /\ (\A v \in Hooks : HookOK(v)')
        /\ \A v \in Hooks : views'[v].late = "none" /\ views'[v].get.awaited = (b /\ v = "file")
    BY <1>1, <2>1, AllRefreshedFacts
  <2>4. TypeOK'
    BY <1>1, <1>2, <2>1, <2>2, <2>3 DEF IInv, TypeOK, Kinds, Hooks
  <2>5. OpInv' /\ DuringInv'
    BY <1>1, <2>2 DEF OpInv, DuringInv, Toggling
  <2> QED BY <2>3, <2>4, <2>5 DEF IInv
<1>4. CASE ~op.ok
  <2>1. UNCHANGED views /\ op' = NoOp
    BY <1>4 DEF SaveAnswered
  <2>2. TypeOK'
    BY <1>1, <1>2, <2>1, NoOpFacts DEF IInv, TypeOK, Kinds
  <2>3. ASSUME NEW v \in Hooks PROVE HookOK(v)'
    BY <1>1, <1>2, <1>4, <2>1, KeptHook DEF IInv, Holds, Kinds, Behind, Toggling, NoOp
  <2>4. OpInv' /\ DuringInv'
    BY <2>1, NoOpFacts DEF OpInv, DuringInv, Toggling
  <2> QED BY <2>2, <2>3, <2>4 DEF IInv
<1> QED BY <1>1, <1>3, <1>4

LEMMA AssignAnsweredInv == ASSUME IInv, DeliverOp, AssignAnswered PROVE IInv'
<1>1. /\ op.at = "back" /\ op.kind = "assign" /\ UNCHANGED <<kind, pins>>
      /\ ws.open /\ op.ok \in BOOLEAN /\ op \in Op
  BY DEF DeliverOp, AssignAnswered, server, IInv, TypeOK, OpInv, Op
<1>2. stale \subseteq stale' /\ stale' \subseteq Hooks
  BY DEF DeliverOp, IInv, TypeOK, Hooks
<1>3. CASE op.ok
  <2>1. views' = [views EXCEPT !["file"] = Refreshed(@, TRUE)] /\ op' = Waiting("assign")
        /\ UNCHANGED ws
    BY <1>1, <1>3 DEF AssignAnswered
  <2>2. /\ op' \in Op /\ op'.at = "wait" /\ op'.kind = "assign"
    BY <2>1, WaitingFacts
  <2>3. /\ views'["file"] \in Hook /\ HookOK("file")' /\ views'["file"].get.awaited = TRUE
        /\ views'["file"].late = "none"
    <3>1. views'["file"] = Refreshed(views["file"], TRUE)
      BY <2>1 DEF IInv, TypeOK, Hooks
    <3> QED BY <1>1, <3>1, RefreshedHook DEF Hooks
  <2>4. TypeOK'
    BY <1>1, <1>2, <2>1, <2>2, <2>3 DEF IInv, TypeOK, Kinds, Hooks
  <2>5. ASSUME NEW v \in Hooks PROVE HookOK(v)'
    <3>1. CASE v # "file"
      <4>1. views'[v] = views[v] /\ Holds(v)' = Holds(v)
        BY <1>1, <2>1, <3>1 DEF IInv, TypeOK, Holds, Kinds
      <4>2. Behind(v) => v = "rail"
        BY <1>1, <3>1 DEF Behind, Toggling, Hooks
      <4>3. v = "rail" => Behind(v)'
        BY <1>1, <2>2 DEF Behind
      <4> QED BY <1>2, <4>1, <4>2, <4>3, KeptHook DEF IInv
    <3> QED BY <2>3, <3>1
  <2>6. OpInv' /\ DuringInv'
    BY <1>1, <2>1, <2>2 DEF OpInv, DuringInv, Toggling
  <2> QED BY <2>4, <2>5, <2>6 DEF IInv
<1>4. CASE ~op.ok
  <2>1. UNCHANGED views /\ op' = NoOp /\ ws' = Listing
    BY <1>4 DEF AssignAnswered
  <2>2. TypeOK'
    BY <1>1, <1>2, <2>1, NoOpFacts, ListingType DEF IInv, TypeOK, Kinds
  <2>3. ASSUME NEW v \in Hooks PROVE HookOK(v)'
    BY <1>1, <1>2, <1>4, <2>1, KeptHook DEF IInv, Holds, Kinds, Behind, Toggling, NoOp
  <2>4. OpInv' /\ DuringInv'
    BY <2>1, NoOpFacts DEF OpInv, DuringInv, Toggling
  <2> QED BY <2>2, <2>3, <2>4 DEF IInv
<1> QED BY <1>1, <1>3, <1>4

LEMMA RemoveAnsweredInv == ASSUME IInv, DeliverOp, RemoveAnswered PROVE IInv'
<1>1. /\ op.at = "back" /\ op.kind = "remove" /\ UNCHANGED <<kind, pins>> /\ op' = NoOp
      /\ ws.open /\ op.ok \in BOOLEAN /\ op \in Op
  BY DEF DeliverOp, RemoveAnswered, server, IInv, TypeOK, OpInv, Op
<1>2. stale \subseteq stale' /\ stale' \subseteq Hooks
  BY DEF DeliverOp, IInv, TypeOK, Hooks
<1>3. OpInv' /\ DuringInv'
  BY <1>1, NoOpFacts DEF OpInv, DuringInv, Toggling
<1>4. CASE op.ok
  <2>1. /\ views' = [AllRefreshed EXCEPT !["file"] = Refreshed(views["file"], FALSE)]
        /\ ws' = Listing
    BY <1>4 DEF RemoveAnswered, AllRefreshed, Hooks
  <2>2. /\ views' \in [Hooks -> Hook] /\ (\A v \in Hooks : HookOK(v)')
        /\ \A v \in Hooks : views'[v].late = "none"
                             /\ views'[v].get.awaited = (FALSE /\ v = "file")
    BY <1>1, <2>1, AllRefreshedFacts
  <2>3. TypeOK'
    BY <1>1, <1>2, <2>1, <2>2, NoOpFacts, ListingType DEF IInv, TypeOK, Kinds, Hooks
  <2> QED BY <1>3, <2>2, <2>3 DEF IInv
<1>5. CASE ~op.ok
  <2>1. UNCHANGED <<views, ws>>
    BY <1>5 DEF RemoveAnswered
  <2>2. TypeOK'
    BY <1>1, <1>2, <2>1, NoOpFacts DEF IInv, TypeOK, Kinds
  <2>3. ASSUME NEW v \in Hooks PROVE HookOK(v)'
    BY <1>1, <1>2, <1>5, <2>1, KeptHook DEF IInv, Holds, Kinds, Behind, Toggling, NoOp
  <2> QED BY <1>3, <2>2, <2>3 DEF IInv
<1> QED BY <1>1, <1>4, <1>5

(* The handler that waited for a fetch ends: next are the views when that   *)
(* fetch is over, whether or not it counted.                                *)
LEMMA ResumedInv ==
  ASSUME IInv, op.at = "wait", UNCHANGED server, stale' \subseteq Hooks,
         stale \ {"file"} \subseteq stale',
         NEW f \in Hook, Resumed([views EXCEPT !["file"] = f]),
         f.late = "none", f.get.awaited = FALSE,
         views'["file"] = f => HookOK("file")'
  PROVE  IInv'
<1> DEFINE next == [views EXCEPT !["file"] = f]
<1>1. /\ op.kind \in {"save", "assign", "pin", "unpin", "remove"} /\ op' = NoOp /\ ws.open
      /\ ws' \in {ws, Listing} /\ UNCHANGED <<kind, pins>>
      /\ views' = IF op.kind = "save" THEN next ELSE [next EXCEPT !["rail"] = Refreshed(@, FALSE)]
  BY DEF Resumed, server, IInv, TypeOK, OpInv, Op
<1>2. next["rail"] = views["rail"]
  BY DEF IInv, TypeOK, Hooks
<1>3. /\ views' = [views EXCEPT !["file"] = f, !["rail"] = views'["rail"]]
      /\ views'["rail"] = IF op.kind = "save" THEN views["rail"]
                                              ELSE Refreshed(views["rail"], FALSE)
  BY <1>1, <1>2 DEF IInv, TypeOK, Hooks
<1> HIDE DEF next
<1>4. views'["file"] = f /\ views'["catalog"] = views["catalog"]
  BY <1>3 DEF IInv, TypeOK, Hooks
<1>5. /\ views'["rail"] \in Hook /\ views'["rail"].late = "none" /\ HookOK("rail")'
      /\ views'["rail"].get.awaited = FALSE
  <2>1. CASE op.kind = "save"
    <3>1. views'["rail"] = views["rail"]
      BY <1>3, <2>1
    <3>2. HookOK("rail")'
      BY <1>1, <2>1, <3>1, KeptHook DEF IInv, Holds, Kinds, Behind, Toggling, Hooks
    <3>3. views["rail"] \in Hook /\ views["rail"].get.awaited \in BOOLEAN
      BY DEF IInv, TypeOK, Hooks, Hook, Fetch
    <3>4. ~views["rail"].get.awaited /\ views["rail"].late = "none"
      BY DEF IInv, TypeOK, Hooks
    <3> QED BY <3>1, <3>2, <3>3, <3>4
  <2>2. CASE op.kind # "save"
    BY <1>3, <2>2, RefreshedHook DEF Hooks
  <2> QED BY <2>1, <2>2
<1>6. HookOK("catalog")'
  BY <1>1, <1>4, KeptHook DEF IInv, Holds, Kinds, Behind, Toggling, Hooks
<1>7. TypeOK'
  <2>1. ws' \in [open : BOOLEAN, view : {"list", "edit", "delete"}, tag : Tags \cup {NoTag}]
    BY <1>1, ListingType DEF IInv, TypeOK
  <2>2. views' \in [Hooks -> Hook]
    <3>1. views \in [Hooks -> Hook] /\ views'["rail"] \in Hook
      BY <1>5 DEF IInv, TypeOK
    <3> QED BY <1>3, <3>1
  <2>3. \A v \in Hooks : ~views'[v].get.awaited /\ views'[v].late = "none"
    BY <1>4, <1>5 DEF IInv, TypeOK, Hooks
  <2> QED BY <1>1, <2>1, <2>2, <2>3, NoOpFacts DEF IInv, TypeOK, Kinds, Hooks
<1>8. OpInv' /\ DuringInv'
  BY <1>1, NoOpFacts DEF OpInv, DuringInv, Toggling
<1> QED BY <1>4, <1>5, <1>6, <1>7, <1>8 DEF IInv, Hooks

LEMMA AnsweredFacts ==
  ASSUME NEW h \in Hook
  PROVE  /\ Answered(h) \in Hook /\ Answered(h).get = NoGet /\ Answered(h).late = h.late
         /\ h.get.ok => Answered(h).val = h.get.val /\ ~Answered(h).err
         /\ ~h.get.ok => Answered(h).err
<1>1. NoGet \in Fetch /\ h.get \in Fetch /\ h.get.val \in Data
  <2>1. NoGet \in Fetch
    BY DEF NoGet, Fetch, Data
  <2>2. h.get \in Fetch
    BY DEF Hook
  <2> QED BY <2>1, <2>2 DEF Fetch
<1>2. CASE h.get.ok
  <2>1. Answered(h) = [h EXCEPT !.val = h.get.val, !.err = FALSE, !.get = NoGet]
    BY <1>2 DEF Answered
  <2> QED BY <1>1, <1>2, <2>1 DEF Hook
<1>3. CASE ~h.get.ok
  <2>1. Answered(h) = [h EXCEPT !.err = TRUE, !.get = NoGet]
    BY <1>3 DEF Answered
  <2> QED BY <1>1, <1>3, <2>1 DEF Hook
<1> QED BY <1>2, <1>3

(* A hook whose fetch is over holds what came back, or says it failed.      *)
LEMMA AnsweredHook ==
  ASSUME IInv, NEW v \in Hooks, DeliverGet(v), views'[v] = Answered(views[v]),
         Behind(v) => Behind(v)'
  PROVE  HookOK(v)'
<1> DEFINE g == views[v].get
<1>1. /\ views[v] \in Hook /\ g \in Fetch /\ g.at = "back" /\ g.ok \in BOOLEAN /\ FetchOK(v)
      /\ UNCHANGED <<kind, pins>>
      /\ stale' = IF g.ok /\ ~g.old THEN stale \ {v} ELSE stale
  BY DEF IInv, TypeOK, Hook, Fetch, HookOK, DeliverGet, server
<1>2. /\ views'[v].get = NoGet
      /\ g.ok => views'[v].val = g.val
      /\ ~g.ok => views'[v].err
  BY <1>1, AnsweredFacts
<1>3. v \notin stale' => ~g.ok \/ Behind(v)' \/ views'[v].val = Holds(v)'
  <2>1. g.ok /\ ~g.old => Behind(v) \/ g.val = Holds(v)
    BY <1>1 DEF FetchOK
  <2>2. g.old => v \in stale
    BY <1>1 DEF FetchOK
  <2>3. Holds(v)' = Holds(v)
    BY <1>1 DEF Holds, Kinds
  <2> QED BY <1>1, <1>2, <2>1, <2>2, <2>3
<1>4. NoGet.old = FALSE /\ NoGet.at = "none"
  BY DEF NoGet
<1> QED BY <1>2, <1>3, <1>4 DEF HookOK, FetchOK, ShownOK

LEMMA DeliverGetInv == ASSUME IInv, NEW v \in Hooks, DeliverGet(v) PROVE IInv'
<1> DEFINE f == Answered(views[v])
           g == views[v].get
<1>1. /\ views[v] \in Hook /\ f \in Hook /\ f.get = NoGet /\ f.late = views[v].late
      /\ NoGet.awaited = FALSE /\ NoGet.at = "none" /\ UNCHANGED <<kind, pins>>
      /\ stale' \subseteq Hooks /\ stale \ {v} \subseteq stale'
  <2>1. views[v] \in Hook /\ UNCHANGED <<kind, pins>>
    BY DEF IInv, TypeOK, DeliverGet, server
  <2>2. stale' \subseteq Hooks /\ stale \ {v} \subseteq stale'
    BY DEF IInv, TypeOK, DeliverGet
  <2>3. NoGet.awaited = FALSE /\ NoGet.at = "none"
    BY DEF NoGet
  <2> QED BY <2>1, <2>2, <2>3, AnsweredFacts
<1>2. CASE g.awaited
  <2>1. /\ Resumed([views EXCEPT ![v] = f]) /\ v = "file" /\ views[v].late = "none"
        /\ op.at = "wait"
    BY <1>2 DEF DeliverGet, IInv, TypeOK, Hooks
  <2>2. views'["file"] = f => HookOK("file")'
    BY <2>1, AnsweredHook DEF Behind, Toggling, Hooks
  <2> HIDE DEF f
  <2> QED BY <1>1, <2>1, <2>2, ResumedInv DEF server
<1>3. CASE ~g.awaited
  <2>1. views' = [views EXCEPT ![v] = f] /\ UNCHANGED <<op, ws>>
    BY <1>3 DEF DeliverGet
  <2>2. HookOK(v)'
    <3>1. views'[v] = Answered(views[v])
      BY <2>1 DEF IInv, TypeOK
    <3> QED BY <2>1, <3>1, AnsweredHook DEF Behind, Toggling
  <2> HIDE DEF f
  <2>3. TypeOK'
    <3>1. \A w \in Hooks : /\ views'[w] \in Hook /\ views'[w].late = views[w].late
                           /\ views'[w].get.awaited <=> views[w].get.awaited
      BY <1>1, <1>3, <2>1 DEF IInv, TypeOK
    <3>2. views' \in [Hooks -> Hook]
      BY <1>1, <2>1 DEF IInv, TypeOK
    <3> QED BY <1>1, <2>1, <3>1, <3>2 DEF IInv, TypeOK, Kinds, Hooks
  <2>4. ASSUME NEW w \in Hooks PROVE HookOK(w)'
    <3>1. CASE w # v
      BY <1>1, <2>1, <3>1, KeptHook DEF IInv, TypeOK, Holds, Kinds, Behind, Toggling
    <3> QED BY <2>2, <3>1
  <2>5. OpInv' /\ DuringInv'
    BY <1>1, <2>1 DEF IInv, TypeOK, OpInv, DuringInv, Toggling, Hooks
  <2> QED BY <2>3, <2>4, <2>5 DEF IInv
<1> QED BY <1>2, <1>3

LEMMA DeliverLateInv == ASSUME IInv, NEW v \in Hooks, DeliverLate(v) PROVE IInv'
<1> DEFINE f == [views[v] EXCEPT !.late = "none"]
<1>1. /\ v = "file" /\ op.at = "wait" /\ UNCHANGED <<kind, pins, stale>>
      /\ stale \subseteq Hooks /\ views[v] \in Hook
  BY DEF DeliverLate, server, IInv, TypeOK, Hooks
<1>2. Resumed([views EXCEPT !["file"] = f])
  BY <1>1 DEF DeliverLate
<1>3. /\ f \in Hook /\ f.late = "none" /\ f.get = views[v].get /\ f.val = views[v].val
      /\ f.err = views[v].err
  BY <1>1 DEF Hook
<1>4. views[v].get.awaited = FALSE
  <2>1. views[v].get.awaited \in BOOLEAN
    BY <1>1 DEF Hook, Fetch
  <2>2. views[v].late = "back"
    BY DEF DeliverLate
  <2> QED BY <1>1, <2>1, <2>2 DEF IInv, TypeOK
<1> HIDE DEF f
<1>5. views'["file"] = f => HookOK("file")'
  <2> SUFFICES ASSUME views'["file"] = f PROVE HookOK("file")'
    OBVIOUS
  <2>1. HookOK("file") /\ ~Behind("file")
    BY <1>1 DEF IInv, Hooks, Behind, Toggling
  <2> QED BY <1>1, <1>3, <2>1 DEF HookOK, FetchOK, ShownOK, Holds, Kinds
<1> QED BY <1>1, <1>2, <1>3, <1>4, <1>5, ResumedInv DEF server

-----------------------------------------------------------------------------
LEMMA StepInv == ASSUME IInv, [Next]_vars PROVE IInv'
<1>1. CASE UNCHANGED vars
  <2>1. ASSUME NEW v \in Hooks PROVE HookOK(v)'
    BY <1>1, KeptHook DEF vars, server, IInv, Holds, Kinds, Behind, Toggling
  <2>2. TypeOK' /\ OpInv' /\ DuringInv'
    BY <1>1 DEF vars, server, IInv, TypeOK, Kinds, OpInv, DuringInv, Toggling
  <2> QED BY <2>1, <2>2 DEF IInv
<1>2. CASE \E t \in Tags \cup {NoTag} : Open(t) \/ Choose("edit", t)
  BY <1>2, OpenInv, ChooseInv
<1>3. CASE \E t \in Tags : Choose("delete", t) \/ Toggle(t) \/ OtherChanges(t)
  BY <1>3, ChooseInv, ToggleInv, OtherChangesInv
<1>4. CASE \E close \in BOOLEAN : Leave(close)
  BY <1>4, LeaveInv
<1>5. CASE Retry \/ Revise
  BY <1>5, FetchAgainInv
<1>6. CASE Remove \/ \E to \in {"manual", "smart"}, assign \in BOOLEAN : Save(to, assign)
  BY <1>6, BeginInv
<1>7. CASE ServeOp
  BY <1>7, ServeOpInv
<1>8. CASE DeliverOp
  <2>1. ToggleAnswered \/ SaveAnswered \/ AssignAnswered \/ RemoveAnswered
    BY <1>8 DEF DeliverOp
  <2> QED BY <1>8, <2>1, ToggleAnsweredInv, SaveAnsweredInv, AssignAnsweredInv, RemoveAnsweredInv
<1>9. CASE \E v \in Hooks : ServeGet(v) \/ DeliverGet(v) \/ DeliverLate(v)
  BY <1>9, ServeGetInv, DeliverGetInv, DeliverLateInv
<1> QED BY <1>1, <1>2, <1>3, <1>4, <1>5, <1>6, <1>7, <1>8, <1>9 DEF Next

LEMMA AlwaysIInv == Spec => []IInv
<1>1. Init => IInv
  BY InitInv
<1>2. IInv /\ [Next]_vars => IInv'
  BY StepInv
<1> QED BY <1>1, <1>2, PTL DEF Spec

(* Every state is well typed, and a handler that waits for a fetch has one  *)
(* to wait for, whatever superseded it: the promise of refresh settles for  *)
(* overtaken fetches too (useTags.ts).                                      *)
THEOREM TypeCorrect == Spec => []TypeOK
<1>1. IInv => TypeOK
  BY DEF IInv
<1> QED BY <1>1, AlwaysIInv, PTL

(* Whatever the order in which the fetches and the requests are answered,   *)
(* with any number of tags, changes, retries and other clients: a view      *)
(* nothing is under way for shows what the server holds.                    *)
THEOREM SettledViewsAlwaysAgree == Spec => []SettledViewsAgree
<1>1. IInv => SettledViewsAgree
  <2> SUFFICES ASSUME IInv, NEW v \in Hooks, AtRest(v), v \notin stale
               PROVE  views[v].val = Holds(v)
    BY DEF SettledViewsAgree
  <2>1. ~Behind(v)
    BY DEF AtRest, Behind, Toggling
  <2> QED BY <2>1 DEF IInv, AtRest, HookOK, ShownOK
<1> QED BY <1>1, AlwaysIInv, PTL

(* A step that leaves a toggle unanswered shows the same tags of the file,  *)
(* unless it is the answer of a fetch sent during it.                       *)
LEMMA ToggleKept ==
  ASSUME IInv, [Next]_vars, Toggling, op'.at # "idle"
  PROVE  views'["file"].val = views["file"].val \/ views["file"].get.during
<1> DEFINE Kept == views'["file"].val = views["file"].val
<1>1. ws.open /\ op.at \notin {"idle", "wait"} /\ op.kind \in {"pin", "unpin"}
  BY DEF IInv, OpInv, Toggling
<1>2. UNCHANGED views => Kept
  OBVIOUS
<1>3. views' = Outdated => Kept
  <2>1. views["file"] \in Hook
    BY DEF IInv, TypeOK, Hooks
  <2> QED BY <2>1 DEF Outdated, Hooks, Hook
<1>4. ASSUME NEW b \in BOOLEAN, views'["file"] = Refreshed(views["file"], b) PROVE Kept
  BY <1>4, RefreshedHook DEF Hooks
<1>5. CASE UNCHANGED vars
  BY <1>2, <1>5 DEF vars
<1>6. CASE Retry
  <2>1. views'["file"] = Refreshed(views["file"], FALSE)
    BY <1>6 DEF Retry, IInv, TypeOK, Hooks
  <2> QED BY <1>4, <2>1
<1>7. CASE ServeOp \/ \E t \in Tags : OtherChanges(t)
  BY <1>2, <1>3, <1>7 DEF ServeOp, OtherChanges
<1>8. CASE DeliverOp
  <2>1. ToggleAnswered
    BY <1>1, <1>8 DEF DeliverOp, SaveAnswered, AssignAnswered, RemoveAnswered
  <2>2. views' = [views EXCEPT !["file"] = Refreshed(@, TRUE)]
    BY <2>1, NoOpFacts DEF ToggleAnswered
  <2>3. views'["file"] = Refreshed(views["file"], TRUE)
    BY <2>2 DEF IInv, TypeOK, Hooks
  <2> QED BY <1>4, <2>3
<1>9. ASSUME NEW v \in Hooks, ServeGet(v) PROVE Kept
  <2>1. "file" \in Hooks /\ views["file"] \in Hook /\ views \in [Hooks -> Hook]
    BY DEF IInv, TypeOK, Hooks
  <2>2. ASSUME NEW ok \in BOOLEAN,
               views' = [views EXCEPT ![v].get.at = "back", ![v].get.ok = ok,
                                      ![v].get.val = IF ok THEN Holds(v) ELSE Null]
        PROVE  Kept
    <3> HIDE DEF Hooks
    <3> QED BY <2>1, <2>2 DEF Hook
  <2>3. views' = [views EXCEPT ![v].late = "back"] => Kept
    BY <2>1 DEF Hook
  <2> QED BY <1>9, <2>2, <2>3 DEF ServeGet
<1>10. ASSUME NEW v \in Hooks, DeliverGet(v) PROVE Kept \/ views["file"].get.during
  <2>1. ~views[v].get.awaited
    BY <1>1 DEF IInv, TypeOK, Hooks
  <2>2. views' = [views EXCEPT ![v] = Answered(@)] /\ views[v].get.at = "back"
    BY <1>10, <2>1 DEF DeliverGet
  <2>3. v # "file" => Kept
    BY <2>2
  <2>4. v = "file" => views["file"].get.during
    BY <2>2 DEF IInv, DuringInv
  <2> QED BY <2>3, <2>4
<1>11. ASSUME NEW v \in Hooks, DeliverLate(v) PROVE FALSE
  BY <1>1, <1>11 DEF DeliverLate, IInv, TypeOK, Hooks
<1>12. ASSUME NEW t, Open(t) \/ Choose("edit", t) \/ Choose("delete", t) \/ Toggle(t) PROVE FALSE
  BY <1>1, <1>12 DEF Open, Choose, Toggle, Begin, Idle
<1>13. ASSUME NEW close, Leave(close) PROVE FALSE
  BY <1>1, <1>13 DEF Leave, Idle
<1>14. ~Remove /\ ~Revise /\ ~\E to \in {"manual", "smart"}, assign \in BOOLEAN : Save(to, assign)
  BY <1>1 DEF Remove, Revise, Save, Begin, Idle
<1> QED
  <2>1. CASE \E t \in Tags \cup {NoTag} : Open(t) \/ Choose("edit", t)
    BY <1>12, <2>1
  <2>2. CASE \E t \in Tags : Choose("delete", t) \/ Toggle(t) \/ OtherChanges(t)
    BY <1>7, <1>12, <2>2
  <2>3. CASE \E close \in BOOLEAN : Leave(close)
    BY <1>13, <2>3
  <2>4. CASE \E v \in Hooks : ServeGet(v) \/ DeliverGet(v) \/ DeliverLate(v)
    BY <1>9, <1>10, <1>11, <2>4
  <2> QED BY <1>5, <1>6, <1>7, <1>8, <1>14, <2>1, <2>2, <2>3, <2>4 DEF Next

(* What a toggle shows is not replaced before its save is answered, unless  *)
(* by a fetch that was asked for during it.                                 *)
THEOREM TogglesStayShown == Spec => OptimisticHolds
<1> DEFINE Held == op.kind \in {"pin", "unpin"} /\ op.at \in {"sent", "back"} /\ op'.at # "idle"
                     /\ views'["file"].val # views["file"].val
                   => views["file"].get.during
<1>1. IInv /\ [Next]_vars => Held
  BY ToggleKept DEF Toggling
<1>2. Spec => [][Held]_vars
  BY <1>1, AlwaysIInv, PTL DEF Spec
<1> QED BY <1>2 DEF OptimisticHolds
=============================================================================
