-------------------------- MODULE WebSessionProofs --------------------------
(***************************************************************************)
(* Proofs about WebSession, for any number of requests and polls under way *)
(* and any pages it is opened at: the redirect never goes to a section the *)
(* deployment does not have, unless a fetch of the configuration failed.   *)
(***************************************************************************)
EXTENDS WebSession, TLAPS

Slots == Lanes \cup Polls

Sessions == {"none", "mfa", "enroll", "user", "admin", "asks"}

Request == [kind : Kinds \cup {"none", "status", "me", "config", "poll"},
            at : {"idle", "sent", "back"},
            res : {"none", "ok", "refused", "failed"},
            val : Sessions \cup {"setup", "on", "off"},
            boot : BOOLEAN, own : BOOLEAN]

State == [booted : BOOLEAN, needsSetup : BOOLEAN, me : Sessions,
          path : Entry \cup Views \cup AuthScreens,
          conf : {"none", "on", "off"}, confLoaded : BOOLEAN]

(* What an answer can say: loadMe is told of a session, and the fetch of    *)
(* the configuration what the deployment has.                               *)
AnswerOK(t) ==
  t.at = "back" /\ t.res = "ok" =>
    /\ t.kind = "me" => t.val \in Sessions
    /\ t.kind = "config" => t.val = deploy

(* What App takes for the configuration is the deployment's, if it knows    *)
(* one; that it has none and waits for none is a failed fetch.              *)
ConfOK(u, miss) ==
  /\ u.conf \in {"none", deploy}
  /\ u.confLoaded /\ u.conf = "none" /\ deploy = "off" => miss

TypeInv ==
  /\ srv \in Sessions \ {"asks"} /\ setup \in BOOLEAN /\ decided \in BOOLEAN
  /\ deploy \in {"on", "off"}
  /\ ui \in State /\ missed \in BOOLEAN
  /\ reqs \in [Slots -> Request]

AnswersInv == \A l \in Slots : AnswerOK(reqs[l])
ConfInv == ConfOK(ui, missed)

IInv == TypeInv /\ AnswersInv /\ ConfInv

-----------------------------------------------------------------------------
LEMMA SentFacts ==
  /\ Idle \in Request /\ AnswerOK(Idle)
  /\ \A kind \in Kinds \cup {"status", "me", "config", "poll"} :
       /\ Sent(kind) \in Request /\ AnswerOK(Sent(kind))
       /\ [Sent(kind) EXCEPT !.boot = TRUE] \in Request
       /\ AnswerOK([Sent(kind) EXCEPT !.boot = TRUE])
<1>1. Idle \in Request /\ AnswerOK(Idle)
  BY DEF Request, Idle, AnswerOK, Sessions
<1>2. ASSUME NEW kind \in Kinds \cup {"status", "me", "config", "poll"}, NEW b \in BOOLEAN,
             NEW own \in BOOLEAN
      PROVE  LET t == [Idle EXCEPT !.kind = kind, !.at = "sent", !.own = own, !.boot = b]
             IN t \in Request /\ AnswerOK(t)
  BY <1>1 DEF Request, AnswerOK, Idle
<1>3. ASSUME NEW kind \in Kinds \cup {"status", "me", "config", "poll"}
      PROVE  /\ Sent(kind) \in Request /\ AnswerOK(Sent(kind))
             /\ [Sent(kind) EXCEPT !.boot = TRUE] \in Request
             /\ AnswerOK([Sent(kind) EXCEPT !.boot = TRUE])
  <2> DEFINE own == kind \in Forms
  <2>1. own \in BOOLEAN
    <3>1. CASE kind \in Forms
      <4>1. own = TRUE
        BY <3>1
      <4> QED BY <4>1
    <3>2. CASE kind \notin Forms
      <4>1. own = FALSE
        BY <3>2
      <4> QED BY <4>1
    <3> QED BY <3>1, <3>2
  <2> HIDE DEF own
  <2>2. Sent(kind) = [Idle EXCEPT !.kind = kind, !.at = "sent", !.own = own]
    BY Zenon DEF Sent, own
  <2> DEFINE t(b) == [Idle EXCEPT !.kind = kind, !.at = "sent", !.own = own, !.boot = b]
  <2>3. \A b \in BOOLEAN : t(b) \in Request /\ AnswerOK(t(b))
    BY <1>2, <2>1
  <2>4. Sent(kind) = t(FALSE)
    BY <2>2 DEF Idle
  <2>5. [Sent(kind) EXCEPT !.boot = TRUE] = t(TRUE)
    BY <2>2 DEF Idle
  <2> HIDE DEF t
  <2> QED BY <2>3, <2>4, <2>5
<1> QED BY <1>1, <1>3

(* A request in a slot, wherever FreeLane puts it.                          *)
LEMMA PutRequest ==
  ASSUME NEW rs \in [Slots -> Request], \A l \in Slots : AnswerOK(rs[l]),
         NEW x, NEW t \in Request, AnswerOK(t)
  PROVE  LET qs == [rs EXCEPT ![x] = t]
         IN qs \in [Slots -> Request] /\ \A l \in Slots : AnswerOK(qs[l])
OBVIOUS

(* The redirect goes to the sites when they are the default.                *)
LEMMA LandedFacts ==
  ASSUME NEW u \in State
  PROVE  /\ Landed(u) \in Entry \cup Views \cup AuthScreens
         /\ Landed(u) = "sites" => u.path = "sites" \/ (u.confLoaded /\ u.conf # "off")
BY DEF Landed, State, AuthScreens, Views, Default, ScreenOf

(* A rendered update keeps what is true of the update.                      *)
LEMMA RenderKeeps ==
  ASSUME NEW u \in State, NEW rs \in [Slots -> Request], \A l \in Slots : AnswerOK(rs[l]),
         NEW miss, ConfOK(u, miss), Render(u, rs)
  PROVE  /\ ui' \in State /\ ConfOK(ui', miss)
         /\ reqs' \in [Slots -> Request] /\ \A l \in Slots : AnswerOK(reqs'[l])
<1> DEFINE gone == [l \in DOMAIN rs |-> [rs[l] EXCEPT !.own = FALSE]]
           kept == IF ScreenOf(u) = Screen THEN rs ELSE gone
<1>1. ui' = [u EXCEPT !.path = Landed(u)]
  BY DEF Render
<1>2. ui' \in State /\ ConfOK(ui', miss)
  BY <1>1, LandedFacts DEF State, ConfOK
<1>3. gone \in [Slots -> Request] /\ \A l \in Slots : AnswerOK(gone[l])
  <2>1. \A l \in Slots : [rs[l] EXCEPT !.own = FALSE] \in Request
    BY DEF Request
  <2>2. \A l \in Slots : AnswerOK([rs[l] EXCEPT !.own = FALSE])
    BY DEF Request, AnswerOK
  <2> QED BY <2>1, <2>2
<1>4. kept \in [Slots -> Request] /\ \A l \in Slots : AnswerOK(kept[l])
  BY <1>3
<1>5. \/ reqs' = kept
      \/ reqs' = [kept EXCEPT ![FreeLane(kept)] = Sent("config")]
  BY DEF Render
<1>6. Sent("config") \in Request /\ AnswerOK(Sent("config"))
  BY SentFacts
<1> HIDE DEF kept
<1>7. reqs' \in [Slots -> Request] /\ \A l \in Slots : AnswerOK(reqs'[l])
  <2>1. CASE reqs' = kept
    BY <2>1, <1>4
  <2>2. CASE reqs' = [kept EXCEPT ![FreeLane(kept)] = Sent("config")]
    BY <2>2, <1>4, <1>6, PutRequest
  <2> QED BY <1>5, <2>1, <2>2
<1> QED BY <1>2, <1>7

(* What is left to say of an action that renders: the server's part.        *)
LEMMA RenderStep ==
  ASSUME TypeInv, UNCHANGED server, missed' \in BOOLEAN,
         NEW u \in State, NEW rs \in [Slots -> Request], \A l \in Slots : AnswerOK(rs[l]),
         ConfOK(u, missed'), Render(u, rs)
  PROVE  IInv'
<1>1. /\ ui' \in State /\ ConfOK(ui', missed')
      /\ reqs' \in [Slots -> Request] /\ \A l \in Slots : AnswerOK(reqs'[l])
  BY RenderKeeps
<1>2. TypeInv'
  BY <1>1 DEF TypeInv, server
<1>3. AnswersInv' /\ ConfInv'
  BY <1>1 DEF AnswersInv, ConfInv, AnswerOK, ConfOK, server
<1> QED BY <1>2, <1>3 DEF IInv

(* So does one that only sends, serves or loses a request.                  *)
LEMMA RequestStep ==
  ASSUME IInv, UNCHANGED <<deploy, ui, missed>>,
         srv' \in Sessions \ {"asks"}, setup' \in BOOLEAN, decided' \in BOOLEAN,
         NEW x, NEW t \in Request, AnswerOK(t), reqs' = [reqs EXCEPT ![x] = t]
  PROVE  IInv'
<1>1. reqs' \in [Slots -> Request] /\ \A l \in Slots : AnswerOK(reqs'[l])
  BY PutRequest DEF IInv, TypeInv, AnswersInv
<1>2. TypeInv'
  BY <1>1 DEF IInv, TypeInv
<1>3. AnswersInv' /\ ConfInv'
  BY <1>1 DEF IInv, AnswersInv, ConfInv, AnswerOK, ConfOK
<1> QED BY <1>2, <1>3 DEF IInv

-----------------------------------------------------------------------------
LEMMA OpenedFacts ==
  ASSUME NEW p \in Entry, NEW miss
  PROVE  Opened(p) \in State /\ ConfOK(Opened(p), miss)
BY DEF Opened, State, ConfOK, Sessions

LEMMA BootingFacts == Booting \in [Slots -> Request] /\ \A l \in Slots : AnswerOK(Booting[l])
<1> DEFINE none == [l \in Slots |-> Idle]
           t == [Sent("status") EXCEPT !.boot = TRUE]
<1>1. Booting = [none EXCEPT ![FreeLane(none)] = t]
  BY DEF Booting, Slots
<1>2. none \in [Slots -> Request] /\ \A l \in Slots : AnswerOK(none[l])
  BY SentFacts
<1>3. t \in Request /\ AnswerOK(t)
  BY SentFacts
<1> HIDE DEF none, t
<1> QED BY <1>1, <1>2, <1>3, PutRequest

LEMMA InitInv == Init => IInv
<1> SUFFICES ASSUME Init PROVE IInv
  OBVIOUS
<1>1. TypeInv
  BY OpenedFacts, BootingFacts DEF Init, TypeInv, Sessions, Full
<1>2. AnswersInv /\ ConfInv
  BY OpenedFacts, BootingFacts DEF Init, AnswersInv, ConfInv
<1> QED BY <1>1, <1>2 DEF IInv

LEMMA SubmitInv == ASSUME IInv, NEW kind \in Kinds, Submit(kind) PROVE IInv'
<1>1. Sent(kind) \in Request /\ AnswerOK(Sent(kind))
  BY SentFacts
<1>2. /\ reqs' = [reqs EXCEPT ![FreeLane(reqs)] = Sent(kind)]
      /\ UNCHANGED <<server, ui, missed>>
  BY DEF Submit
<1>3. srv' \in Sessions \ {"asks"} /\ setup' \in BOOLEAN /\ decided' \in BOOLEAN
  BY <1>2 DEF IInv, TypeInv, server
<1> QED BY <1>1, <1>2, <1>3, RequestStep DEF server

LEMMA PollInv == ASSUME IInv, NEW l \in Polls, Poll(l) PROVE IInv'
<1>1. Sent("poll") \in Request /\ AnswerOK(Sent("poll"))
  BY SentFacts
<1>2. /\ reqs' = [reqs EXCEPT ![l] = Sent("poll")]
      /\ UNCHANGED <<server, ui, missed>>
  BY DEF Poll
<1>3. srv' \in Sessions \ {"asks"} /\ setup' \in BOOLEAN /\ decided' \in BOOLEAN
  BY <1>2 DEF IInv, TypeInv, server
<1> QED BY <1>1, <1>2, <1>3, RequestStep DEF server

LEMMA NavigateInv == ASSUME IInv, NEW p \in Entry \cup Views, Navigate(p) PROVE IInv'
<1> DEFINE u == [ui EXCEPT !.path = p]
<1>1. u \in State
  BY DEF IInv, TypeInv, State
<1>2. ConfOK(u, missed')
  BY DEF Navigate, IInv, TypeInv, ConfInv, ConfOK, State
<1>3. Render(u, reqs) /\ UNCHANGED server /\ missed' = missed
  BY DEF Navigate
<1> HIDE DEF u
<1> QED BY <1>1, <1>2, <1>3, RenderStep DEF IInv, TypeInv, AnswersInv

LEMMA LoseInv == ASSUME IInv, NEW l \in Slots, Lose(l) PROVE IInv'
<1> DEFINE t == [reqs[l] EXCEPT !.at = "back", !.res = "failed", !.val = "none"]
<1>1. reqs[l] \in Request
  BY DEF IInv, TypeInv
<1>2. t \in Request /\ AnswerOK(t)
  BY <1>1 DEF Request, AnswerOK, Sessions
<1>3. reqs' = [reqs EXCEPT ![l] = t]
  BY DEF Lose, Respond
<1>4. srv' \in Sessions \ {"asks"} /\ setup' \in BOOLEAN /\ decided' \in BOOLEAN
      /\ UNCHANGED <<deploy, ui, missed>>
  BY DEF Lose, IInv, TypeInv, server
<1> HIDE DEF t
<1> QED BY <1>2, <1>3, <1>4, RequestStep

(* What the server answers.                                                 *)
Answers(l, res, val) ==
  /\ Respond(l, res, val)
  /\ res \in {"ok", "refused", "failed"} /\ val \in Sessions \cup {"setup", "on", "off"}
  /\ res = "ok" =>
       /\ reqs[l].kind = "me" => val \in Sessions
       /\ reqs[l].kind = "config" => val = deploy

LEMMA AnswersStep ==
  ASSUME IInv, NEW l \in Slots, NEW res, NEW val, Answers(l, res, val),
         UNCHANGED <<deploy, ui, missed>>,
         srv' \in Sessions \ {"asks"}, setup' \in BOOLEAN, decided' \in BOOLEAN
  PROVE  IInv'
<1> DEFINE t == [reqs[l] EXCEPT !.at = "back", !.res = res, !.val = val]
<1>1. reqs[l] \in Request
  BY DEF IInv, TypeInv
<1>2. t \in Request /\ AnswerOK(t)
  BY <1>1 DEF Answers, Request, AnswerOK
<1>3. reqs' = [reqs EXCEPT ![l] = t]
  BY DEF Answers, Respond
<1> HIDE DEF t
<1> QED BY <1>2, <1>3, RequestStep

LEMMA ServeInv == ASSUME IInv, NEW l \in Slots, Serve(l) PROVE IInv'
<1> DEFINE kind == reqs[l].kind
           Server == /\ srv' \in Sessions \ {"asks"} /\ setup' \in BOOLEAN
                     /\ decided' \in BOOLEAN
<1>1. UNCHANGED <<deploy, ui, missed>>
  BY DEF Serve
<1>2. srv \in Sessions \ {"asks"} /\ setup \in BOOLEAN /\ decided \in BOOLEAN
      /\ deploy \in {"on", "off"}
  BY DEF IInv, TypeInv
<1> HIDE DEF kind
<1>3. ASSUME Reads(l, kind) PROVE Server /\ \E res, val : Answers(l, res, val)
  <2>1. Server
    BY <1>2, <1>3 DEF Reads
  <2>2. ServerMe \in Sessions
    BY <1>2 DEF ServerMe, Sessions
  <2>3. \E res, val : Answers(l, res, val)
    BY <1>2, <1>3, <2>2 DEF Reads, Answers, kind, Sessions
  <2> QED BY <2>1, <2>3
<1>4. ASSUME NEW level \in {"mfa", "enroll"}, kind \notin {"me", "config"}, Step(l, level)
      PROVE  Server /\ \E res, val : Answers(l, res, val)
  <2>1. Server
    BY <1>2, <1>4 DEF Step, Full, Sessions
  <2>2. \E res, val : Answers(l, res, val)
    BY <1>4 DEF Step, Answers, kind, Sessions
  <2> QED BY <2>1, <2>2
<1>5. ASSUME Changes(l, kind) PROVE Server /\ \E res, val : Answers(l, res, val)
  <2>1. CASE kind = "login"
    BY <1>2, <1>5, <2>1 DEF Changes, Answers, kind, Sessions, Full
  <2>2. CASE kind = "verify"
    <3>1. Step(l, "mfa")
      BY <1>5, <2>2 DEF Changes
    <3> QED BY <1>4, <2>2, <3>1
  <2>3. CASE kind = "enroll"
    <3>1. Step(l, "enroll")
      BY <1>5, <2>3 DEF Changes
    <3> QED BY <1>4, <2>3, <3>1
  <2>4. CASE kind = "totp"
    BY <1>2, <1>5, <2>4 DEF Changes, Answers, kind, Sessions, Full
  <2>5. CASE kind = "setup"
    BY <1>2, <1>5, <2>5 DEF Changes, Answers, kind, Sessions, Full
  <2>6. CASE kind = "policy"
    BY <1>2, <1>5, <2>6 DEF Changes, Answers, kind, Sessions, Full
  <2>7. CASE kind = "logout"
    BY <1>2, <1>5, <2>7 DEF Changes, Answers, kind, Sessions, Full
  <2>8. kind \in {"login", "verify", "enroll", "totp", "setup", "policy", "logout"}
    BY <1>5 DEF Changes
  <2> QED BY <2>1, <2>2, <2>3, <2>4, <2>5, <2>6, <2>7, <2>8
<1>6. Server /\ \E res, val : Answers(l, res, val)
  BY <1>3, <1>5 DEF Serve, kind
<1> QED BY <1>1, <1>6, AnswersStep

-----------------------------------------------------------------------------
(* What an answer does. The requests that go with the update, and the       *)
(* update itself, are those of RenderStep.                                  *)
Done(l, t) == [reqs EXCEPT ![l] = t]

LEMMA DoneFacts ==
  ASSUME IInv, NEW l, NEW t \in Request, AnswerOK(t)
  PROVE  Done(l, t) \in [Slots -> Request] /\ \A m \in Slots : AnswerOK(Done(l, t)[m])
BY PutRequest DEF IInv, TypeInv, AnswersInv, Done

LEMMA HookFacts ==
  ASSUME IInv, NEW l, NEW miss, missed => miss
  PROVE  AfterHook(l) \in State /\ ConfOK(AfterHook(l), miss)
         /\ AfterHook(l).path = ui.path
BY DEF IInv, TypeInv, ConfInv, ConfOK, AfterHook, State, Sessions

(* The update a delivered answer makes, and the requests that go with it.   *)
Rendered(l, u, t) ==
  /\ u \in State /\ ConfOK(u, missed') /\ u.path = ui.path
  /\ t \in Request /\ AnswerOK(t)
  /\ Render(u, Done(l, t))

LEMMA DeliverRenders ==
  ASSUME IInv, NEW l \in Slots, Deliver(l)
  PROVE  UNCHANGED server /\ missed' \in BOOLEAN /\ \E u, t : Rendered(l, u, t)
<1> DEFINE r == reqs[l]
           home == [Sent("status") EXCEPT !.boot = TRUE]
           again == [Sent("me") EXCEPT !.boot = TRUE]
<1>1. r \in Request /\ AnswerOK(r) /\ r.at = "back"
  BY DEF IInv, TypeInv, AnswersInv, Deliver
<1>2. missed' = (missed \/ (r.kind = "config" /\ r.res # "ok" /\ deploy = "off"))
  BY DEF Deliver
<1>3. missed' \in BOOLEAN /\ (missed => missed')
  BY <1>2 DEF IInv, TypeInv
<1>4. UNCHANGED server
  BY DEF Deliver
<1>5. ui \in State /\ ConfOK(ui, missed')
  BY <1>3 DEF IInv, TypeInv, ConfInv, ConfOK
<1>6. AfterHook(l) \in State /\ ConfOK(AfterHook(l), missed') /\ AfterHook(l).path = ui.path
  BY <1>3, HookFacts
<1>7. \A t \in {Idle, home, again, Sent("me")} : t \in Request /\ AnswerOK(t)
  BY SentFacts DEF Kinds
<1>8. \/ r.kind = "status" /\ StatusAnswered(l, r)
      \/ r.kind = "me" /\ MeAnswered(l, r)
      \/ r.kind = "logout" /\ LogoutAnswered(l)
      \/ r.kind = "config" /\ ConfigAnswered(l, r)
      \/ FormAnswered(l, r)
      \/ Render(AfterHook(l), [reqs EXCEPT ![l] = Idle])
  BY DEF Deliver
<1> HIDE DEF r, home, again
<1>9. CASE StatusAnswered(l, r)
  <2> DEFINE fresh == [ui EXCEPT !.needsSetup = TRUE, !.me = "none", !.booted = TRUE]
             lost == [ui EXCEPT !.me = "none", !.booted = TRUE]
  <2>1. fresh \in State /\ ConfOK(fresh, missed') /\ fresh.path = ui.path
    BY <1>5 DEF State, ConfOK, Sessions
  <2>2. lost \in State /\ ConfOK(lost, missed') /\ lost.path = ui.path
    BY <1>5 DEF State, ConfOK, Sessions
  <2>3. \/ Render(fresh, Done(l, Idle)) \/ Render(ui, Done(l, again)) \/ Render(lost, Done(l, Idle))
    BY <1>9 DEF StatusAnswered, Done, again
  <2> HIDE DEF fresh, lost
  <2>4. \E u, t : Rendered(l, u, t)
    BY <1>5, <1>7, <2>1, <2>2, <2>3 DEF Rendered
  <2> QED BY <1>3, <1>4, <2>4
<1>10. CASE r.kind = "me" /\ MeAnswered(l, r)
  <2> DEFINE me == IF r.res = "ok" THEN r.val ELSE "none"
             booted == AfterHook(l).booted \/ r.boot
             needs == AfterHook(l).needsSetup /\ r.res # "ok"
             u == [AfterHook(l) EXCEPT !.booted = booted, !.me = me, !.needsSetup = needs]
  <2>1. me \in Sessions
    BY <1>1, <1>10 DEF AnswerOK, Sessions
  <2>2. booted \in BOOLEAN /\ needs \in BOOLEAN
    BY Zenon
  <2>3. Render(u, Done(l, Idle))
    BY <1>10, Zenon DEF MeAnswered, Done
  <2> HIDE DEF me, booted, needs
  <2>4. u \in State /\ ConfOK(u, missed') /\ u.path = ui.path
    BY <1>6, <2>1, <2>2 DEF State, ConfOK
  <2> HIDE DEF u
  <2>5. Rendered(l, u, Idle)
    BY <1>7, <2>3, <2>4 DEF Rendered
  <2> QED BY <1>3, <1>4, <2>5
<1>11. CASE LogoutAnswered(l)
  <2> DEFINE u == [ui EXCEPT !.me = "none"]
  <2>1. u \in State /\ ConfOK(u, missed') /\ u.path = ui.path
    BY <1>5 DEF State, ConfOK, Sessions
  <2>2. Render(u, Done(l, home))
    BY <1>11 DEF LogoutAnswered, Done, home
  <2> HIDE DEF u
  <2>3. Rendered(l, u, home)
    BY <1>7, <2>1, <2>2 DEF Rendered
  <2> QED BY <1>3, <1>4, <2>3
<1>12. CASE r.kind = "config" /\ ConfigAnswered(l, r)
  <2> DEFINE conf == IF r.res = "ok" THEN r.val ELSE "none"
             u == [AfterHook(l) EXCEPT !.conf = conf, !.confLoaded = TRUE]
  <2>1. conf \in {"none", deploy} /\ (conf = "none" /\ deploy = "off" => missed')
    BY <1>1, <1>2, <1>12 DEF AnswerOK
  <2>2. deploy \in {"on", "off"}
    BY DEF IInv, TypeInv
  <2>3. Render(u, Done(l, Idle))
    BY <1>12 DEF ConfigAnswered, Done
  <2> HIDE DEF conf
  <2>4. u \in State /\ ConfOK(u, missed') /\ u.path = ui.path
    BY <1>6, <2>1, <2>2 DEF State, ConfOK
  <2> HIDE DEF u
  <2>5. Rendered(l, u, Idle)
    BY <1>7, <2>3, <2>4 DEF Rendered
  <2> QED BY <1>3, <1>4, <2>5
<1>13. CASE FormAnswered(l, r)
  <2>1. Render(AfterHook(l), Done(l, Sent("me"))) \/ Render(AfterHook(l), Done(l, Idle))
    BY <1>13 DEF FormAnswered, Done
  <2>2. \E u, t : Rendered(l, u, t)
    BY <1>6, <1>7, <2>1 DEF Rendered
  <2> QED BY <1>3, <1>4, <2>2
<1>14. CASE Render(AfterHook(l), [reqs EXCEPT ![l] = Idle])
  <2>1. Rendered(l, AfterHook(l), Idle)
    BY <1>6, <1>7, <1>14 DEF Rendered, Done
  <2> QED BY <1>3, <1>4, <2>1
<1> QED BY <1>8, <1>9, <1>10, <1>11, <1>12, <1>13, <1>14

LEMMA DeliverPollRenders ==
  ASSUME IInv, NEW l \in Slots, DeliverPoll(l)
  PROVE  UNCHANGED server /\ missed' \in BOOLEAN /\ \E u, t : Rendered(l, u, t)
<1>1. UNCHANGED server /\ missed' = missed /\ Render(AfterHook(l), Done(l, Idle))
  BY DEF DeliverPoll, Done
<1>2. missed' \in BOOLEAN
  BY <1>1 DEF IInv, TypeInv
<1>3. AfterHook(l) \in State /\ ConfOK(AfterHook(l), missed') /\ AfterHook(l).path = ui.path
  BY <1>1, HookFacts
<1>4. Rendered(l, AfterHook(l), Idle)
  BY <1>1, <1>3, SentFacts DEF Rendered
<1> QED BY <1>1, <1>2, <1>4

LEMMA RenderedInv ==
  ASSUME IInv, NEW l \in Slots, NEW u, NEW t, Rendered(l, u, t),
         UNCHANGED server, missed' \in BOOLEAN
  PROVE  IInv'
<1>1. /\ u \in State /\ ConfOK(u, missed') /\ Render(u, Done(l, t))
      /\ t \in Request /\ AnswerOK(t)
  BY DEF Rendered
<1>2. Done(l, t) \in [Slots -> Request] /\ \A m \in Slots : AnswerOK(Done(l, t)[m])
  BY <1>1, DoneFacts
<1> QED BY <1>1, <1>2, RenderStep DEF IInv

LEMMA ElsewhereInv == ASSUME IInv, Elsewhere PROVE IInv'
<1>1. TypeInv'
  BY DEF IInv, TypeInv, Elsewhere, Full, Sessions
<1>2. AnswersInv' /\ ConfInv'
  BY DEF IInv, AnswersInv, AnswerOK, ConfInv, ConfOK, Elsewhere
<1> QED BY <1>1, <1>2 DEF IInv

LEMMA ReloadInv == ASSUME IInv, NEW p \in Entry, Reload(p) PROVE IInv'
<1>1. /\ srv' \in Sessions \ {"asks"} /\ UNCHANGED <<setup, decided, deploy>>
      /\ ui' = Opened(p) /\ reqs' = Booting /\ missed' = FALSE
  BY DEF Reload, IInv, TypeInv, Full, Sessions
<1>2. TypeInv'
  BY <1>1, OpenedFacts, BootingFacts DEF IInv, TypeInv
<1>3. AnswersInv'
  BY <1>1, BootingFacts DEF AnswersInv, AnswerOK
<1>4. ConfInv'
  BY <1>1 DEF ConfInv, ConfOK, Opened
<1> QED BY <1>2, <1>3, <1>4 DEF IInv

LEMMA StepInv == IInv /\ [Next]_vars => IInv'
<1> SUFFICES ASSUME IInv, [Next]_vars PROVE IInv'
  OBVIOUS
<1>1. CASE \E kind \in Kinds : Submit(kind)
  BY <1>1, SubmitInv
<1>2. CASE \E p \in Entry \cup Views : Navigate(p)
  BY <1>2, NavigateInv
<1>3. CASE \E l \in Polls : Poll(l)
  BY <1>3, PollInv
<1>4. CASE \E l \in Polls : DeliverPoll(l)
  BY <1>4, DeliverPollRenders, RenderedInv DEF Slots
<1>5. CASE \E l \in Lanes : Deliver(l)
  BY <1>5, DeliverRenders, RenderedInv DEF Slots
<1>6. CASE \E l \in Slots : Serve(l)
  BY <1>6, ServeInv
<1>7. CASE \E l \in Slots : Lose(l)
  BY <1>7, LoseInv
<1>8. CASE Elsewhere
  BY <1>8, ElsewhereInv
<1>9. CASE \E p \in Entry : Reload(p)
  BY <1>9, ReloadInv
<1>10. CASE UNCHANGED vars
  <2>1. TypeInv' /\ AnswersInv' /\ ConfInv'
    BY <1>10 DEF IInv, TypeInv, AnswersInv, AnswerOK, ConfInv, ConfOK, vars, server
  <2> QED BY <2>1 DEF IInv
<1> QED BY <1>1, <1>2, <1>3, <1>4, <1>5, <1>6, <1>7, <1>8, <1>9, <1>10 DEF Next, Slots

-----------------------------------------------------------------------------
(* The bounds only count up.                                                *)
Counted == clicks \in Nat /\ elsewhere \in Nat

LEMMA CountedStep == Counted /\ [Next]_vars => Counted'
<1>1. ASSUME [Next]_vars
      PROVE  clicks' \in {clicks, clicks + 1} /\ elsewhere' \in {elsewhere, elsewhere + 1}
  BY <1>1 DEF Next, vars, bounds, Submit, Navigate, Poll, DeliverPoll, Deliver, Serve, Lose,
              Elsewhere, Reload
<1> QED BY <1>1 DEF Counted

(* Only an answer lands the page, links and reloads aside; and it lands it  *)
(* on the sites when the shell shows, has waited for the configuration and  *)
(* takes the deployment to have them.                                       *)
LEMMA LandsStep ==
  ASSUME IInv, Counted, [Next]_vars,
         ui.path \in Unsettled, ui'.path = "sites", UNCHANGED bounds
  PROVE  deploy = "on" \/ missed'
<1>1. ui' # ui
  BY DEF Unsettled, AuthScreens
<1>2. clicks' # clicks + 1 /\ elsewhere' # elsewhere + 1
  BY DEF Counted, bounds
<1>3. PICK l \in Slots : Deliver(l) \/ DeliverPoll(l)
  BY <1>1, <1>2 DEF Next, Slots, Submit, Navigate, Poll, Serve, Lose, Elsewhere, Reload, vars
<1>4. PICK u, t : Rendered(l, u, t)
  BY <1>3, DeliverRenders, DeliverPollRenders
<1>5. u \in State /\ ConfOK(u, missed') /\ u.path # "sites"
  BY <1>4 DEF Rendered, Unsettled, AuthScreens
<1>6. Landed(u) = "sites"
  <2>1. ui' = [u EXCEPT !.path = Landed(u)]
    BY <1>4 DEF Rendered, Render
  <2> QED BY <2>1, <1>5 DEF State
<1>7. u.confLoaded /\ u.conf # "off"
  BY <1>5, <1>6, LandedFacts
<1>8. deploy \in {"on", "off"}
  BY DEF IInv, TypeInv
<1> QED BY <1>5, <1>7, <1>8 DEF ConfOK

(* "/" and the URLs of the sign-in screens never turn into that of the      *)
(* sites where the deployment has none, unless a fetch of the configuration *)
(* failed: however answers overtake one another, are lost or belong to a    *)
(* screen that is gone, App redirects only when it knows the configuration, *)
(* and what it knows is the deployment's.                                   *)
THEOREM LandsWhereItShould == Spec => LandsOnASection
<1>1. Init => IInv /\ Counted
  BY InitInv DEF Init, Counted
<1>2. IInv /\ Counted /\ [Next]_vars => (IInv /\ Counted)'
  BY StepInv, CountedStep
<1>3. IInv /\ Counted /\ [Next]_vars
        => [ui.path \in Unsettled /\ ui'.path = "sites" /\ UNCHANGED bounds
              => deploy = "on" \/ missed']_vars
  BY LandsStep
<1> QED BY <1>1, <1>2, <1>3, PTL DEF Spec, LandsOnASection
=============================================================================
