----------------------------- MODULE WebSession -----------------------------
(***************************************************************************)
(* The web client between the sign-in screens and the shell: what App      *)
(* knows of the session, the screen and the URL that follow from it, the   *)
(* requests whose answers change it, the status poll of the shell among    *)
(* them.                                                                   *)
(*                                                                         *)
(* A request is sent, served and answered in three steps, and any of them  *)
(* may overtake another request. A state update is rendered and its        *)
(* effects run (the redirect, the fetch of the configuration) before the   *)
(* next handler does: Render is part of every step that updates the state. *)
(* The session behind the cookie is the server's; it can end, or change,   *)
(* from another tab or by an administrator while this page shows it.       *)
(***************************************************************************)
EXTENDS Naturals, FiniteSets

CONSTANTS Lanes,         \* requests of handlers that can be under way at once
          Polls,         \* status polls that can be under way at once
          Entry,         \* the pages the client may be opened at
          MaxClicks,     \* bound on what the user starts
          MaxElsewhere   \* bound on what happens to the session elsewhere

ASSUME SessionConstants ==
  /\ IsFiniteSet(Lanes) /\ IsFiniteSet(Polls)
  /\ Lanes # {} /\ Lanes \cap Polls = {}

VARIABLES
  srv,       \* what the server holds behind the cookie of this browser
  setup,     \* TRUE until the first account exists
  decided,   \* whether the MFA policy was decided
  deploy,    \* whether the deployment has the sites section
  ui,        \* the state of App, and the path in the address bar
  reqs,      \* the requests under way
  missed,    \* TRUE once a fetch of the configuration failed, sites being off
  clicks, elsewhere

server == <<srv, setup, decided, deploy>>
bounds == <<clicks, elsewhere>>
vars == <<server, ui, reqs, missed, bounds>>

Full == {"user", "admin"}
AuthScreens == {"setup", "login", "verify", "enroll"}
Views == {"sites", "config", "profile", "admin"}

Idle == [kind |-> "none", at |-> "idle", res |-> "none", val |-> "none",
         boot |-> FALSE, own |-> FALSE]

(* The forms with a busy flag.                                              *)
Forms == {"login", "verify", "setup", "policy"}

Sent(kind) == [Idle EXCEPT !.kind = kind, !.at = "sent", !.own = kind \in Forms]

(* What /api/me reports: an administrator also learns that the policy is    *)
(* still to be decided.                                                     *)
ServerMe == IF srv = "admin" /\ ~decided THEN "asks" ELSE srv

(* The screen App renders.                                                  *)
ScreenOf(u) ==
  CASE ~u.booted -> "blank"
    [] u.booted /\ u.needsSetup -> "setup"
    [] u.booted /\ ~u.needsSetup /\ u.me = "none" -> "login"
    [] u.booted /\ ~u.needsSetup /\ u.me = "mfa" -> "verify"
    [] u.booted /\ ~u.needsSetup /\ u.me = "enroll" -> "enroll"
    [] OTHER -> "app"

Screen == ScreenOf(ui)

(* Paths that are no view of the shell and are replaced there.              *)
Unsettled == AuthScreens \cup {"root"}

Default(conf) == IF conf = "off" THEN "config" ELSE "sites"

(* Defect: the redirect does not wait for the configuration.                *)
LandedHasty(u) ==
  CASE ScreenOf(u) \in AuthScreens -> ScreenOf(u)
    [] ScreenOf(u) = "app" /\ u.path \in Unsettled -> Default(u.conf)
    [] OTHER -> u.path

(* The redirect effect.                                                     *)
Landed(u) ==
  CASE ScreenOf(u) \in AuthScreens -> ScreenOf(u)
    [] /\ ScreenOf(u) = "app" /\ u.confLoaded
       /\ u.path \in Unsettled -> Default(u.conf)
    [] OTHER -> u.path

(* Lanes only tell requests apart: one that is free is as good as another.  *)
HasLane(rs) == \E l \in Lanes : rs[l].at = "idle"
FreeLane(rs) == CHOOSE l \in Lanes : rs[l].at = "idle"

(* A state update with everything it entails: the path; the screen that     *)
(* leaves takes its form with it, whose busy flag no longer counts; and a   *)
(* shell that appears fetches the configuration.                            *)
Render(u, rs) ==
  LET next == ScreenOf(u)
      kept == IF next = Screen THEN rs
              ELSE [l \in DOMAIN rs |-> [rs[l] EXCEPT !.own = FALSE]]
  IN /\ ui' = [u EXCEPT !.path = Landed(u)]
     /\ IF next = "app" /\ Screen # "app"
          THEN reqs' = [kept EXCEPT ![FreeLane(kept)] = Sent("config")]
          ELSE reqs' = kept

Opened(p) == [booted |-> FALSE, needsSetup |-> FALSE, me |-> "none", path |-> p,
              conf |-> "none", confLoaded |-> FALSE]

(* The first request of a page, by boot.                                    *)
Booting ==
  LET none == [l \in Lanes \cup Polls |-> Idle]
  IN [none EXCEPT ![FreeLane(none)] = [Sent("status") EXCEPT !.boot = TRUE]]

Init ==
  /\ setup \in BOOLEAN
  /\ srv \in IF setup THEN {"none"} ELSE {"none", "mfa", "enroll"} \cup Full
  /\ decided \in BOOLEAN /\ (setup => ~decided)
  /\ deploy \in {"on", "off"}
  /\ ui \in {Opened(p) : p \in Entry}
  /\ reqs = Booting
  /\ missed = FALSE /\ clicks = 0 /\ elsewhere = 0

-----------------------------------------------------------------------------
(* What the user starts.                                                    *)

(* The busy flag of the form on screen.                                     *)
Busy == \E l \in Lanes : reqs[l].own

(* PolicyPrompt covers the shell until the policy is decided.               *)
ShellFree == Screen = "app" /\ ui.me # "asks"

(* The view on screen; a path that is none, or one this account or this     *)
(* deployment does not have, shows NotFound.                                *)
ViewShown ==
  IF ui.path \notin Views \/ (ui.path = "admin" /\ ui.me # "admin")
     \/ (ui.path = "sites" /\ ui.conf = "off")
    THEN "notFound" ELSE ui.path

(* Which screen sends which request. A panel that enrols can be left and    *)
(* opened again while it waits, so its busy flag does not hold.             *)
SetupOffers(kind) == kind = "setup" /\ Screen = "setup" /\ ~Busy
LoginOffers(kind) == kind = "login" /\ Screen = "login" /\ ~Busy
VerifyOffers(kind) == Screen = "verify" /\ (kind = "logout" \/ (kind = "verify" /\ ~Busy))
EnrollOffers(kind) == kind = "enroll" /\ Screen = "enroll"
PolicyOffers(kind) == kind = "policy" /\ Screen = "app" /\ ui.me = "asks" /\ ~Busy
ProfileOffers(kind) == kind = "account" /\ ShellFree /\ ViewShown = "profile"
PanelOffers(kind) == kind = "totp" /\ ShellFree /\ ViewShown = "profile"
SidebarOffers(kind) == kind = "logout" /\ ShellFree
ViewOffers(kind) == kind = "view" /\ ShellFree /\ ViewShown # "notFound"

Offers(kind) ==
  \/ SetupOffers(kind) \/ LoginOffers(kind) \/ VerifyOffers(kind) \/ EnrollOffers(kind)
  \/ PolicyOffers(kind) \/ ProfileOffers(kind) \/ PanelOffers(kind)
  \/ SidebarOffers(kind) \/ ViewOffers(kind)

Kinds == {"login", "verify", "setup", "policy", "enroll", "totp", "account", "view", "logout"}

Submit(kind) ==
  /\ clicks < MaxClicks /\ clicks' = clicks + 1
  /\ HasLane(reqs) /\ Offers(kind)
  /\ reqs' = [reqs EXCEPT ![FreeLane(reqs)] = Sent(kind)]
  /\ UNCHANGED <<server, ui, missed, elsewhere>>

(* A link of the shell, or the back button.                                 *)
Navigate(p) ==
  /\ clicks < MaxClicks /\ clicks' = clicks + 1
  /\ Screen = "app" /\ p # ui.path
  /\ Render([ui EXCEPT !.path = p], reqs)
  /\ UNCHANGED <<server, missed, elsewhere>>

(* useNginxStatus, while the shell is mounted and the tab is visible.       *)
Poll(l) ==
  /\ Screen = "app" /\ reqs[l].at = "idle"
  /\ reqs' = [reqs EXCEPT ![l] = Sent("poll")]
  /\ UNCHANGED <<server, ui, missed, bounds>>

-----------------------------------------------------------------------------
(* The server. An answer is what the server made of the request when it     *)
(* served it: "refused" is a 401, "failed" any other error.                 *)

Respond(l, res, val) ==
  reqs' = [reqs EXCEPT ![l].at = "back", ![l].res = res, ![l].val = val]

(* Requests that change nothing there.                                      *)
Reads(l, kind) ==
  /\ UNCHANGED <<srv, setup, decided>>
  /\ \/ kind = "status" /\ Respond(l, "ok", IF setup THEN "setup" ELSE "none")
     \/ kind = "me" /\ IF srv = "none" THEN Respond(l, "refused", "none")
                                       ELSE Respond(l, "ok", ServerMe)
     \/ kind = "poll" /\ IF srv \in Full THEN Respond(l, "ok", "none")
                                         ELSE Respond(l, "refused", "none")
     \/ kind = "config" /\ IF srv \in Full THEN Respond(l, "ok", deploy)
                                           ELSE Respond(l, "refused", "none")
     \/ kind \in {"view", "account"} /\ IF srv \in Full THEN Respond(l, "ok", "none")
                                                        ELSE Respond(l, "refused", "none")

(* requireStep and the handler behind it: 401 without a session and for a   *)
(* wrong code, 403 for a session of another level.                          *)
Step(l, level) ==
  /\ UNCHANGED <<setup, decided>>
  /\ \/ srv = level /\ srv' \in Full /\ Respond(l, "ok", "none")
     \/ srv \in {level, "none"} /\ UNCHANGED srv /\ Respond(l, "refused", "none")
     \/ srv \notin {level, "none"} /\ UNCHANGED srv /\ Respond(l, "failed", "none")

Changes(l, kind) ==
  \/ /\ kind = "login" /\ UNCHANGED <<setup, decided>>
     /\ \/ ~setup /\ srv' \in {"mfa", "enroll"} \cup Full /\ Respond(l, "ok", "none")
        \/ UNCHANGED srv /\ Respond(l, "refused", "none")
  \/ kind = "verify" /\ Step(l, "mfa")
  \/ kind = "enroll" /\ Step(l, "enroll")
  \/ /\ kind = "totp" /\ UNCHANGED <<srv, setup, decided>>
     /\ IF srv \in Full \cup {"enroll"}
          THEN \E res \in {"ok", "refused"} : Respond(l, res, "none")
          ELSE Respond(l, IF srv = "none" THEN "refused" ELSE "failed", "none")
  \/ /\ kind = "setup" /\ UNCHANGED decided
     /\ IF setup THEN srv' = "admin" /\ setup' = FALSE /\ Respond(l, "ok", "none")
                 ELSE UNCHANGED <<srv, setup>> /\ Respond(l, "failed", "none")
  \/ /\ kind = "policy" /\ UNCHANGED setup
     /\ CASE srv = "admin" ->
               /\ decided' = TRUE /\ srv' \in {"admin", "enroll"}
               /\ Respond(l, "ok", "none")
          [] srv = "user" -> UNCHANGED <<srv, decided>> /\ Respond(l, "failed", "none")
          [] OTHER -> UNCHANGED <<srv, decided>> /\ Respond(l, "refused", "none")
  \/ /\ kind = "logout" /\ srv' = "none" /\ UNCHANGED <<setup, decided>>
     /\ Respond(l, "ok", "none")

Serve(l) ==
  /\ reqs[l].at = "sent"
  /\ Reads(l, reqs[l].kind) \/ Changes(l, reqs[l].kind)
  /\ UNCHANGED <<deploy, ui, missed, bounds>>

(* The network, or the server, fails before the request or after it.        *)
Lose(l) ==
  /\ reqs[l].at # "idle" /\ reqs[l].res # "failed"
  /\ Respond(l, "failed", "none")
  /\ UNCHANGED <<server, ui, missed, bounds>>

-----------------------------------------------------------------------------
(* What an answer does.                                                     *)

(* Defect: the answer to the poll does not reach the hook.                  *)
AfterHookQuiet(l) ==
  IF reqs[l].res = "refused" /\ reqs[l].kind = "view"
    THEN [ui EXCEPT !.me = "none"] ELSE ui

(* request: while the shell is mounted any 401 ends the session on screen;  *)
(* a view also calls onAuthLost itself, mounted or not.                     *)
AfterHook(l) ==
  IF reqs[l].res = "refused" /\ (Screen = "app" \/ reqs[l].kind = "view")
    THEN [ui EXCEPT !.me = "none"] ELSE ui

(* boot: the status, then loadMe, and a screen whatever they answered.      *)
StatusAnswered(l, t) ==
  LET done == [reqs EXCEPT ![l] = Idle]
  IN CASE t.res = "ok" /\ t.val = "setup" ->
            Render([ui EXCEPT !.needsSetup = TRUE, !.me = "none", !.booted = TRUE], done)
       [] t.res = "ok" /\ t.val # "setup" ->
            Render(ui, [reqs EXCEPT ![l] = [Sent("me") EXCEPT !.boot = TRUE]])
       [] OTHER -> Render([ui EXCEPT !.me = "none", !.booted = TRUE], done)

(* loadMe.                                                                  *)
MeAnswered(l, t) ==
  Render([AfterHook(l) EXCEPT !.booted = @ \/ t.boot,
                     !.me = IF t.res = "ok" THEN t.val ELSE "none",
                     !.needsSetup = @ /\ t.res # "ok"],
         [reqs EXCEPT ![l] = Idle])

(* The forms: onAuthed, onVerified, onDone and onChanged are loadMe, called *)
(* even when the form that asked is gone.                                   *)
FormAnswered(l, t) ==
  Render(AfterHook(l), [reqs EXCEPT ![l] = IF t.res = "ok" THEN Sent("me") ELSE Idle])

(* logout: signed out here whatever the server answered, then boot.         *)
LogoutAnswered(l) ==
  Render([ui EXCEPT !.me = "none"],
         [reqs EXCEPT ![l] = [Sent("status") EXCEPT !.boot = TRUE]])

(* Defect: a failed fetch is not a loaded configuration.                    *)
ConfigAnsweredNever(l, t) ==
  Render([AfterHook(l) EXCEPT !.conf = IF t.res = "ok" THEN t.val ELSE "none",
                     !.confLoaded = @ \/ t.res = "ok"],
         [reqs EXCEPT ![l] = Idle])

ConfigAnswered(l, t) ==
  Render([AfterHook(l) EXCEPT !.conf = IF t.res = "ok" THEN t.val ELSE "none",
                     !.confLoaded = TRUE],
         [reqs EXCEPT ![l] = Idle])

Deliver(l) ==
  /\ reqs[l].at = "back"
  /\ LET t == reqs[l] IN
       /\ \/ t.kind = "status" /\ StatusAnswered(l, t)
          \/ t.kind = "me" /\ MeAnswered(l, t)
          \/ t.kind = "logout" /\ LogoutAnswered(l)
          \/ t.kind = "config" /\ ConfigAnswered(l, t)
          \/ /\ t.kind \in {"login", "verify", "enroll", "setup", "totp", "account", "policy"}
             /\ FormAnswered(l, t)
          \/ t.kind = "view" /\ Render(AfterHook(l), [reqs EXCEPT ![l] = Idle])
       /\ missed' = (missed \/ (t.kind = "config" /\ t.res # "ok" /\ deploy = "off"))
  /\ UNCHANGED <<server, bounds>>

(* What a poll tells of nginx goes to the badge; what it tells of the       *)
(* session is not left to the caller, which swallows every error.           *)
DeliverPoll(l) ==
  /\ reqs[l].at = "back"
  /\ Render(AfterHook(l), [reqs EXCEPT ![l] = Idle])
  /\ UNCHANGED <<server, missed, bounds>>

Heard(l) == DeliverPoll(l) /\ reqs[l].res # "failed"

-----------------------------------------------------------------------------
(* Elsewhere: the session is revoked or expires, another tab of the browser *)
(* signs in, the policy or a reset takes the session back to enrolling,     *)
(* another browser finishes the setup, another administrator decides.       *)
Elsewhere ==
  /\ elsewhere < MaxElsewhere /\ elsewhere' = elsewhere + 1
  /\ \/ srv # "none" /\ srv' = "none" /\ UNCHANGED <<setup, decided>>
     \/ ~setup /\ srv = "none" /\ srv' \in Full /\ UNCHANGED <<setup, decided>>
     \/ srv \in Full /\ srv' = "enroll" /\ UNCHANGED <<setup, decided>>
     \/ setup /\ setup' = FALSE /\ UNCHANGED <<srv, decided>>
     \/ ~setup /\ ~decided /\ decided' = TRUE /\ UNCHANGED <<srv, setup>>
  /\ UNCHANGED <<deploy, ui, reqs, missed, clicks>>

(* The page is loaded anew, by the user or by the return from the identity  *)
(* provider, which signs in: answers to the old page are dropped.           *)
Reload(p) ==
  /\ elsewhere < MaxElsewhere /\ elsewhere' = elsewhere + 1
  /\ \/ UNCHANGED srv
     \/ Screen = "login" /\ ~setup /\ p = "root" /\ srv' \in Full
  /\ ui' = Opened(p) /\ reqs' = Booting /\ missed' = FALSE
  /\ UNCHANGED <<setup, decided, deploy, clicks>>

Next ==
  \/ \E kind \in Kinds : Submit(kind)
  \/ \E p \in Entry \cup Views : Navigate(p)
  \/ \E l \in Polls : Poll(l) \/ DeliverPoll(l)
  \/ \E l \in Lanes : Deliver(l)
  \/ \E l \in Lanes \cup Polls : Serve(l) \/ Lose(l)
  \/ Elsewhere
  \/ \E p \in Entry : Reload(p)

(* Every request is answered or lost, and its answer handled; the shell     *)
(* polls for as long as it shows; a poll is not lost every time.            *)
Fairness ==
  /\ \A l \in Lanes : WF_vars(Serve(l)) /\ WF_vars(Deliver(l))
  /\ \A l \in Polls : WF_vars(Poll(l)) /\ WF_vars(DeliverPoll(l))
                        /\ SF_vars(Serve(l)) /\ SF_vars(Heard(l))

Spec == Init /\ [][Next]_vars /\ Fairness

-----------------------------------------------------------------------------
(* A session that ended does not keep its shell: however the answers of the *)
(* views, of loadMe and of the polls interleave, the shell gives way, or    *)
(* the browser has a session again.                                         *)
DeadSessionNoticed == (Screen = "app" /\ srv = "none") ~> (Screen # "app" \/ srv # "none")

(* "/" and the URLs of the sign-in screens become that of a view in the     *)
(* end, even when the configuration cannot be fetched ...                   *)
ShellLands ==
  (Screen = "app" /\ ui.path \in Unsettled) ~> (Screen # "app" \/ ui.path \notin Unsettled)

(* ... and never that of a section the deployment does not have, unless a   *)
(* fetch of the configuration failed: the redirect waits for "which view    *)
(* '/' means" (App.tsx, the redirect effect). A link the user follows and   *)
(* a page loaded anew go where they were told.                              *)
LandsOnASection ==
  [][ui.path \in Unsettled /\ ui'.path = "sites" /\ UNCHANGED bounds
       => deploy = "on" \/ missed']_vars

(* "While the app is mounted, any 401 means the session was revoked or      *)
(* expired" (App.tsx, over the hook): a 401 that brings the login screen    *)
(* back finds no session on the server.                                     *)
UnauthorizedMeansDead ==
  [][\A l \in Lanes :
       reqs[l].res = "refused" /\ reqs'[l].at = "idle" /\ Screen = "app" /\ ScreenOf(ui') = "login"
         => srv \notin Full]_vars
=============================================================================
