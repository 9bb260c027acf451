--------------------------- MODULE AccountsProofs ---------------------------
(***************************************************************************)
(* Proofs about Accounts, for any number of users, goroutines, sessions    *)
(* and changes of credentials: the inductive invariant IInv and the safety *)
(* properties of sessions that follow, and the properties of single steps. *)
(***************************************************************************)
EXTENDS Accounts, FiniteSetTheorems, TLAPS

(* What a request knows is never ahead of the database, and what it has    *)
(* decided holds as long as auth_version is the one it read.               *)
ReqInv(p) ==
  LET q == r[p] IN
    /\ q.at # "idle" => q.user \in Users
    /\ q.user \in Users => q.version <= version[q.user]
    /\ q.at = "policy" /\ q.version = version[q.user] => ~MFAEnrolled(q.user)
    /\ q.at = "insert" => q.level # "none"
    /\ q.at = "insert" /\ q.level = "full" /\ q.version = version[q.user]
         /\ MFAEnrolled(q.user) => q.second

(* A user who does not exist yet has no factor.                            *)
Fresh == \A u \in Users : role[u] = "absent" => ~MFAEnrolled(u)

Rows == SessionsCurrent /\ FullIsEarned /\ Fresh

IInv == TypeOK /\ Rows /\ \A p \in Procs : ReqInv(p)

TypeOfDB ==
  /\ role \in [Users -> Roles \cup {"absent", "deleted"}]
  /\ hash \in [Users -> 0 .. MaxVersion]
  /\ version \in [Users -> 0 .. MaxVersion]
  /\ totp \in [Users -> {"none", "pending", "confirmed"}]
  /\ keys \in [Users -> 0 .. MaxKeys]
  /\ required \in SUBSET Roles
  /\ sessions \in SUBSET Session
  /\ issued \in 0 .. MaxSessions
  /\ trusted \in SUBSET Device

(* Only request p moves on.                                                *)
Moves(p) ==
  /\ mfaMu' \in Procs \cup {NoOne}
  /\ r' \in [Procs -> Request]
  /\ \A q \in Procs : q # p => r'[q] = r[q]

(* auth_version never goes back, and a user who gets a second factor gets  *)
(* a new one.                                                              *)
Safe ==
  \A u \in Users :
    /\ version[u] <= version'[u]
    /\ MFAEnrolled(u)' /\ version'[u] = version[u] => MFAEnrolled(u)

(* The other requests keep their invariant across a step of request p.     *)
LEMMA OthersKeep ==
  ASSUME IInv, NEW p \in Procs, TypeOfDB', Moves(p), Safe, ReqInv(p)', Rows'
  PROVE  IInv'
<1>1. TypeOK'
  BY DEF TypeOfDB, Moves, TypeOK
<1>2. ASSUME NEW q \in Procs PROVE ReqInv(q)'
  <2>1. CASE q = p
    BY <2>1
  <2>2. CASE q # p
    <3>1. r'[q] = r[q] /\ r[q] \in Request /\ ReqInv(q)
      BY <2>2 DEF Moves, IInv, TypeOK
    <3>2. r[q].user \in Users => r[q].version \in Nat /\ version[r[q].user] \in Nat
                                   /\ version'[r[q].user] \in Nat
      BY <3>1, AccountsAssumption DEF Request, IInv, TypeOK, TypeOfDB
    <3>3. r[q].at \in {"policy", "insert"} => r[q].user \in Users
      BY <3>1 DEF ReqInv
    <3> QED
      BY <3>1, <3>2, <3>3 DEF ReqInv, Safe, MFAEnrolled
  <2> QED
    BY <2>1, <2>2
<1> QED
  BY <1>1, <1>2 DEF IInv

(* The two ways a request moves on: it is answered, or takes its next step.*)
LEMMA FinishMoves ==
  ASSUME TypeOK, NEW p \in Procs, Finish(p)
  PROVE  Moves(p) /\ r'[p] = Idle
<1>1. Idle \in Request
  BY AccountsAssumption DEF Idle, NewRequest, NoSession, Request, Ops, Steps, Levels, Roles
<1> QED
  BY <1>1 DEF Finish, Moves, TypeOK

(* A request that is answered has nothing left to keep.                    *)
LEMMA IdleReqInv ==
  ASSUME TypeOK, NEW p \in Procs, r'[p] = Idle
  PROVE  ReqInv(p)'
BY AccountsAssumption DEF ReqInv, Idle, NewRequest, NoSession

(* The next step of a request.                                             *)
LEMMA GotoMoves ==
  ASSUME TypeOK, NEW p \in Procs, NEW step \in Steps, Goto(p, step), UNCHANGED mfaMu
  PROVE  Moves(p) /\ r'[p] = [r[p] EXCEPT !.at = step]
<1>1. r[p] \in Request
  BY DEF TypeOK
<1>2. [r[p] EXCEPT !.at = step] \in Request
  BY <1>1 DEF Request
<1>3. r' = [r EXCEPT ![p] = [r[p] EXCEPT !.at = step]]
  BY DEF Goto
<1> QED
  BY <1>2, <1>3 DEF Moves, TypeOK

(* A step that only reads: the rows and what other requests rely on stay.  *)
LEMMA ReadKeeps ==
  ASSUME IInv, NEW p \in Procs, Moves(p), ReqInv(p)',
         UNCHANGED <<users, required, sessions, issued, trusted>>
  PROVE  IInv'
<1>1. TypeOfDB'
  BY DEF IInv, TypeOK, TypeOfDB, users
<1>2. Safe
  <2>1. \A u \in Users : version[u] \in Nat
    BY AccountsAssumption DEF IInv, TypeOK
  <2> QED
    BY <2>1 DEF Safe, MFAEnrolled, users
<1>3. Rows'
  BY DEF IInv, Rows, SessionsCurrent, FullIsEarned, Fresh, MFAEnrolled, Exists, users
<1> QED
  BY <1>1, <1>2, <1>3, OthersKeep

(* Revoke leaves of the user's sessions at most the one kept, and takes    *)
(* the version with it.                                                    *)
LEMMA RevokeKeeps ==
  ASSUME TypeOK, SessionsCurrent, NEW u \in Users, NEW keep \in 0 .. MaxSessions,
         NEW second \in BOOLEAN, Revoke(u, keep, second)
  PROVE  /\ version' \in [Users -> 0 .. MaxVersion]
         /\ version'[u] = version[u] + 1
         /\ \A v \in Users : v # u => version'[v] = version[v]
         /\ \A v \in Users : version[v] <= version'[v]
         /\ sessions' \in SUBSET Session /\ trusted' \in SUBSET Device
         /\ \A s \in sessions' : s.version = version'[s.user]
         /\ \A s \in sessions' :
              \/ s.user # u /\ s \in sessions
              \/ /\ s.user = u /\ (second => s.second)
                 /\ \E t \in sessions : t.user = u /\ s.level = t.level /\ (t.second => s.second)
<1>1. \A v \in Users : version[v] \in Nat
  BY AccountsAssumption DEF TypeOK
<1>2. version' \in [Users -> 0 .. MaxVersion] /\ version'[u] = version[u] + 1
      /\ \A v \in Users : v # u => version'[v] = version[v]
  <2>1. version[u] < MaxVersion /\ version' = [version EXCEPT ![u] = version[u] + 1]
    BY DEF Revoke
  <2>2. version \in [Users -> 0 .. MaxVersion]
    BY DEF TypeOK
  <2>3. version[u] + 1 \in 0 .. MaxVersion
    BY <1>1, <2>1, <2>2, AccountsAssumption
  <2> QED
    BY <2>1, <2>2, <2>3
<1>3. ASSUME NEW s \in sessions' 
      PROVE  \/ s.user # u /\ s \in sessions
             \/ \E t \in sessions : t.user = u /\ s = [t EXCEPT !.version = @ + 1, !.second = @ \/ second]
  BY DEF Revoke, SessionsOf
<1>4. ASSUME NEW s \in sessions'
      PROVE  /\ s \in Session /\ s.version = version'[s.user]
             /\ \/ s.user # u /\ s \in sessions
                \/ /\ s.user = u /\ (second => s.second)
                   /\ \E t \in sessions : t.user = u /\ s.level = t.level /\ (t.second => s.second)
  <2>1. CASE s.user # u /\ s \in sessions
    BY <2>1, <1>2 DEF TypeOK, SessionsCurrent, Session
  <2>2. ASSUME NEW t \in sessions, t.user = u,
               s = [t EXCEPT !.version = @ + 1, !.second = @ \/ second]
        PROVE  /\ s \in Session /\ s.version = version'[s.user] /\ s.user = u
               /\ second => s.second
               /\ s.level = t.level /\ (t.second => s.second)
    <3>1. t \in Session /\ t.version = version[u]
      BY <2>2 DEF TypeOK, SessionsCurrent
    <3>2. s.user = u /\ s.version = version[u] + 1 /\ s.level = t.level
          /\ s.second = (t.second \/ second) /\ s.sid = t.sid
      BY <3>1, <2>2 DEF Session
    <3>3. version[u] + 1 \in 0 .. MaxVersion
      BY <1>2
    <3>4. s = [sid |-> t.sid, user |-> u, level |-> t.level, version |-> version[u] + 1,
               second |-> (t.second \/ second)]
      BY <3>1, <2>2 DEF Session
    <3>5. s \in Session
      BY <3>1, <3>3, <3>4 DEF Session
    <3> QED
      BY <3>2, <3>5, <1>2
  <2> QED
    BY <1>3, <2>1, <2>2
<1>5. trusted' \in SUBSET Device
  BY DEF Revoke, TypeOK
<1>6. \A v \in Users : version[v] <= version'[v]
  BY <1>1, <1>2
<1> QED
  BY <1>2, <1>4, <1>5, <1>6

-----------------------------------------------------------------------------
(* Every initial state satisfies the inductive invariant.                  *)
LEMMA InitInv == Init => IInv
<1> SUFFICES ASSUME Init PROVE IInv
  OBVIOUS
<1>1. Idle \in Request
  BY AccountsAssumption DEF Idle, NewRequest, NoSession, Request, Ops, Steps, Levels, Roles
<1>2. TypeOK
  <2>1. role \in [Users -> Roles \cup {"absent", "deleted"}]
    BY DEF Init
  <2> QED
    BY <1>1, <2>1, AccountsAssumption DEF Init, TypeOK, Session, Device
<1>3. Rows
  BY AccountsAssumption DEF Init, Rows, SessionsCurrent, FullIsEarned, Fresh, MFAEnrolled, Exists, Roles
<1>4. \A p \in Procs : ReqInv(p)
  BY AccountsAssumption DEF Init, ReqInv, Idle, NewRequest, NoSession
<1> QED
  BY <1>2, <1>3, <1>4 DEF IInv

(* A request arrives knowing nothing of the database yet.                  *)
LEMMA BeginInv ==
  ASSUME IInv, NEW p \in Procs, NEW op \in Ops, NEW step \in Steps \ {"policy", "insert"},
         NEW u \in Users, NEW s, s.sid \in 0 .. MaxSessions, s.level \in Levels,
         Begin(p, op, step, u, s)
  PROVE  IInv'
<1> DEFINE x == NewRequest(op, step, u, s)
<1>1. x = [op |-> op, at |-> step, user |-> u, sid |-> s.sid, level |-> s.level,
           role |-> "none", version |-> 0, hash |-> 0, second |-> FALSE]
  BY DEF NewRequest
<1>2. x \in Request
  BY <1>1, AccountsAssumption DEF Request
<1>3. r' = [r EXCEPT ![p] = x] /\ UNCHANGED <<users, required, sessions, issued, trusted, mfaMu>>
  BY DEF Begin
<1>4. Moves(p) /\ r'[p] = x
  BY <1>2, <1>3 DEF IInv, TypeOK, Moves
<1>5. version'[u] \in Nat
  BY <1>3, AccountsAssumption DEF IInv, TypeOK, users
<1>6. ReqInv(p)'
  BY <1>1, <1>4, <1>5 DEF ReqInv
<1> QED
  BY <1>3, <1>4, <1>6, ReadKeeps

(* The session the middleware reads.                                       *)
LEMMA LiveType ==
  ASSUME TypeOK, NEW s \in sessions
  PROVE  /\ s.user \in Users
         /\ Live(s).sid \in 0 .. MaxSessions /\ Live(s).level \in Levels
BY AccountsAssumption DEF TypeOK, Session, Live, Levels

(* Every arrival keeps the invariant.                                      *)
LEMMA ArriveInv == ASSUME IInv, NEW p \in Procs, Arrive(p) PROVE IInv'
<1> USE DEF Ops, Steps, Enrol, Remove, Admin
<1>1. NoSession.sid \in 0 .. MaxSessions /\ NoSession.level \in Levels
  BY AccountsAssumption DEF NoSession, Levels
<1>2. TypeOK
  BY DEF IInv
<1>3. ASSUME NEW u \in Users, BeginLogin(p, u) \/ BeginPasskey(p, u) \/ BeginSetup(p, u)
      PROVE  IInv'
  <2>1. \E op \in Ops, step \in {"hash", "lock", "write"} : Begin(p, op, step, u, NoSession)
    BY <1>3 DEF BeginLogin, BeginPasskey, BeginSetup
  <2> QED
    BY <1>1, <2>1, BeginInv
<1>4. ASSUME NEW s \in sessions, NEW op \in Ops,
             BeginVerify(p, s) \/ BeginEnrol(p, s, op) \/ BeginProfile(p, s, op)
      PROVE  IInv'
  <2>1. \E o \in Ops, step \in {"hash", "lock"} : Begin(p, o, step, s.user, Live(s))
    BY <1>4 DEF BeginVerify, BeginEnrol, BeginProfile
  <2>2. s.user \in Users /\ Live(s).sid \in 0 .. MaxSessions /\ Live(s).level \in Levels
    BY <1>2, LiveType
  <2> QED
    BY <2>1, <2>2, BeginInv
<1>5. ASSUME NEW s \in sessions, NEW op \in Ops, NEW u \in Users, BeginAdmin(p, s, op, u)
      PROVE  IInv'
  <2>1. \E step \in {"lock", "write"} : Begin(p, op, step, u, NoSession)
    BY <1>5 DEF BeginAdmin
  <2> QED
    BY <1>1, <2>1, BeginInv
<1> QED
  BY <1>3, <1>4, <1>5 DEF Arrive

(* So does an early return.                                                *)
LEMMA GiveUpInv == ASSUME IInv, NEW p \in Procs, GiveUp(p) PROVE IInv'
<1>1. Moves(p) /\ r'[p] = Idle
  BY FinishMoves DEF GiveUp, IInv
<1>2. ReqInv(p)'
  BY <1>1, IdleReqInv DEF IInv
<1> QED
  BY <1>1, <1>2, ReadKeeps DEF GiveUp

(* A request that only goes to another step than policy and insert keeps   *)
(* what it knows.                                                          *)
LEMMA GotoInv ==
  ASSUME IInv, NEW p \in Procs, NEW step \in Steps \ {"idle", "policy", "insert"},
         r[p].at # "idle", Goto(p, step), mfaMu' \in Procs \cup {NoOne},
         UNCHANGED <<users, required, sessions, issued, trusted>>
  PROVE  IInv'
<1>1. r[p] \in Request /\ ReqInv(p)
  BY DEF IInv, TypeOK
<1>2. [r[p] EXCEPT !.at = step] \in Request
  BY <1>1 DEF Request
<1>3. r' = [r EXCEPT ![p] = [r[p] EXCEPT !.at = step]]
  BY DEF Goto
<1>4. Moves(p) /\ r'[p] = [r[p] EXCEPT !.at = step]
  BY <1>2, <1>3 DEF Moves, IInv, TypeOK
<1>5. r'[p].at = step /\ r'[p].user = r[p].user /\ r'[p].version = r[p].version
  BY <1>1, <1>4 DEF Request
<1>6. ReqInv(p)'
  BY <1>1, <1>5 DEF ReqInv, users
<1> QED
  BY <1>4, <1>6, ReadKeeps

(* Taking mfaMu, and the check of canEnrol.                                *)
LEMMA LockInv == ASSUME IInv, NEW p \in Procs, LockMFA(p) PROVE IInv'
<1>1. \E step \in {"user", "check", "enrol", "write"} : Goto(p, step)
  BY DEF LockMFA
<1> QED
  BY <1>1, GotoInv DEF LockMFA, Steps

LEMMA CanEnrolInv == ASSUME IInv, NEW p \in Procs, CanEnrol(p) PROVE IInv'
<1>1. r[p].at # "idle" /\ Goto(p, "write") /\ Reading
  BY DEF CanEnrol, At
<1>2. mfaMu' \in Procs \cup {NoOne}
  BY <1>1 DEF Reading, IInv, TypeOK
<1> QED
  BY <1>1, <1>2, GotoInv DEF Steps, Reading

-----------------------------------------------------------------------------
(* A step that reads something into the request.                           *)
LEMMA ReadingInv ==
  ASSUME IInv, NEW p \in Procs, NEW x \in Request, r' = [r EXCEPT ![p] = x], Reading,
         x.user = r[p].user, r[p].user \in Users, x.version <= version[x.user],
         x.at = "policy" /\ x.version = version[x.user] => ~MFAEnrolled(x.user),
         x.at = "insert" => x.level # "none",
         x.at = "insert" /\ x.level = "full" /\ x.version = version[x.user]
           /\ MFAEnrolled(x.user) => x.second
  PROVE  IInv'
<1>1. Moves(p) /\ r'[p] = x
  BY DEF Moves, IInv, TypeOK, Reading
<1>2. ReqInv(p)'
  BY <1>1 DEF ReqInv, Reading, users, MFAEnrolled
<1> QED
  BY <1>1, <1>2, ReadKeeps DEF Reading

(* The steps of sign-in that only read.                                    *)
LEMMA SignInReadsInv ==
  ASSUME IInv, NEW p \in Procs,
         \/ PasswordHashVersion(p) \/ GetUser(p) \/ RoleRequiresMFA(p)
         \/ TrustedDevice(p) \/ FinishPasskeyLogin(p) \/ VerifyFactor(p)
  PROVE  IInv'
<1> DEFINE q == r[p]
<1>1. q \in Request /\ ReqInv(p)
  BY DEF IInv, TypeOK
<1>2. q.at # "idle"
  BY DEF PasswordHashVersion, GetUser, RoleRequiresMFA, TrustedDevice, FinishPasskeyLogin,
         VerifyFactor, At
<1>3. q.user \in Users /\ q.version \in 0 .. MaxVersion /\ q.version <= version[q.user]
  BY <1>1, <1>2 DEF ReqInv, Request
<1>4. version[q.user] \in 0 .. MaxVersion /\ hash[q.user] \in 0 .. MaxVersion
  BY <1>3 DEF IInv, TypeOK
<1>5. r \in [Procs -> Request]
  BY DEF IInv, TypeOK
<1>13. version[q.user] <= version[q.user]
  BY <1>4, AccountsAssumption
<1>6. ASSUME PasswordHashVersion(p), q.op = "login" PROVE IInv'
  <2> DEFINE x == [q EXCEPT !.version = version[q.user], !.at = "user"]
  <2>1. r' = [r EXCEPT ![p] = x] /\ Reading
    BY <1>5, <1>6 DEF PasswordHashVersion
  <2>2. x \in Request /\ x.user = q.user /\ x.version = version[q.user] /\ x.at = "user"
    BY <1>1, <1>4 DEF Request, Steps
  <2> HIDE DEF x
  <2>3. x.version <= version[x.user] /\ x.at \notin {"policy"} /\ r[p].user \in Users
    BY <1>3, <2>2, <1>13
  <2> QED
    BY <1>3, <2>1, <2>2, <2>3, ReadingInv
<1>7. ASSUME PasswordHashVersion(p), q.op = "password" PROVE IInv'
  <2> DEFINE x == [q EXCEPT !.hash = hash[q.user], !.at = "write"]
  <2>1. r' = [r EXCEPT ![p] = x] /\ Reading
    BY <1>5, <1>7 DEF PasswordHashVersion
  <2>2. x \in Request /\ x.user = q.user /\ x.version = q.version /\ x.at = "write"
    BY <1>1, <1>4 DEF Request, Steps
  <2> HIDE DEF x
  <2> QED
    BY <1>3, <1>4, <2>1, <2>2, ReadingInv
<1>8. ASSUME GetUser(p) PROVE IInv'
  <2> DEFINE x == [q EXCEPT !.role = role[q.user],
                            !.at = IF MFAEnrolled(q.user) THEN "trust" ELSE "policy"]
  <2>1. r' = [r EXCEPT ![p] = x] /\ Reading
    BY <1>5, <1>8 DEF GetUser
  <2>2. /\ x \in Request /\ x.user = q.user /\ x.version = q.version
        /\ x.at \in {"trust", "policy"} /\ (x.at = "policy" => ~MFAEnrolled(q.user))
    BY <1>1, <1>8 DEF Request, Steps, GetUser, Exists
  <2> HIDE DEF x
  <2> QED
    BY <1>3, <1>4, <2>1, <2>2, ReadingInv
<1>9. ASSUME RoleRequiresMFA(p) PROVE IInv'
  <2>1. PICK level \in {"enroll", "full"} : r' = [r EXCEPT ![p].level = level, ![p].at = "insert"]
    BY <1>9 DEF RoleRequiresMFA
  <2> DEFINE x == [q EXCEPT !.level = level, !.at = "insert"]
  <2>2. r' = [r EXCEPT ![p] = x] /\ Reading
    BY <1>5, <1>9, <2>1 DEF RoleRequiresMFA
  <2>3. x \in Request /\ x.user = q.user /\ x.version = q.version
        /\ x.at = "insert" /\ x.level # "none"
    BY <1>1, <2>1 DEF Request, Steps, Levels
  <2>4. q.version = version[q.user] => ~MFAEnrolled(q.user)
    BY <1>1, <1>9 DEF ReqInv, RoleRequiresMFA, At
  <2> HIDE DEF x
  <2> QED
    BY <1>3, <1>4, <2>2, <2>3, <2>4, ReadingInv
<1>10. ASSUME TrustedDevice(p) PROVE IInv'
  <2>1. CASE r' = [r EXCEPT ![p].level = "full", ![p].second = TRUE, ![p].at = "insert"]
    <3> DEFINE x == [q EXCEPT !.level = "full", !.second = TRUE, !.at = "insert"]
    <3>1. r' = [r EXCEPT ![p] = x] /\ Reading
      BY <1>5, <1>10, <2>1 DEF TrustedDevice
    <3>2. x \in Request /\ x.user = q.user /\ x.version = q.version
          /\ x.at = "insert" /\ x.level = "full" /\ x.second
      BY <1>1 DEF Request, Steps, Levels
    <3> HIDE DEF x
    <3> QED
      BY <1>3, <1>4, <3>1, <3>2, ReadingInv
  <2>2. CASE r' = [r EXCEPT ![p].level = "mfa", ![p].at = "insert"]
    <3> DEFINE x == [q EXCEPT !.level = "mfa", !.at = "insert"]
    <3>1. r' = [r EXCEPT ![p] = x] /\ Reading
      BY <1>5, <1>10, <2>2 DEF TrustedDevice
    <3>2. x \in Request /\ x.user = q.user /\ x.version = q.version
          /\ x.at = "insert" /\ x.level = "mfa"
      BY <1>1 DEF Request, Steps, Levels
    <3> HIDE DEF x
    <3> QED
      BY <1>3, <1>4, <3>1, <3>2, ReadingInv
  <2> QED
    BY <1>10, <2>1, <2>2 DEF TrustedDevice
<1>11. ASSUME FinishPasskeyLogin(p) PROVE IInv'
  <2> DEFINE x == [q EXCEPT !.version = version[q.user], !.level = "full", !.second = TRUE,
                            !.at = "insert"]
  <2>1. r' = [r EXCEPT ![p] = x] /\ Reading
    BY <1>5, <1>11 DEF FinishPasskeyLogin
  <2>2. x \in Request /\ x.user = q.user /\ x.version = version[q.user]
        /\ x.at = "insert" /\ x.level = "full" /\ x.second
    BY <1>1, <1>4 DEF Request, Steps, Levels
  <2> HIDE DEF x
  <2>3. x.version <= version[x.user] /\ x.at \notin {"policy"} /\ r[p].user \in Users
    BY <1>3, <2>2, <1>13
  <2> QED
    BY <1>3, <2>1, <2>2, <2>3, ReadingInv
<1>12. ASSUME VerifyFactor(p) PROVE IInv'
  <2> DEFINE x == [q EXCEPT !.version = version[q.user], !.at = "upgrade"]
  <2>1. r' = [r EXCEPT ![p] = x] /\ Reading
    BY <1>5, <1>12 DEF VerifyFactor
  <2>2. x \in Request /\ x.user = q.user /\ x.version = version[q.user] /\ x.at = "upgrade"
    BY <1>1, <1>4 DEF Request, Steps
  <2> HIDE DEF x
  <2>3. x.version <= version[x.user] /\ x.at \notin {"policy"} /\ r[p].user \in Users
    BY <1>3, <2>2, <1>13
  <2> QED
    BY <1>3, <2>1, <2>2, <2>3, ReadingInv
<1> QED
  BY <1>6, <1>7, <1>8, <1>9, <1>10, <1>11, <1>12 DEF PasswordHashVersion, At

-----------------------------------------------------------------------------
(* A change of credentials of u that revokes: what it leaves of the rows.  *)
LEMMA RevokeRows ==
  ASSUME IInv, NEW u \in Users, NEW keep \in 0 .. MaxSessions, NEW second \in BOOLEAN,
         Revoke(u, keep, second),
         role'[u] \in Roles, \A v \in Users : v # u => role'[v] = role[v],
         \A v \in Users : v # u => (MFAEnrolled(v)' <=> MFAEnrolled(v)),
         MFAEnrolled(u)' => MFAEnrolled(u) \/ second
  PROVE  Rows' /\ Safe
<1>1. TypeOK /\ SessionsCurrent /\ FullIsEarned /\ Fresh
  BY DEF IInv, Rows
<1>2. /\ version'[u] = version[u] + 1
      /\ \A v \in Users : v # u => version'[v] = version[v]
      /\ \A v \in Users : version[v] <= version'[v]
      /\ sessions' \in SUBSET Session
      /\ \A s \in sessions' : s.version = version'[s.user]
      /\ \A s \in sessions' :
           \/ s.user # u /\ s \in sessions
           \/ /\ s.user = u /\ (second => s.second)
              /\ \E t \in sessions : t.user = u /\ s.level = t.level /\ (t.second => s.second)
  BY <1>1, RevokeKeeps
<1>3. SessionsCurrent'
  <2>1. ASSUME NEW s \in sessions' PROVE role'[s.user] \in Roles
    <3>1. CASE s.user # u
      <4>1. s \in sessions /\ s.user \in Users
        BY <1>1, <1>2, <3>1 DEF TypeOK, Session
      <4>2. role[s.user] \in Roles
        BY <1>1, <4>1 DEF SessionsCurrent, Exists
      <4> QED
        BY <3>1, <4>1, <4>2
    <3> QED
      BY <3>1
  <2> QED
    BY <1>2, <2>1 DEF SessionsCurrent, Exists
<1>4. FullIsEarned'
  <2>1. ASSUME NEW s \in sessions', s.level = "full", MFAEnrolled(s.user)' PROVE s.second
    <3>1. CASE s.user # u
      <4>1. s \in sessions /\ s.user \in Users
        BY <1>1, <1>2, <3>1 DEF TypeOK, Session
      <4>2. MFAEnrolled(s.user)
        BY <2>1, <3>1, <4>1
      <4> QED
        BY <1>1, <2>1, <4>1, <4>2 DEF FullIsEarned
    <3>2. CASE s.user = u
      <4>1. MFAEnrolled(u) \/ second
        BY <2>1, <3>2
      <4>2. PICK t \in sessions : t.user = u /\ s.level = t.level /\ (t.second => s.second)
        BY <1>2, <3>2
      <4>3. second => s.second
        BY <1>2, <3>2
      <4> QED
        BY <1>1, <2>1, <4>1, <4>2, <4>3 DEF FullIsEarned
    <3> QED
      BY <3>1, <3>2
  <2> QED
    BY <2>1 DEF FullIsEarned
<1>5. Fresh'
  BY <1>1 DEF Fresh, Roles
<1>6. Safe
  <2>1. version[u] \in Nat
    BY <1>1, AccountsAssumption DEF TypeOK
  <2> QED
    BY <1>2, <2>1 DEF Safe
<1> QED
  BY <1>3, <1>4, <1>5, <1>6 DEF Rows

(* The request behind a step, and the types its step relies on.            *)
LEMMA Acting ==
  ASSUME IInv, NEW p \in Procs, r[p].at # "idle"
  PROVE  /\ TypeOK /\ SessionsCurrent /\ FullIsEarned /\ Fresh
         /\ r[p] \in Request /\ ReqInv(p)
         /\ r[p].user \in Users /\ r[p].sid \in 0 .. MaxSessions
BY DEF IInv, Rows, ReqInv, Request, TypeOK

(* Every transaction that ends its request keeps the invariant if it keeps *)
(* the rows and is safe for the other requests.                            *)
LEMMA FinishInv ==
  ASSUME IInv, NEW p \in Procs, Finish(p), TypeOfDB', Rows', Safe
  PROVE  IInv'
<1>1. TypeOK
  BY DEF IInv
<1>2. Moves(p) /\ r'[p] = Idle
  BY <1>1, FinishMoves
<1>3. ReqInv(p)'
  BY <1>1, <1>2, IdleReqInv
<1> QED
  BY <1>2, <1>3, OthersKeep

(* The steps that change no column of users but role, and revoke nothing.  *)
LEMMA SafeStep ==
  ASSUME TypeOK, UNCHANGED <<version, totp, keys>>
  PROVE  Safe /\ \A u \in Users : MFAEnrolled(u)' <=> MFAEnrolled(u)
<1>1. \A u \in Users : version[u] <= version[u]
  BY AccountsAssumption DEF TypeOK
<1> QED
  BY <1>1 DEF Safe, MFAEnrolled

LEMMA CreateFirstAdminInv == ASSUME IInv, NEW p \in Procs, CreateFirstAdmin(p) PROVE IInv'
<1> DEFINE q == r[p]
           x == [q EXCEPT !.role = "admin", !.at = "policy"]
<1>1. /\ TypeOK /\ SessionsCurrent /\ FullIsEarned /\ Fresh
      /\ q \in Request /\ ReqInv(p) /\ q.user \in Users /\ role[q.user] = "absent"
  BY Acting DEF CreateFirstAdmin, At
<1>2. r' = [r EXCEPT ![p] = x]
  BY <1>1 DEF CreateFirstAdmin, TypeOK
<1>3. x \in Request /\ x.user = q.user /\ x.version = q.version /\ x.at = "policy"
  BY <1>1 DEF Request, Steps, Roles
<1> HIDE DEF x
<1>4. Moves(p) /\ r'[p] = x
  BY <1>1, <1>2, <1>3 DEF Moves, TypeOK, CreateFirstAdmin
<1>5. Safe /\ \A u \in Users : MFAEnrolled(u)' <=> MFAEnrolled(u)
  BY <1>1, SafeStep DEF CreateFirstAdmin
<1>6. TypeOfDB'
  BY <1>1 DEF CreateFirstAdmin, TypeOK, TypeOfDB, Roles
<1>7. Rows'
  <2>1. \A u \in Users : role[u] \in Roles => role'[u] \in Roles
    BY <1>1 DEF CreateFirstAdmin, TypeOK, Roles
  <2>2. SessionsCurrent' /\ FullIsEarned'
    BY <1>1, <1>5, <2>1 DEF SessionsCurrent, FullIsEarned, Exists, CreateFirstAdmin, TypeOK, Session
  <2>3. Fresh'
    BY <1>1, <1>5 DEF Fresh, CreateFirstAdmin, TypeOK
  <2> QED
    BY <2>2, <2>3 DEF Rows
<1>8. ReqInv(p)'
  BY <1>1, <1>3, <1>4, <1>5 DEF ReqInv, Fresh, CreateFirstAdmin
<1> QED
  BY <1>4, <1>5, <1>6, <1>7, <1>8, OthersKeep

LEMMA CreateUserSessionInv == ASSUME IInv, NEW p \in Procs, CreateUserSession(p) PROVE IInv'
<1> DEFINE q == r[p]
           new == [sid |-> issued + 1, user |-> q.user, level |-> q.level,
                   version |-> q.version, second |-> q.second]
<1>1. /\ TypeOK /\ SessionsCurrent /\ FullIsEarned /\ Fresh
      /\ q \in Request /\ ReqInv(p) /\ q.user \in Users /\ q.at = "insert"
  BY Acting DEF CreateUserSession, At
<1>2. issued + 1 \in 1 .. MaxSessions /\ issued' = issued + 1
  BY <1>1, AccountsAssumption DEF CreateUserSession, TypeOK
<1>3. new \in Session
  BY <1>1, <1>2 DEF Session, Request, ReqInv
<1>4. sessions' = sessions \cup {new} /\ UNCHANGED <<users, required, trusted>> /\ Finish(p)
  BY DEF CreateUserSession
<1>5. new.user = q.user /\ new.version = version[q.user] /\ Exists(q.user)
      /\ new.level = q.level /\ new.second = q.second
  BY DEF CreateUserSession
<1> HIDE DEF new
<1>6. TypeOfDB'
  BY <1>1, <1>2, <1>3, <1>4, AccountsAssumption DEF TypeOK, TypeOfDB, users
<1>7. Safe
  BY <1>1, <1>4, SafeStep DEF users
<1>8. SessionsCurrent'
  BY <1>1, <1>4, <1>5 DEF SessionsCurrent, Exists, users
<1>9. FullIsEarned'
  <2>1. new.level = "full" /\ MFAEnrolled(new.user) => new.second
    BY <1>1, <1>5 DEF ReqInv, CreateUserSession
  <2> QED
    BY <1>1, <1>4, <2>1 DEF FullIsEarned, MFAEnrolled, users
<1>10. Fresh'
  BY <1>1, <1>4 DEF Fresh, MFAEnrolled, users
<1> QED
  BY <1>4, <1>6, <1>7, <1>8, <1>9, <1>10, FinishInv DEF Rows

LEMMA UpgradeSessionInv == ASSUME IInv, NEW p \in Procs, UpgradeSession(p) PROVE IInv'
<1>1. /\ TypeOK /\ SessionsCurrent /\ FullIsEarned /\ Fresh
      /\ r[p] \in Request /\ ReqInv(p) /\ r[p].user \in Users
  BY Acting DEF UpgradeSession
<1>2. issued + 1 \in 1 .. MaxSessions /\ issued' = issued + 1 /\ UNCHANGED <<users, required, trusted>>
  BY <1>1, AccountsAssumption DEF UpgradeSession, TypeOK
<1>3. PICK s \in SessionsOf(r[p].user) :
        sessions' = (sessions \ {s}) \cup {[s EXCEPT !.sid = issued + 1, !.level = "full", !.second = TRUE]}
  BY DEF UpgradeSession
<1> DEFINE new == [s EXCEPT !.sid = issued + 1, !.level = "full", !.second = TRUE]
<1>4. s \in sessions /\ s \in Session
  BY <1>1, <1>3 DEF SessionsOf, TypeOK
<1>5. new \in Session /\ new.user = s.user /\ new.version = s.version /\ new.second
  BY <1>2, <1>4 DEF Session, Levels
<1>6. sessions' = (sessions \ {s}) \cup {new}
  BY <1>3
<1> HIDE DEF new
<1>7. TypeOfDB'
  BY <1>1, <1>2, <1>5, <1>6, AccountsAssumption DEF TypeOK, TypeOfDB, users
<1>8. Safe
  BY <1>1, <1>2, SafeStep DEF users
<1>9. Rows'
  <2>1. SessionsCurrent'
    BY <1>1, <1>2, <1>4, <1>5, <1>6 DEF SessionsCurrent, Exists, users
  <2>2. FullIsEarned'
    BY <1>1, <1>2, <1>5, <1>6 DEF FullIsEarned, MFAEnrolled, users
  <2>3. Fresh'
    BY <1>1, <1>2 DEF Fresh, MFAEnrolled, users
  <2> QED
    BY <2>1, <2>2, <2>3 DEF Rows
<1>10. CASE Finish(p)
  BY <1>7, <1>8, <1>9, <1>10, FinishInv
<1>11. CASE Goto(p, "remember") /\ UNCHANGED mfaMu
  <2>1. Moves(p) /\ r'[p] = [r[p] EXCEPT !.at = "remember"]
    BY <1>1, <1>11, GotoMoves DEF Steps
  <2>2. r'[p].at = "remember" /\ r'[p].user = r[p].user /\ r'[p].version = r[p].version
    BY <1>1, <2>1 DEF Request
  <2>3. ReqInv(p)'
    BY <1>1, <1>2, <2>2 DEF ReqInv, users
  <2> QED
    BY <1>7, <1>8, <1>9, <2>1, <2>3, OthersKeep
<1> QED
  BY <1>10, <1>11 DEF UpgradeSession

LEMMA AddTrustedDeviceInv == ASSUME IInv, NEW p \in Procs, AddTrustedDevice(p) PROVE IInv'
<1>1. /\ TypeOK /\ SessionsCurrent /\ FullIsEarned /\ Fresh
      /\ r[p] \in Request /\ r[p].user \in Users
  BY Acting DEF AddTrustedDevice, At
<1>2. TypeOfDB'
  BY <1>1 DEF AddTrustedDevice, TypeOK, TypeOfDB, Device, Request, users
<1>3. Safe
  BY <1>1, SafeStep DEF AddTrustedDevice, users
<1>4. Rows'
  BY <1>1 DEF Rows, SessionsCurrent, FullIsEarned, Fresh, MFAEnrolled, Exists, AddTrustedDevice, users
<1> QED
  BY <1>2, <1>3, <1>4, FinishInv DEF AddTrustedDevice

(* The only step that is nobody's request.                                 *)
LEMMA DeleteSessionInv == ASSUME IInv, NEW s \in sessions, DeleteSession(s) PROVE IInv'
<1>1. TypeOK'
  BY DEF IInv, TypeOK, DeleteSession, users
<1>2. Rows'
  BY DEF IInv, Rows, SessionsCurrent, FullIsEarned, Fresh, MFAEnrolled, Exists, DeleteSession, users
<1>3. \A p \in Procs : ReqInv(p)'
  BY DEF IInv, ReqInv, MFAEnrolled, DeleteSession, users
<1> QED
  BY <1>1, <1>2, <1>3 DEF IInv

-----------------------------------------------------------------------------
(* Transactions that revoke: the request is answered, or goes on to        *)
(* upgrade the session kept.                                               *)
LEMMA FinishEnrolInv ==
  ASSUME IInv, NEW p \in Procs, r[p].at # "idle", FinishEnrol(p), TypeOfDB', Rows', Safe
  PROVE  IInv'
<1>1. TypeOK /\ r[p] \in Request /\ ReqInv(p) /\ r[p].user \in Users
  BY Acting
<1>2. CASE Finish(p)
  BY <1>2, FinishInv
<1>3. CASE Goto(p, "upgrade") /\ UNCHANGED mfaMu
  <2>1. Moves(p) /\ r'[p] = [r[p] EXCEPT !.at = "upgrade"]
    BY <1>1, <1>3, GotoMoves DEF Steps
  <2>2. r'[p].at = "upgrade" /\ r'[p].user = r[p].user /\ r'[p].version = r[p].version
    BY <1>1, <2>1 DEF Request
  <2>3. /\ r[p].version \in Nat /\ version[r[p].user] \in Nat /\ version'[r[p].user] \in Nat
        /\ r[p].version <= version[r[p].user] /\ version[r[p].user] <= version'[r[p].user]
    BY <1>1, AccountsAssumption DEF Request, ReqInv, TypeOK, TypeOfDB, Safe
  <2>4. r[p].version <= version'[r[p].user]
    BY <2>3
  <2>5. ReqInv(p)'
    BY <1>1, <2>2, <2>4 DEF ReqInv
  <2> QED
    BY <2>1, <2>5, OthersKeep
<1> QED
  BY <1>2, <1>3 DEF FinishEnrol

(* What a transaction that revokes must show of its other writes.          *)
LEMMA RevokeInv ==
  ASSUME IInv, NEW p \in Procs, r[p].at # "idle", FinishEnrol(p) \/ Finish(p),
         NEW u \in Users, u = r[p].user,
         NEW keep \in 0 .. MaxSessions, NEW second \in BOOLEAN, Revoke(u, keep, second),
         role' \in [Users -> Roles \cup {"absent", "deleted"}],
         hash' \in [Users -> 0 .. MaxVersion],
         totp' \in [Users -> {"none", "pending", "confirmed"}],
         keys' \in [Users -> 0 .. MaxKeys],
         UNCHANGED <<required, issued>>,
         role'[u] \in Roles, \A v \in Users : v # u => role'[v] = role[v],
         \A v \in Users : v # u => totp'[v] = totp[v] /\ keys'[v] = keys[v],
         MFAEnrolled(u)' => MFAEnrolled(u) \/ second
  PROVE  IInv'
<1>1. TypeOK /\ SessionsCurrent
  BY Acting
<1>2. \A v \in Users : v # u => (MFAEnrolled(v)' <=> MFAEnrolled(v))
  BY DEF MFAEnrolled
<1>3. Rows' /\ Safe
  BY <1>2, RevokeRows
<1>4. version' \in [Users -> 0 .. MaxVersion] /\ sessions' \in SUBSET Session /\ trusted' \in SUBSET Device
  BY <1>1, RevokeKeeps
<1>5. TypeOfDB'
  BY <1>1, <1>4 DEF TypeOK, TypeOfDB
<1> QED
  BY <1>3, <1>5, FinishEnrolInv, FinishInv

(* Every handler of Manage keeps the invariant.                            *)
LEMMA SetPendingTOTPInv == ASSUME IInv, NEW p \in Procs, SetPendingTOTP(p) PROVE IInv'
<1>1. TypeOK /\ SessionsCurrent /\ FullIsEarned /\ Fresh /\ r[p].user \in Users
  BY Acting DEF SetPendingTOTP, At
<1>2. totp' = [totp EXCEPT ![r[p].user] = "pending"]
      /\ UNCHANGED <<role, hash, version, keys, required, sessions, issued, trusted>>
  BY DEF SetPendingTOTP
<1>3. TypeOfDB'
  BY <1>1, <1>2 DEF TypeOK, TypeOfDB
<1>4. \A u \in Users : MFAEnrolled(u)' => MFAEnrolled(u)
  BY <1>1, <1>2 DEF MFAEnrolled, TypeOK
<1>5. \A u \in Users : version[u] <= version[u]
  BY <1>1, AccountsAssumption DEF TypeOK
<1>6. Safe
  BY <1>2, <1>4, <1>5 DEF Safe
<1>7. SessionsCurrent' /\ Fresh'
  BY <1>1, <1>2, <1>4 DEF SessionsCurrent, Fresh, Exists
<1>8. FullIsEarned'
  <2>1. \A s \in sessions : s.user \in Users
    BY <1>1 DEF TypeOK, Session
  <2> QED
    BY <1>1, <1>2, <1>4, <2>1 DEF FullIsEarned
<1> QED
  BY <1>3, <1>6, <1>7, <1>8, FinishInv DEF Rows, SetPendingTOTP

LEMMA ConfirmTOTPInv == ASSUME IInv, NEW p \in Procs, ConfirmTOTP(p) PROVE IInv'
<1>1. TypeOK /\ r[p].user \in Users /\ r[p].sid \in 0 .. MaxSessions /\ r[p].at # "idle"
  BY Acting DEF ConfirmTOTP, At
<1> PICK u \in Users : u = r[p].user
  BY <1>1
<1>2. /\ totp' = [totp EXCEPT ![u] = "confirmed"] /\ role[u] \in Roles
      /\ UNCHANGED <<role, hash, keys, required, issued>>
      /\ Revoke(u, r[p].sid, TRUE) /\ FinishEnrol(p)
  BY DEF ConfirmTOTP, Exists
<1>3. totp' \in [Users -> {"none", "pending", "confirmed"}]
  BY <1>1, <1>2 DEF TypeOK
<1>4. \A v \in Users : v # u => totp'[v] = totp[v] /\ keys'[v] = keys[v]
  BY <1>1, <1>2 DEF TypeOK
<1>5. role' \in [Users -> Roles \cup {"absent", "deleted"}] /\ hash' \in [Users -> 0 .. MaxVersion]
      /\ keys' \in [Users -> 0 .. MaxKeys]
  BY <1>1, <1>2 DEF TypeOK
<1>6. role'[u] \in Roles /\ \A v \in Users : v # u => role'[v] = role[v]
  BY <1>2
<1>7. UNCHANGED <<required, issued>> /\ Revoke(u, r[p].sid, TRUE) /\ FinishEnrol(p)
  BY <1>2
<1> QED
  BY <1>1, <1>3, <1>4, <1>5, <1>6, <1>7, RevokeInv

LEMMA AddCredentialInv == ASSUME IInv, NEW p \in Procs, AddCredential(p) PROVE IInv'
<1>1. TypeOK /\ r[p].user \in Users /\ r[p].sid \in 0 .. MaxSessions /\ r[p].at # "idle"
  BY Acting DEF AddCredential, At
<1> PICK u \in Users : u = r[p].user
  BY <1>1
<1>2. /\ keys' = [keys EXCEPT ![u] = keys[u] + 1] /\ role[u] \in Roles
      /\ keys[u] < MaxKeys
      /\ UNCHANGED <<role, hash, totp, required, issued>>
      /\ Revoke(u, r[p].sid, TRUE) /\ FinishEnrol(p)
  BY DEF AddCredential, Exists
<1>3. keys' \in [Users -> 0 .. MaxKeys]
  <2>1. keys[u] + 1 \in 0 .. MaxKeys
    BY <1>1, <1>2, AccountsAssumption DEF TypeOK
  <2> QED
    BY <1>1, <1>2, <2>1 DEF TypeOK
<1>4. \A v \in Users : v # u => totp'[v] = totp[v] /\ keys'[v] = keys[v]
  BY <1>1, <1>2 DEF TypeOK
<1>5. role' \in [Users -> Roles \cup {"absent", "deleted"}] /\ hash' \in [Users -> 0 .. MaxVersion]
      /\ totp' \in [Users -> {"none", "pending", "confirmed"}]
  BY <1>1, <1>2 DEF TypeOK
<1> QED
  BY <1>1, <1>2, <1>3, <1>4, <1>5, RevokeInv

LEMMA RemoveFactorInv == ASSUME IInv, NEW p \in Procs, RemoveFactor(p) PROVE IInv'
<1>1. TypeOK /\ r[p].user \in Users /\ r[p].sid \in 0 .. MaxSessions /\ r[p].at # "idle"
  BY Acting DEF RemoveFactor, At
<1> PICK u \in Users : u = r[p].user
  BY <1>1
<1>2. /\ role[u] \in Roles
      /\ UNCHANGED <<role, hash, required, issued>>
      /\ Revoke(u, r[p].sid, FALSE) /\ Finish(p)
  BY DEF RemoveFactor, Exists
<1>3. role' \in [Users -> Roles \cup {"absent", "deleted"}] /\ hash' \in [Users -> 0 .. MaxVersion]
  BY <1>1, <1>2 DEF TypeOK
<1>4. /\ totp' \in [Users -> {"none", "pending", "confirmed"}] /\ keys' \in [Users -> 0 .. MaxKeys]
      /\ \A v \in Users : v # u => totp'[v] = totp[v] /\ keys'[v] = keys[v]
      /\ MFAEnrolled(u)' => MFAEnrolled(u)
  <2>1. CASE totp' = [totp EXCEPT ![u] = "none"] /\ UNCHANGED keys
    BY <1>1, <2>1 DEF TypeOK, MFAEnrolled
  <2>2. CASE /\ keys[u] > 0 /\ keys' = [keys EXCEPT ![u] = keys[u] - 1]
             /\ UNCHANGED totp
    <3>1. keys[u] - 1 \in 0 .. MaxKeys
      BY <1>1, <2>2, AccountsAssumption DEF TypeOK
    <3> QED
      BY <1>1, <2>2, <3>1 DEF TypeOK, MFAEnrolled
  <2> QED
    BY <2>1, <2>2 DEF RemoveFactor
<1> QED
  BY <1>1, <1>2, <1>3, <1>4, RevokeInv

LEMMA SetHashType ==
  ASSUME TypeOK, NEW u \in Users, SetHash(u), version[u] < MaxVersion
  PROVE  hash' \in [Users -> 0 .. MaxVersion]
<1>1. version[u] + 1 \in 0 .. MaxVersion
  BY AccountsAssumption DEF TypeOK
<1> QED
  BY <1>1 DEF TypeOK, SetHash

LEMMA ChangePasswordInv == ASSUME IInv, NEW p \in Procs, ChangePassword(p) PROVE IInv'
<1>1. TypeOK /\ r[p].user \in Users /\ r[p].sid \in 0 .. MaxSessions /\ r[p].at # "idle"
  BY Acting DEF ChangePassword, At
<1> PICK u \in Users : u = r[p].user
  BY <1>1
<1>2. /\ role[u] \in Roles /\ SetHash(u)
      /\ UNCHANGED <<role, totp, keys, required, issued>>
      /\ Revoke(u, r[p].sid, FALSE) /\ Finish(p)
  BY DEF ChangePassword, Exists
<1>3. hash' \in [Users -> 0 .. MaxVersion]
  BY <1>1, <1>2, SetHashType DEF Revoke
<1>4. /\ totp' \in [Users -> {"none", "pending", "confirmed"}] /\ keys' \in [Users -> 0 .. MaxKeys]
      /\ role' \in [Users -> Roles \cup {"absent", "deleted"}]
      /\ MFAEnrolled(u)' => MFAEnrolled(u)
  BY <1>1, <1>2 DEF TypeOK, MFAEnrolled
<1> QED
  BY <1>1, <1>2, <1>3, <1>4, RevokeInv

-----------------------------------------------------------------------------
(* Administration.                                                         *)
LEMMA CreateUserInv ==
  ASSUME IInv, NEW p \in Procs, NEW asRole \in Roles, CreateUser(p, asRole)
  PROVE  IInv'
<1>1. TypeOK /\ SessionsCurrent /\ FullIsEarned /\ Fresh /\ r[p].user \in Users
  BY Acting DEF CreateUser, At
<1>2. role[r[p].user] = "absent" /\ role' = [role EXCEPT ![r[p].user] = asRole]
      /\ UNCHANGED <<hash, version, totp, keys, required, sessions, issued, trusted>>
  BY DEF CreateUser
<1>3. TypeOfDB'
  BY <1>1, <1>2 DEF TypeOK, TypeOfDB
<1>4. Safe /\ \A u \in Users : MFAEnrolled(u)' <=> MFAEnrolled(u)
  BY <1>1, <1>2, SafeStep
<1>5. \A u \in Users : role[u] \in Roles => role'[u] \in Roles
  BY <1>1, <1>2 DEF TypeOK
<1>6. \A s \in sessions : s.user \in Users
  BY <1>1 DEF TypeOK, Session
<1>7. SessionsCurrent' /\ FullIsEarned'
  BY <1>1, <1>2, <1>4, <1>5, <1>6 DEF SessionsCurrent, FullIsEarned, Exists
<1>8. Fresh'
  BY <1>1, <1>2, <1>4 DEF Fresh, TypeOK, Roles
<1> QED
  BY <1>3, <1>4, <1>7, <1>8, FinishInv DEF Rows, CreateUser

LEMMA ChangeAccountInv ==
  ASSUME IInv, NEW p \in Procs, NEW asRole \in Roles, NEW reset \in BOOLEAN,
         ChangeAccount(p, asRole, reset)
  PROVE  IInv'
<1>1. TypeOK /\ SessionsCurrent /\ FullIsEarned /\ Fresh /\ r[p].user \in Users /\ r[p].at # "idle"
  BY Acting DEF ChangeAccount, At
<1> PICK u \in Users : u = r[p].user
  BY <1>1
<1>2. role[u] \in Roles /\ role' = [role EXCEPT ![u] = asRole] /\ Finish(p)
      /\ UNCHANGED <<totp, keys, required, issued>>
  BY DEF ChangeAccount, ChangeRole, Exists
<1>3. role' \in [Users -> Roles \cup {"absent", "deleted"}] /\ role'[u] \in Roles
      /\ \A v \in Users : v # u => role'[v] = role[v]
  BY <1>1, <1>2 DEF TypeOK
<1>4. CASE SetHash(u) /\ Revoke(u, 0, FALSE)
  <2>1. hash' \in [Users -> 0 .. MaxVersion]
    BY <1>1, <1>4, SetHashType DEF Revoke
  <2>2. /\ totp' \in [Users -> {"none", "pending", "confirmed"}] /\ keys' \in [Users -> 0 .. MaxKeys]
        /\ \A v \in Users : v # u => totp'[v] = totp[v] /\ keys'[v] = keys[v]
        /\ MFAEnrolled(u)' => MFAEnrolled(u)
    BY <1>1, <1>2 DEF TypeOK, MFAEnrolled
  <2>3. 0 \in 0 .. MaxSessions /\ UNCHANGED <<required, issued>> /\ Finish(p)
    BY <1>2, AccountsAssumption
  <2> QED
    BY <1>1, <1>3, <1>4, <2>1, <2>2, <2>3, RevokeInv
<1>5. CASE UNCHANGED <<hash, version, sessions, trusted>>
  <2>1. TypeOfDB'
    BY <1>1, <1>2, <1>3, <1>5 DEF TypeOK, TypeOfDB
  <2>2. Safe /\ \A v \in Users : MFAEnrolled(v)' <=> MFAEnrolled(v)
    BY <1>1, <1>2, <1>5, SafeStep
  <2>3. \A s \in sessions : s.user \in Users
    BY <1>1 DEF TypeOK, Session
  <2>4. \A v \in Users : role[v] \in Roles => role'[v] \in Roles
    BY <1>3
  <2>5. SessionsCurrent' /\ FullIsEarned'
    BY <1>1, <1>5, <2>2, <2>3, <2>4 DEF SessionsCurrent, FullIsEarned, Exists
  <2>6. Fresh'
    BY <1>1, <1>3, <2>2 DEF Fresh, Roles
  <2> QED
    BY <1>2, <2>1, <2>2, <2>5, <2>6, FinishInv DEF Rows
<1> QED
  BY <1>4, <1>5 DEF ChangeAccount

LEMMA DeleteUserInv == ASSUME IInv, NEW p \in Procs, DeleteUser(p) PROVE IInv'
<1>1. TypeOK /\ SessionsCurrent /\ FullIsEarned /\ Fresh /\ r[p].user \in Users
  BY Acting DEF DeleteUser, At
<1> PICK u \in Users : u = r[p].user
  BY <1>1
<1>2. /\ role' = [role EXCEPT ![u] = "deleted"] /\ totp' = [totp EXCEPT ![u] = "none"]
      /\ keys' = [keys EXCEPT ![u] = 0]
      /\ sessions' = sessions \ SessionsOf(u) /\ trusted' = {d \in trusted : d.user # u}
      /\ Finish(p) /\ UNCHANGED <<hash, version, required, issued>>
  BY DEF DeleteUser
<1>3. TypeOfDB'
  BY <1>1, <1>2, AccountsAssumption DEF TypeOK, TypeOfDB
<1>4. /\ \A v \in Users : MFAEnrolled(v)' => MFAEnrolled(v)
      /\ \A v \in Users : v # u => role'[v] = role[v]
      /\ role'[u] = "deleted"
  BY <1>1, <1>2 DEF TypeOK, MFAEnrolled
<1>5. \A v \in Users : version[v] <= version[v]
  BY <1>1, AccountsAssumption DEF TypeOK
<1>6. Safe
  BY <1>2, <1>4, <1>5 DEF Safe
<1>7. \A s \in sessions' : s \in sessions /\ s.user \in Users /\ s.user # u
  BY <1>1, <1>2 DEF TypeOK, Session, SessionsOf
<1>8. SessionsCurrent' /\ FullIsEarned'
  BY <1>1, <1>2, <1>4, <1>7 DEF SessionsCurrent, FullIsEarned, Exists
<1>9. Fresh'
  BY <1>1, <1>4 DEF Fresh
<1> QED
  BY <1>2, <1>3, <1>6, <1>8, <1>9, FinishInv DEF Rows

LEMMA ClearMFAInv == ASSUME IInv, NEW p \in Procs, ClearMFA(p) PROVE IInv'
<1>1. TypeOK /\ r[p].user \in Users /\ r[p].at # "idle"
  BY Acting DEF ClearMFA, At
<1> PICK u \in Users : u = r[p].user
  BY <1>1
<1>2. /\ totp' = [totp EXCEPT ![u] = "none"] /\ keys' = [keys EXCEPT ![u] = 0]
      /\ role[u] \in Roles /\ Revoke(u, 0, FALSE) /\ Finish(p)
      /\ UNCHANGED <<role, hash, required, issued>>
  BY DEF ClearMFA, Exists
<1>3. /\ totp' \in [Users -> {"none", "pending", "confirmed"}] /\ keys' \in [Users -> 0 .. MaxKeys]
      /\ \A v \in Users : v # u => totp'[v] = totp[v] /\ keys'[v] = keys[v]
      /\ MFAEnrolled(u)' => MFAEnrolled(u)
  BY <1>1, <1>2, AccountsAssumption DEF TypeOK, MFAEnrolled
<1>4. role' \in [Users -> Roles \cup {"absent", "deleted"}] /\ hash' \in [Users -> 0 .. MaxVersion]
  BY <1>1, <1>2 DEF TypeOK
<1>5. role'[u] \in Roles /\ \A v \in Users : v # u => role'[v] = role[v]
  BY <1>2
<1>6. UNCHANGED <<required, issued>> /\ Revoke(u, 0, FALSE) /\ Finish(p)
  BY <1>2
<1>7. 0 \in 0 .. MaxSessions
  BY AccountsAssumption
<1> QED
  BY <1>1, <1>3, <1>4, <1>5, <1>6, <1>7, RevokeInv

LEMMA SetMFAPolicyInv ==
  ASSUME IInv, NEW p \in Procs, NEW roles \in SUBSET Roles, SetMFAPolicy(p, roles)
  PROVE  IInv'
<1> DEFINE failing == {u \in Users : role[u] \in roles /\ ~MFAEnrolled(u)}
<1>1. TypeOK /\ SessionsCurrent /\ FullIsEarned /\ Fresh
  BY Acting DEF SetMFAPolicy, At
<1>2. /\ required' = roles
      /\ \A u \in failing : version[u] < MaxVersion
      /\ version' = [u \in Users |-> IF u \in failing THEN version[u] + 1 ELSE version[u]]
      /\ sessions' = {s \in sessions : s.user \notin failing}
      /\ trusted' = {d \in trusted : d.user \notin failing}
      /\ Finish(p) /\ UNCHANGED <<role, hash, totp, keys, issued>>
  BY DEF SetMFAPolicy
<1> HIDE DEF failing
<1>3. \A u \in Users : version[u] \in 0 .. MaxVersion /\ version'[u] \in 0 .. MaxVersion
                         /\ version[u] <= version'[u] /\ (u \notin failing => version'[u] = version[u])
  BY <1>1, <1>2, AccountsAssumption DEF TypeOK
<1>4. version' \in [Users -> 0 .. MaxVersion]
  BY <1>2, <1>3
<1>5. TypeOfDB'
  BY <1>1, <1>2, <1>4 DEF TypeOK, TypeOfDB
<1>6. \A u \in Users : MFAEnrolled(u)' <=> MFAEnrolled(u)
  BY <1>2 DEF MFAEnrolled
<1>7. Safe
  BY <1>3, <1>6 DEF Safe
<1>8. \A s \in sessions' : s \in sessions /\ s.user \in Users /\ s.user \notin failing
  BY <1>1, <1>2 DEF TypeOK, Session
<1>9. SessionsCurrent' /\ FullIsEarned'
  BY <1>1, <1>2, <1>3, <1>6, <1>8 DEF SessionsCurrent, FullIsEarned, Exists
<1>10. Fresh'
  BY <1>1, <1>2, <1>6 DEF Fresh
<1> QED
  BY <1>2, <1>5, <1>7, <1>9, <1>10, FinishInv DEF Rows

-----------------------------------------------------------------------------
(* Every step keeps the inductive invariant.                               *)
LEMMA NextInv == ASSUME IInv, [Next]_vars PROVE IInv'
<1>1. CASE UNCHANGED vars
  <2>1. UNCHANGED <<users, required, sessions, issued, trusted, mfaMu, r>>
    BY <1>1 DEF vars
  <2> QED
    BY <2>1 DEF users, IInv, TypeOK, Rows, SessionsCurrent, FullIsEarned, Fresh, MFAEnrolled, Exists, ReqInv
<1>2. ASSUME NEW s \in sessions, DeleteSession(s) PROVE IInv'
  BY <1>2, DeleteSessionInv
<1>3. ASSUME NEW p \in Procs, Arrive(p) \/ LockMFA(p) \/ GiveUp(p) PROVE IInv'
  BY <1>3, ArriveInv, LockInv, GiveUpInv
<1>4. ASSUME NEW p \in Procs, SignIn(p) PROVE IInv'
  BY <1>4, SignInReadsInv, CreateFirstAdminInv, CreateUserSessionInv, UpgradeSessionInv,
     AddTrustedDeviceInv DEF SignIn
<1>5. ASSUME NEW p \in Procs, Manage(p) PROVE IInv'
  BY <1>5, CanEnrolInv, SetPendingTOTPInv, ConfirmTOTPInv, AddCredentialInv, RemoveFactorInv,
     ChangePasswordInv DEF Manage
<1>6. ASSUME NEW p \in Procs, Administer(p) PROVE IInv'
  BY <1>6, CreateUserInv, ChangeAccountInv, DeleteUserInv, ClearMFAInv, SetMFAPolicyInv DEF Administer
<1> QED
  BY <1>1, <1>2, <1>3, <1>4, <1>5, <1>6 DEF Next

LEMMA Inductive == Spec => []IInv
<1>1. IInv /\ [Next]_vars => IInv'
  BY NextInv
<1> QED
  BY <1>1, InitInv, PTL DEF Spec

(* Types, for any number of users, goroutines and sessions.                *)
THEOREM TypeCorrect == Spec => []TypeOK
<1>1. IInv => TypeOK
  BY DEF IInv
<1> QED
  BY <1>1, Inductive, PTL

(* Every session row rests on the credentials its user has now: a reset, a *)
(* factor change or a policy change leaves no session of before, and no    *)
(* login that was under way can add one, in any interleaving.              *)
THEOREM SessionsAlwaysCurrent == Spec => []SessionsCurrent
<1>1. IInv => SessionsCurrent
  BY DEF IInv, Rows
<1> QED
  BY <1>1, Inductive, PTL

(* A full session of a user with a second factor has presented one.        *)
THEOREM FullAlwaysEarned == Spec => []FullIsEarned
<1>1. IInv => FullIsEarned
  BY DEF IInv, Rows
<1> QED
  BY <1>1, Inductive, PTL

-----------------------------------------------------------------------------
(* Properties of single steps. Which steps write role, and which write a   *)
(* password hash.                                                          *)
LEMMA RoleWriters ==
  ASSUME [Next]_vars, role' # role
  PROVE  \E p \in Procs :
           \/ CreateFirstAdmin(p)
           \/ \E asRole \in Roles : CreateUser(p, asRole)
           \/ \E asRole \in Roles, reset \in BOOLEAN : ChangeAccount(p, asRole, reset)
           \/ DeleteUser(p)
<1>1. ~UNCHANGED vars
  BY DEF vars, users
<1>2. \A s \in sessions : ~DeleteSession(s)
  BY DEF DeleteSession, users
<1>3. ASSUME NEW p \in Procs PROVE ~Arrive(p) /\ ~LockMFA(p) /\ ~GiveUp(p)
  BY DEF Arrive, BeginLogin, BeginPasskey, BeginSetup, BeginVerify, BeginEnrol, BeginProfile,
         BeginAdmin, Begin, LockMFA, GiveUp, users
<1>4. ASSUME NEW p \in Procs PROVE SignIn(p) => CreateFirstAdmin(p)
  BY DEF SignIn, PasswordHashVersion, GetUser, RoleRequiresMFA, TrustedDevice, FinishPasskeyLogin,
         CreateUserSession, VerifyFactor, UpgradeSession, AddTrustedDevice, Reading, users
<1>5. ASSUME NEW p \in Procs PROVE ~Manage(p)
  BY DEF Manage, CanEnrol, SetPendingTOTP, ConfirmTOTP, AddCredential, RemoveFactor,
         ChangePassword, Reading, users
<1>6. ASSUME NEW p \in Procs, NEW roles \in SUBSET Roles PROVE ~ClearMFA(p) /\ ~SetMFAPolicy(p, roles)
  BY DEF ClearMFA, SetMFAPolicy
<1> QED
  BY <1>1, <1>2, <1>3, <1>4, <1>5, <1>6 DEF Next, Administer

LEMMA HashWriters ==
  ASSUME [Next]_vars, hash' # hash
  PROVE  \E p \in Procs :
           \/ ChangePassword(p)
           \/ \E asRole \in Roles, reset \in BOOLEAN : ChangeAccount(p, asRole, reset)
<1>1. ~UNCHANGED vars
  BY DEF vars, users
<1>2. \A s \in sessions : ~DeleteSession(s)
  BY DEF DeleteSession, users
<1>3. ASSUME NEW p \in Procs PROVE ~Arrive(p) /\ ~LockMFA(p) /\ ~GiveUp(p)
  BY DEF Arrive, BeginLogin, BeginPasskey, BeginSetup, BeginVerify, BeginEnrol, BeginProfile,
         BeginAdmin, Begin, LockMFA, GiveUp, users
<1>4. ASSUME NEW p \in Procs PROVE ~SignIn(p)
  BY DEF SignIn, PasswordHashVersion, GetUser, RoleRequiresMFA, TrustedDevice, FinishPasskeyLogin,
         CreateFirstAdmin, CreateUserSession, VerifyFactor, UpgradeSession, AddTrustedDevice, Reading, users
<1>5. ASSUME NEW p \in Procs PROVE Manage(p) => ChangePassword(p)
  BY DEF Manage, CanEnrol, SetPendingTOTP, ConfirmTOTP, AddCredential, RemoveFactor, Reading, users
<1>6. ASSUME NEW p \in Procs, Administer(p)
      PROVE  \E asRole \in Roles, reset \in BOOLEAN : ChangeAccount(p, asRole, reset)
  BY <1>6 DEF Administer, ClearMFA, SetMFAPolicy, DeleteUser, CreateUser
<1> QED
  BY <1>1, <1>2, <1>3, <1>4, <1>5, <1>6 DEF Next

(* Somebody else is an admin whenever u may stop being one.                *)
LEMMA AnotherAdmin ==
  ASSUME NEW u \in Users, NotLastAdmin(u), Admins # {}
  PROVE  \E v \in Admins : v # u
<1> SUFFICES ASSUME \A v \in Admins : v = u PROVE FALSE
  OBVIOUS
<1>1. Admins = {u}
  OBVIOUS
<1>2. Cardinality(Admins) = 1
  BY <1>1, FS_Singleton
<1>3. role[u] = "admin"
  BY <1>1 DEF Admins
<1> QED
  BY <1>2, <1>3 DEF NotLastAdmin

(* "The last admin cannot be demoted or deleted", by whatever requests     *)
(* overlap.                                                                *)
THEOREM LastAdminAlwaysKept == Spec => LastAdminKept
<1>1. ASSUME TypeOK, [Next]_vars, Admins # {} PROVE Admins' # {}
  <2>1. role \in [Users -> Roles \cup {"absent", "deleted"}]
    BY <1>1 DEF TypeOK
  <2>2. CASE role' = role
    BY <1>1, <2>2 DEF Admins
  <2>3. ASSUME NEW p \in Procs, CreateFirstAdmin(p) PROVE Admins' # {}
    BY <1>1, <2>3 DEF CreateFirstAdmin
  <2>4. ASSUME NEW u, NEW new, role' = [role EXCEPT ![u] = new],
               \E v \in Admins : v # u
        PROVE  Admins' # {}
    BY <2>1, <2>4 DEF Admins
  <2>5. ASSUME NEW p \in Procs, NEW asRole \in Roles, CreateUser(p, asRole) PROVE Admins' # {}
    <3>1. \E v \in Admins : v # r[p].user
      BY <1>1, <2>5 DEF CreateUser, Admins
    <3> QED
      BY <2>4, <2>5, <3>1 DEF CreateUser
  <2>6. ASSUME NEW p \in Procs, NEW asRole \in Roles, NEW reset \in BOOLEAN,
               ChangeAccount(p, asRole, reset), role' # role
        PROVE  Admins' # {}
    <3> DEFINE u == r[p].user
    <3>1. Exists(u) /\ (role[u] = asRole \/ NotLastAdmin(u)) /\ role' = [role EXCEPT ![u] = asRole]
      BY <2>6 DEF ChangeAccount, ChangeRole
    <3>2. CASE u \notin Users
      BY <2>1, <2>6, <3>1, <3>2
    <3>3. CASE role[u] = asRole
      BY <2>1, <2>6, <3>1, <3>3
    <3>4. CASE u \in Users /\ NotLastAdmin(u)
      <4>1. \E v \in Admins : v # u
        BY <1>1, <3>4, AnotherAdmin
      <4> QED
        BY <2>4, <3>1, <4>1
    <3> QED
      BY <3>1, <3>2, <3>3, <3>4
  <2>7. ASSUME NEW p \in Procs, DeleteUser(p), role' # role PROVE Admins' # {}
    <3> DEFINE u == r[p].user
    <3>1. NotLastAdmin(u) /\ role' = [role EXCEPT ![u] = "deleted"]
      BY <2>7 DEF DeleteUser
    <3>2. CASE u \notin Users
      BY <2>1, <2>7, <3>1, <3>2
    <3>3. CASE u \in Users
      BY <1>1, <2>4, <3>1, <3>3, AnotherAdmin
    <3> QED
      BY <3>2, <3>3
  <2> QED
    BY <1>1, <2>2, <2>3, <2>5, <2>6, <2>7, RoleWriters
<1>2. TypeOK /\ [Next]_vars => [Admins # {} => Admins' # {}]_vars
  BY <1>1
<1> QED
  BY <1>2, TypeCorrect, PTL DEF Spec, LastAdminKept

(* A password changes by its own user only over the password that was      *)
(* verified: of two overlapping changes the second one fails.              *)
THEOREM PasswordChangesOverVerified == Spec => PasswordChangeOverVerified
<1>1. ASSUME TypeOK, [Next]_vars, NEW p \in Procs,
             r'[p] # r[p], r[p].op = "password", hash' # hash
      PROVE  hash[r[p].user] = r[p].hash
  <2>1. ASSUME NEW q \in Procs, Finish(q) PROVE q = p
    BY <1>1, <2>1, FinishMoves DEF Moves
  <2>2. CASE \E q \in Procs : ChangePassword(q)
    BY <2>1, <2>2 DEF ChangePassword
  <2>3. ASSUME NEW q \in Procs, NEW asRole \in Roles, NEW reset \in BOOLEAN,
               ChangeAccount(q, asRole, reset)
        PROVE  FALSE
    BY <1>1, <2>1, <2>3 DEF ChangeAccount, At
  <2> QED
    BY <1>1, <2>2, <2>3, HashWriters
<1>2. TypeOK /\ [Next]_vars =>
        [\A p \in Procs :
           r'[p] # r[p] /\ r[p].op = "password" /\ hash' # hash
             => hash[r[p].user] = r[p].hash]_vars
  BY <1>1
<1> QED
  BY <1>2, TypeCorrect, PTL DEF Spec, PasswordChangeOverVerified

(* The setup page adds an admin only while there is none.                  *)
THEOREM SetupAddsOnlyFirstAdmin == Spec => SetupOnlyFirstAdmin
<1>1. ASSUME TypeOK, [Next]_vars, NEW p \in Procs,
             At(p, {"setup"}, "write"), r'[p] # r[p], role' # role
      PROVE  Admins = {}
  <2>1. ASSUME NEW q \in Procs, Finish(q) PROVE q = p
    BY <1>1, <2>1, FinishMoves DEF Moves
  <2>2. ASSUME NEW q \in Procs,
               \/ \E asRole \in Roles : CreateUser(q, asRole)
               \/ \E asRole \in Roles, reset \in BOOLEAN : ChangeAccount(q, asRole, reset)
               \/ DeleteUser(q)
        PROVE  FALSE
    BY <1>1, <2>1, <2>2 DEF CreateUser, ChangeAccount, DeleteUser, At
  <2> QED
    BY <1>1, <2>2, RoleWriters DEF CreateFirstAdmin
<1>2. TypeOK /\ [Next]_vars =>
        [\A p \in Procs : At(p, {"setup"}, "write") /\ r'[p] # r[p] /\ role' # role
           => Admins = {}]_vars
  BY <1>1
<1> QED
  BY <1>2, TypeCorrect, PTL DEF Spec, SetupOnlyFirstAdmin

-----------------------------------------------------------------------------
(* Factors of a user who has one. An enrolment past its lock holds mfaMu,   *)
(* and one that is about to write for an enroll session found no factor;    *)
(* only an enrolment gives a user one, so this is still so when it writes.  *)
Enrolling(p) == r[p].op \in Enrol /\ r[p].at \notin {"idle", "lock"}

HolderInv == \A p \in Procs : Enrolling(p) => mfaMu = p

NoFactorInv ==
  \A p \in Procs :
    r[p].op \in Enrol /\ r[p].at = "write" /\ r[p].level = "enroll" => ~MFAEnrolled(r[p].user)

(* An answered request frees mfaMu only when it held it.                    *)
LEMMA FinishHolder ==
  ASSUME TypeOK, HolderInv, NEW p \in Procs, Finish(p)
  PROVE  HolderInv'
<1>1. Moves(p) /\ r'[p] = Idle
  BY FinishMoves
<1>2. ASSUME NEW q \in Procs, Enrolling(q)' PROVE mfaMu' = q
  <2>1. q # p
    BY <1>1, <1>2 DEF Enrolling, Idle, NewRequest
  <2>2. mfaMu = q
    BY <1>1, <1>2, <2>1 DEF Moves, Enrolling, HolderInv
  <2> QED BY <2>1, <2>2 DEF Finish
<1> QED BY <1>2 DEF HolderInv

(* A request that goes on without mfaMu changing hands.                     *)
LEMMA GoesOnHolder ==
  ASSUME TypeOK, HolderInv, NEW p \in Procs, UNCHANGED mfaMu,
         \A q \in Procs : q # p => r'[q] = r[q],
         Enrolling(p)' => Enrolling(p)
  PROVE  HolderInv'
BY DEF HolderInv, Enrolling

(* A sign-in that is not answered goes on as what it is; only an answered   *)
(* one upgrades the session of an enrolment.                                *)
LEMMA SignInMoves ==
  ASSUME r \in [Procs -> Request], NEW p \in Procs, SignIn(p), ~Finish(p)
  PROVE  /\ UNCHANGED mfaMu /\ \A q \in Procs : q # p => r'[q] = r[q]
         /\ r[p].op \notin Enrol /\ r'[p].op = r[p].op
<1> USE DEF At, Enrol, Reading, Goto, Request
<1>1. CASE PasswordHashVersion(p)
  BY <1>1 DEF PasswordHashVersion
<1>2. CASE GetUser(p)
  BY <1>2 DEF GetUser
<1>3. CASE RoleRequiresMFA(p)
  BY <1>3 DEF RoleRequiresMFA
<1>4. CASE TrustedDevice(p)
  BY <1>4 DEF TrustedDevice
<1>5. CASE FinishPasskeyLogin(p)
  BY <1>5 DEF FinishPasskeyLogin
<1>6. CASE CreateFirstAdmin(p)
  BY <1>6 DEF CreateFirstAdmin
<1>7. CASE VerifyFactor(p)
  BY <1>7 DEF VerifyFactor
<1>8. CASE UpgradeSession(p)
  BY <1>8 DEF UpgradeSession
<1>9. ~CreateUserSession(p) /\ ~AddTrustedDevice(p)
  BY DEF CreateUserSession, AddTrustedDevice
<1> QED BY <1>1, <1>2, <1>3, <1>4, <1>5, <1>6, <1>7, <1>8, <1>9 DEF SignIn

LEMMA HolderStep == ASSUME IInv, HolderInv, [Next]_vars PROVE HolderInv'
<1>1. TypeOK /\ r \in [Procs -> Request]
  BY DEF IInv, TypeOK
<1>2. CASE UNCHANGED vars
  BY <1>2 DEF vars, HolderInv, Enrolling
<1>3. ASSUME NEW s \in sessions, DeleteSession(s) PROVE HolderInv'
  BY <1>3 DEF DeleteSession, HolderInv, Enrolling
<1>4. ASSUME NEW p \in Procs, Arrive(p) PROVE HolderInv'
  <2>1. \E op, step, u, s :
          /\ op \in Ops /\ Begin(p, op, step, u, s)
          /\ op \in Enrol => step = "lock"
    BY <1>4 DEF Arrive, BeginLogin, BeginPasskey, BeginSetup, BeginVerify, BeginEnrol, BeginProfile,
                BeginAdmin, Ops, Enrol, Remove, Admin
  <2>2. PICK op, step, u, s :
          /\ op \in Ops /\ r' = [r EXCEPT ![p] = NewRequest(op, step, u, s)] /\ UNCHANGED mfaMu
          /\ op \in Enrol => step = "lock"
    BY <2>1 DEF Begin
  <2>3. \A q \in Procs : q # p => r'[q] = r[q]
    BY <1>1, <2>2
  <2>4. ~Enrolling(p)'
    BY <1>1, <2>2 DEF Enrolling, NewRequest
  <2> QED BY <1>1, <2>2, <2>3, <2>4, GoesOnHolder
<1>5. ASSUME NEW p \in Procs, LockMFA(p) PROVE HolderInv'
  <2>1. mfaMu = NoOne /\ mfaMu' = p /\ \A q \in Procs : q # p => r'[q] = r[q]
    BY <1>1, <1>5 DEF LockMFA, Goto
  <2> QED BY <2>1, AccountsAssumption DEF HolderInv, Enrolling
<1>6. ASSUME NEW p \in Procs, SignIn(p) PROVE HolderInv'
  <2>1. ASSUME Finish(p) PROVE HolderInv'
    BY <1>1, <2>1, FinishHolder
  <2>2. ASSUME ~Finish(p) PROVE HolderInv'
    <3>1. /\ UNCHANGED mfaMu /\ \A q \in Procs : q # p => r'[q] = r[q]
          /\ r[p].op \notin Enrol /\ r'[p].op = r[p].op
      BY <1>1, <1>6, <2>2, SignInMoves
    <3> QED BY <1>1, <3>1, GoesOnHolder DEF Enrolling
  <2> QED BY <2>1, <2>2
<1>7. ASSUME NEW p \in Procs, Manage(p) PROVE HolderInv'
  <2>1. ASSUME Finish(p) PROVE HolderInv'
    BY <1>1, <2>1, FinishHolder
  <2>2. ASSUME ~Finish(p) PROVE HolderInv'
    <3>1. UNCHANGED mfaMu /\ \A q \in Procs : q # p => r'[q] = r[q]
      BY <1>1, <1>7, <2>2 DEF Manage, CanEnrol, SetPendingTOTP, ConfirmTOTP, AddCredential,
            RemoveFactor, ChangePassword, FinishEnrol, Reading, Goto
    <3>2. Enrolling(p)
      BY <1>7, <2>2 DEF Manage, CanEnrol, SetPendingTOTP, ConfirmTOTP, AddCredential,
            RemoveFactor, ChangePassword, FinishEnrol, Enrolling, At, Enrol
    <3> QED BY <1>1, <3>1, <3>2, GoesOnHolder
  <2> QED BY <2>1, <2>2
<1>8. ASSUME NEW p \in Procs, Administer(p) \/ GiveUp(p) PROVE HolderInv'
  <2>1. Finish(p)
    BY <1>8 DEF Administer, CreateUser, ChangeAccount, DeleteUser, ClearMFA, SetMFAPolicy, GiveUp
  <2> QED BY <1>1, <2>1, FinishHolder
<1> QED BY <1>2, <1>3, <1>4, <1>5, <1>6, <1>7, <1>8 DEF Next

LEMMA FactorWriters ==
  ASSUME [Next]_vars, totp' # totp \/ keys' # keys
  PROVE  \E p \in Procs :
           \/ SetPendingTOTP(p) \/ ConfirmTOTP(p) \/ AddCredential(p)
           \/ RemoveFactor(p) \/ DeleteUser(p) \/ ClearMFA(p)
<1>1. ~UNCHANGED vars
  BY DEF vars, users
<1>2. \A s \in sessions : ~DeleteSession(s)
  BY DEF DeleteSession, users
<1>3. ASSUME NEW p \in Procs PROVE ~Arrive(p) /\ ~LockMFA(p) /\ ~GiveUp(p)
  BY DEF Arrive, BeginLogin, BeginPasskey, BeginSetup, BeginVerify, BeginEnrol, BeginProfile,
         BeginAdmin, Begin, LockMFA, GiveUp, users
<1>4. ASSUME NEW p \in Procs PROVE ~SignIn(p)
  BY DEF SignIn, PasswordHashVersion, GetUser, RoleRequiresMFA, TrustedDevice, FinishPasskeyLogin,
         CreateFirstAdmin, CreateUserSession, VerifyFactor, UpgradeSession, AddTrustedDevice, Reading, users
<1>5. ASSUME NEW p \in Procs, Manage(p)
      PROVE  SetPendingTOTP(p) \/ ConfirmTOTP(p) \/ AddCredential(p) \/ RemoveFactor(p)
  BY <1>5 DEF Manage, CanEnrol, ChangePassword, Reading, users
<1>6. ASSUME NEW p \in Procs, Administer(p) PROVE DeleteUser(p) \/ ClearMFA(p)
  BY <1>6 DEF Administer, CreateUser, ChangeAccount, SetMFAPolicy
<1> QED
  BY <1>1, <1>2, <1>3, <1>4, <1>5, <1>6 DEF Next

(* The request that writes factors is past its lock if it enrols, and no    *)
(* other request moves.                                                     *)
LEMMA WriterMoves ==
  ASSUME TypeOK, NEW p \in Procs,
         \/ SetPendingTOTP(p) \/ ConfirmTOTP(p) \/ AddCredential(p)
         \/ RemoveFactor(p) \/ DeleteUser(p) \/ ClearMFA(p)
  PROVE  /\ r[p].at = "write" /\ r'[p].at # "write"
         /\ \A q \in Procs : q # p => r'[q] = r[q]
<1>1. r[p].at = "write"
  BY DEF SetPendingTOTP, ConfirmTOTP, AddCredential, RemoveFactor, DeleteUser, ClearMFA, At
<1>2. Finish(p) \/ Goto(p, "upgrade")
  BY DEF SetPendingTOTP, ConfirmTOTP, AddCredential, RemoveFactor, DeleteUser, ClearMFA, FinishEnrol
<1>3. CASE Finish(p)
  BY <1>1, <1>3, FinishMoves DEF Moves, Idle, NewRequest
<1>4. CASE Goto(p, "upgrade")
  BY <1>1, <1>4 DEF Goto, TypeOK, Request
<1> QED BY <1>2, <1>3, <1>4

(* Only an enrolment makes a user one who has a factor.                     *)
LEMMA FactorGains ==
  ASSUME TypeOK, [Next]_vars, NEW u \in Users, MFAEnrolled(u)', ~MFAEnrolled(u)
  PROVE  \E p \in Procs : ConfirmTOTP(p) \/ AddCredential(p)
<1>1. totp' # totp \/ keys' # keys
  BY DEF MFAEnrolled
<1>2. totp \in [Users -> {"none", "pending", "confirmed"}] /\ keys \in [Users -> 0 .. MaxKeys]
  BY DEF TypeOK
<1>3. keys[u] \in Nat /\ ~(keys[u] > 0) /\ totp[u] # "confirmed"
  BY <1>2, AccountsAssumption DEF MFAEnrolled
<1>4. ASSUME NEW p \in Procs,
             SetPendingTOTP(p) \/ RemoveFactor(p) \/ DeleteUser(p) \/ ClearMFA(p)
      PROVE  totp'[u] # "confirmed" /\ ~(keys'[u] > 0)
  <2> DEFINE v == r[p].user
  <2>1. \/ totp' = totp
        \/ totp' = [totp EXCEPT ![v] = "none"] \/ totp' = [totp EXCEPT ![v] = "pending"]
    BY <1>4 DEF SetPendingTOTP, RemoveFactor, DeleteUser, ClearMFA
  <2>2. \/ keys' = keys \/ keys' = [keys EXCEPT ![v] = 0]
        \/ keys[v] > 0 /\ keys' = [keys EXCEPT ![v] = keys[v] - 1]
    BY <1>4 DEF SetPendingTOTP, RemoveFactor, DeleteUser, ClearMFA
  <2> HIDE DEF v
  <2>3. totp'[u] # "confirmed"
    BY <1>2, <1>3, <2>1
  <2>4. ~(keys'[u] > 0)
    BY <1>2, <1>3, <2>2
  <2> QED BY <2>3, <2>4
<1>5. ~\E p \in Procs : SetPendingTOTP(p) \/ RemoveFactor(p) \/ DeleteUser(p) \/ ClearMFA(p)
  BY <1>4 DEF MFAEnrolled
<1> QED BY <1>1, <1>5, FactorWriters

LEMMA NoFactorStep ==
  ASSUME IInv, HolderInv, NoFactorInv, [Next]_vars
  PROVE  NoFactorInv'
<1>1. TypeOK /\ r \in [Procs -> Request] /\ \A p \in Procs : ReqInv(p)
  BY DEF IInv, TypeOK
<1> SUFFICES ASSUME NEW p \in Procs, NEW u, u = r'[p].user,
                    r'[p].op \in Enrol, r'[p].at = "write", r'[p].level = "enroll"
             PROVE  ~MFAEnrolled(u)'
  BY DEF NoFactorInv, MFAEnrolled
<1>2. CASE r'[p] = r[p]
  <2>1. u \in Users /\ ~MFAEnrolled(u) /\ mfaMu = p
    BY <1>1, <1>2 DEF ReqInv, NoFactorInv, HolderInv, Enrolling
  <2>2. ASSUME MFAEnrolled(u)' PROVE FALSE
    <3>1. PICK q \in Procs : ConfirmTOTP(q) \/ AddCredential(q)
      BY <1>1, <2>1, <2>2, FactorGains
    <3>2. r[q].op \in Enrol /\ r[q].at = "write"
      BY <3>1 DEF ConfirmTOTP, AddCredential, At, Enrol
    <3>3. q = p
      BY <2>1, <3>2 DEF HolderInv, Enrolling
    <3> QED BY <1>1, <3>1, <3>3, WriterMoves
  <2> QED BY <2>2
<1>3. CASE r'[p] # r[p]
  <2>1. ~UNCHANGED vars /\ \A s \in sessions : ~DeleteSession(s)
    BY <1>3 DEF vars, DeleteSession
  <2>2. ASSUME NEW q \in Procs, Finish(q) PROVE FALSE
    BY <1>1, <1>3, <2>2, FinishMoves DEF Moves, Idle, NewRequest
  <2>3. ASSUME NEW q \in Procs, Arrive(q) PROVE FALSE
    <3>1. PICK op, step, v, s :
            /\ r' = [r EXCEPT ![q] = NewRequest(op, step, v, s)]
            /\ op \in Enrol => step = "lock"
      BY <2>3 DEF Arrive, BeginLogin, BeginPasskey, BeginSetup, BeginVerify, BeginEnrol,
                  BeginProfile, BeginAdmin, Begin, Ops, Enrol, Remove, Admin
    <3> QED BY <1>1, <1>3, <3>1 DEF NewRequest
  <2>4. ASSUME NEW q \in Procs, LockMFA(q) PROVE FALSE
    <3>1. r'[p].op \in Enrol => r'[p].at = "enrol"
      BY <1>1, <1>3, <2>4 DEF LockMFA, Goto, Request, Enrol
    <3> QED BY <3>1
  <2>5. ASSUME NEW q \in Procs, SignIn(q) PROVE FALSE
    BY <1>1, <1>3, <2>2, <2>5, SignInMoves
  <2>6. ASSUME NEW q \in Procs, Administer(q) \/ GiveUp(q) PROVE FALSE
    BY <2>2, <2>6 DEF Administer, CreateUser, ChangeAccount, DeleteUser, ClearMFA, SetMFAPolicy, GiveUp
  <2>7. PICK q \in Procs : Manage(q)
    BY <2>1, <2>3, <2>4, <2>5, <2>6 DEF Next
  <2>8. q = p /\ CanEnrol(q)
    <3>1. CASE CanEnrol(q)
      BY <1>1, <1>3, <3>1 DEF CanEnrol, Goto
    <3>2. CASE SetPendingTOTP(q) \/ ConfirmTOTP(q) \/ AddCredential(q) \/ RemoveFactor(q)
      BY <1>1, <1>3, <3>2, WriterMoves
    <3>3. CASE ChangePassword(q)
      BY <2>2, <3>3 DEF ChangePassword
    <3> QED BY <2>7, <3>1, <3>2, <3>3 DEF Manage
  <2>9. r[p].level = "enroll" /\ r[p].user = u
    BY <1>1, <2>8 DEF CanEnrol, Goto, Request
  <2> QED BY <2>8, <2>9 DEF CanEnrol, Reading, users, MFAEnrolled
<1> QED BY <1>2, <1>3

(* A step taken for an enroll session leaves the factors of a user who has  *)
(* one alone, however enrolments, removals and resets overlap: all of them  *)
(* go through mfaMu, and the check of canEnrol still holds when the store   *)
(* writes.                                                                  *)
THEOREM EnrollmentKeepsFactors == Spec => EnrollKeepsFactors
<1>1. Init => IInv /\ HolderInv /\ NoFactorInv
  <2>1. Init => HolderInv /\ NoFactorInv
    BY DEF Init, HolderInv, NoFactorInv, Enrolling, Idle, NewRequest, Enrol
  <2> QED BY <2>1, InitInv
<1>2. IInv /\ HolderInv /\ NoFactorInv /\ [Next]_vars => (IInv /\ HolderInv /\ NoFactorInv)'
  BY NextInv, HolderStep, NoFactorStep
<1>3. ASSUME IInv, NoFactorInv, [Next]_vars, NEW p \in Procs, r'[p] # r[p], r[p].op \in Enrol,
             r[p].level = "enroll", MFAEnrolled(r[p].user), totp' # totp \/ keys' # keys
      PROVE  FALSE
  <2>1. TypeOK
    BY <1>3 DEF IInv
  <2>2. PICK q \in Procs : \/ SetPendingTOTP(q) \/ ConfirmTOTP(q) \/ AddCredential(q)
                           \/ RemoveFactor(q) \/ DeleteUser(q) \/ ClearMFA(q)
    BY <1>3, FactorWriters
  <2>3. q = p /\ r[p].at = "write"
    BY <1>3, <2>1, <2>2, WriterMoves
  <2> QED BY <1>3, <2>3 DEF NoFactorInv
<1>4. IInv /\ NoFactorInv /\ [Next]_vars =>
        [\A p \in Procs :
           LET u == r[p].user IN
             r'[p] # r[p] /\ r[p].op \in Enrol /\ r[p].level = "enroll" /\ u \in Users /\ MFAEnrolled(u)
               => totp'[u] = totp[u] /\ keys'[u] = keys[u]]_vars
  BY <1>3
<1> QED BY <1>1, <1>2, <1>4, PTL DEF Spec, EnrollKeepsFactors
=============================================================================
