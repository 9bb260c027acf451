------------------------------ MODULE Accounts ------------------------------
(***************************************************************************)
(* Local accounts: users, second factors, sessions, remembered devices and *)
(* the MFA policy (internal/store), and the handlers that read and write   *)
(* them (internal/accounts, internal/server). A handler is several steps:  *)
(* SQLite has one connection, so a statement or a transaction is atomic,   *)
(* but two statements of one handler are not, and only some handlers hold  *)
(* the mutex mfaMu.                                                        *)
(*                                                                         *)
(* Passwords are named by the auth_version at which they were set. Any     *)
(* handler may return early (rate limit, wrong password or code, recent    *)
(* authentication missing, storage error, client gone): GiveUp. OIDC       *)
(* sessions live in a table of their own and are not modelled here.        *)
(***************************************************************************)
EXTENDS Naturals, FiniteSets

CONSTANTS
  Users,        \* ids of the users table, never used twice (AUTOINCREMENT)
  Procs,        \* goroutines serving requests
  NoOne,        \* nobody holds mfaMu; no user
  Served,       \* operations requested: all of Ops, or fewer in a run
  MaxSessions,  \* bound on session ids ever issued
  MaxVersion,   \* bound on auth_version
  MaxKeys       \* bound on the security keys of a user

ASSUME AccountsAssumption ==
  /\ NoOne \notin Procs \cup Users
  /\ MaxSessions \in Nat /\ MaxVersion \in Nat /\ MaxKeys \in Nat

VARIABLES
  role,      \* users.role; "absent" before the row exists, "deleted" after
  hash,      \* users.password_hash
  version,   \* users.auth_version
  totp,      \* users.totp_secret and totp_confirmed
  keys,      \* number of webauthn_credentials of a user
  required,  \* the MFA policy: roles that must use a second factor
  sessions,  \* user_sessions
  issued,    \* session ids issued so far
  trusted,   \* trusted_devices
  mfaMu,     \* who holds mfaMu
  r          \* the request each goroutine serves

users == <<role, hash, version, totp, keys>>
vars  == <<users, required, sessions, issued, trusted, mfaMu, r>>

Roles  == {"admin", "user"}
Levels == {"none", "mfa", "enroll", "full"}
Enrol  == {"totp_begin", "totp_confirm", "register"}
Remove == {"remove_totp", "remove_key"}
Admin  == {"update", "delete", "reset", "policy", "create"}
Ops    == {"none", "login", "passkey", "setup", "verify", "password"} \cup Enrol \cup Remove \cup Admin
Steps  == {"idle", "lock", "hash", "user", "policy", "trust", "insert", "check",
           "upgrade", "remember", "enrol", "write"}

(* A session row. version and second are not columns: the auth_version its *)
(* credentials were checked against, carried along when a change made from *)
(* that very session bumps it, and whether a second factor (or a device    *)
(* remembered after one) was presented.                                    *)
Session == [sid : 1 .. MaxSessions, user : Users, level : Levels \ {"none"},
            version : 0 .. MaxVersion, second : BOOLEAN]
Device  == [user : Users, version : 0 .. MaxVersion]

(* A request: its operation and next step, the user it is about, what      *)
(* requireStep or requireAuth read of its session, and what it read since. *)
Request == [op : Ops, at : Steps, user : Users \cup {NoOne}, sid : 0 .. MaxSessions,
            level : Levels, role : Roles \cup {"none"}, version : 0 .. MaxVersion,
            hash : 0 .. MaxVersion, second : BOOLEAN]

TypeOK ==
  /\ role \in [Users -> Roles \cup {"absent", "deleted"}]
  /\ hash \in [Users -> 0 .. MaxVersion]
  /\ version \in [Users -> 0 .. MaxVersion]
  /\ totp \in [Users -> {"none", "pending", "confirmed"}]
  /\ keys \in [Users -> 0 .. MaxKeys]
  /\ required \in SUBSET Roles
  /\ sessions \in SUBSET Session
  /\ issued \in 0 .. MaxSessions
  /\ trusted \in SUBSET Device
  /\ mfaMu \in Procs \cup {NoOne}
  /\ r \in [Procs -> Request]

Exists(u)      == role[u] \in Roles
MFAEnrolled(u) == totp[u] = "confirmed" \/ keys[u] > 0
Admins         == {u \in Users : role[u] = "admin"}
NewRequest(op, step, u, s) ==
  [op |-> op, at |-> step, user |-> u, sid |-> s.sid, level |-> s.level,
   role |-> "none", version |-> 0, hash |-> 0, second |-> FALSE]

NoSession == [sid |-> 0, level |-> "none"]   \* none, or of no importance
Idle      == NewRequest("none", "idle", NoOne, NoSession)

(* lightngx starts on the database of an earlier run: any accounts, with   *)
(* no session left.                                                        *)
Init ==
  /\ role \in [Users -> Roles \cup {"absent"}]
  /\ hash = [u \in Users |-> 0] /\ version = [u \in Users |-> 0]
  /\ totp \in [Users -> {"none", "pending", "confirmed"}]
  /\ keys \in [Users -> 0 .. MaxKeys]
  /\ \A u \in Users : ~Exists(u) => totp[u] = "none" /\ keys[u] = 0
  /\ required \in SUBSET Roles
  /\ sessions = {} /\ issued = 0 /\ trusted = {}
  /\ mfaMu = NoOne
  /\ r = [p \in Procs |-> Idle]

-----------------------------------------------------------------------------
(* Steps of a request.                                                     *)

At(p, ops, step) == r[p].op \in ops /\ r[p].at = step

\* The request goes on at another step, with what it has read.
Goto(p, step)    == r' = [r EXCEPT ![p].at = step]
\* It is answered; the deferred Unlock runs if it holds mfaMu.
Finish(p)        == /\ r' = [r EXCEPT ![p] = Idle]
                    /\ mfaMu' = IF mfaMu = p THEN NoOne ELSE mfaMu

Begin(p, op, step, u, s) ==
  /\ op \in Served
  /\ r[p].at = "idle"
  /\ r' = [r EXCEPT ![p] = NewRequest(op, step, u, s)]
  /\ UNCHANGED <<users, required, sessions, issued, trusted, mfaMu>>

(* An early return of the handler, with what it has done so far kept.      *)
GiveUp(p) ==
  /\ r[p].at # "idle"
  /\ Finish(p)
  /\ UNCHANGED <<users, required, sessions, issued, trusted>>

LockMFA(p) ==
  /\ r[p].at = "lock" /\ mfaMu = NoOne
  /\ mfaMu' = p
  /\ Goto(p, CASE r[p].op = "passkey" -> "user"
               [] r[p].op = "verify" -> "check"
               [] r[p].op \in Enrol -> "enrol"
               [] OTHER -> "write")
  /\ UNCHANGED <<users, required, sessions, issued, trusted>>

(* liveSession: the row of the session, its level lowered to enroll when   *)
(* the policy asks for a factor the user does not have.                    *)
Live(s) ==
  [sid |-> s.sid,
   level |-> IF s.level = "full" /\ role[s.user] \in required /\ ~MFAEnrolled(s.user)
             THEN "enroll" ELSE s.level]

-----------------------------------------------------------------------------
(* Arrivals: what the middleware and the handler's first checks admit.     *)

BeginLogin(p, u) == Exists(u) /\ Begin(p, "login", "hash", u, NoSession)

BeginPasskey(p, u) == Exists(u) /\ Begin(p, "passkey", "lock", u, NoSession)

BeginSetup(p, u) ==
  /\ Admins = {} /\ role[u] = "absent"
  /\ Begin(p, "setup", "write", u, NoSession)

BeginVerify(p, s) ==
  /\ Live(s).level = "mfa"
  /\ Begin(p, "verify", "lock", s.user, Live(s))

BeginEnrol(p, s, op) ==
  /\ Live(s).level \in {"enroll", "full"}
  /\ Begin(p, op, "lock", s.user, Live(s))

BeginProfile(p, s, op) ==
  /\ Live(s).level = "full"
  /\ Begin(p, op, IF op = "password" THEN "hash" ELSE "lock", s.user, Live(s))

(* requireAuth and requireAdmin. The request is about user u.              *)
BeginAdmin(p, s, op, u) ==
  /\ Live(s).level = "full" /\ role[s.user] = "admin"
  /\ op = "create" <=> role[u] = "absent"
  /\ op \in {"update", "delete", "reset"} => Exists(u)
  /\ op = "delete" => u # s.user
  /\ Begin(p, op, IF op = "reset" THEN "lock" ELSE "write", u, NoSession)

-----------------------------------------------------------------------------
(* Transactions of the store.                                              *)

SessionsOf(u) == {s \in sessions : s.user = u}

(* Bump auth_version, delete the user's other sessions and remembered      *)
(* devices. The session kept goes on under the new version.                *)
Revoke(u, keep, second) ==
  /\ version[u] < MaxVersion
  /\ version' = [version EXCEPT ![u] = @ + 1]
  /\ sessions' = (sessions \ SessionsOf(u)) \cup
       {[s EXCEPT !.version = @ + 1, !.second = @ \/ second] : s \in {s \in SessionsOf(u) : s.sid = keep}}
  /\ trusted' = {d \in trusted : d.user # u}

\* Fault: the insert does not look at auth_version.
CreateUserSessionUnguarded(p) ==
  /\ At(p, {"login", "passkey", "setup"}, "insert")
  /\ Exists(r[p].user)
  /\ issued < MaxSessions
  /\ issued' = issued + 1
  /\ sessions' = sessions \cup
       {[sid |-> issued + 1, user |-> r[p].user, level |-> r[p].level,
         version |-> r[p].version, second |-> r[p].second]}
  /\ Finish(p)
  /\ UNCHANGED <<users, required, trusted>>

(* CreateUserSession: no row unless auth_version is still the one read.    *)
CreateUserSession(p) ==
  /\ At(p, {"login", "passkey", "setup"}, "insert")
  /\ Exists(r[p].user) /\ version[r[p].user] = r[p].version
  /\ issued < MaxSessions
  /\ issued' = issued + 1
  /\ sessions' = sessions \cup
       {[sid |-> issued + 1, user |-> r[p].user, level |-> r[p].level,
         version |-> r[p].version, second |-> r[p].second]}
  /\ Finish(p)
  /\ UNCHANGED <<users, required, trusted>>

(* UpgradeSession: the row, if it is still there, gets a new sid.          *)
UpgradeSession(p) ==
  /\ r[p].at = "upgrade"
  /\ Exists(r[p].user) /\ issued < MaxSessions
  /\ issued' = issued + 1
  /\ \E s \in SessionsOf(r[p].user) :
       /\ s.sid = r[p].sid
       /\ sessions' = (sessions \ {s}) \cup
            {[s EXCEPT !.sid = issued + 1, !.level = "full", !.second = TRUE]}
  /\ \/ r[p].op = "verify" /\ Goto(p, "remember") /\ UNCHANGED mfaMu
     \/ Finish(p)
  /\ UNCHANGED <<users, required, trusted>>

(* Logout, the revocation of a device, expiry: a row is deleted.           *)
DeleteSession(s) ==
  /\ sessions' = sessions \ {s}
  /\ UNCHANGED <<users, required, issued, trusted, mfaMu, r>>

-----------------------------------------------------------------------------
(* Login: PasswordHashVersion, bcrypt, GetUser and its version, levelFor,  *)
(* the trusted device, CreateUserSession.                                  *)

Reading == UNCHANGED <<users, required, sessions, issued, trusted, mfaMu>>

PasswordHashVersion(p) ==
  /\ At(p, {"login", "password"}, "hash")
  /\ Exists(r[p].user)
  /\ \/ /\ r[p].op = "login"
        /\ r' = [r EXCEPT ![p].version = version[r[p].user], ![p].at = "user"]
     \/ /\ r[p].op = "password"
        /\ r' = [r EXCEPT ![p].hash = hash[r[p].user], ![p].at = "write"]
  /\ Reading

GetUser(p) ==
  /\ At(p, {"login"}, "user")
  /\ Exists(r[p].user) /\ version[r[p].user] = r[p].version
  /\ r' = [r EXCEPT ![p].role = role[r[p].user],
                    ![p].at = IF MFAEnrolled(r[p].user) THEN "trust" ELSE "policy"]
  /\ Reading

(* handleSetup takes a storage error for "not required".                   *)
RoleRequiresMFA(p) ==
  /\ At(p, {"login", "setup"}, "policy")
  /\ \E level \in {"enroll", "full"} :
       /\ level = "enroll" => r[p].role \in required
       /\ level = "full" => r[p].role \notin required \/ r[p].op = "setup"
       /\ r' = [r EXCEPT ![p].level = level, ![p].at = "insert"]
  /\ Reading

(* The browser may carry the cookie of a remembered device, or not.        *)
TrustedDevice(p) ==
  /\ At(p, {"login"}, "trust")
  /\ \/ /\ \E d \in trusted : d.user = r[p].user
        /\ r' = [r EXCEPT ![p].level = "full", ![p].second = TRUE, ![p].at = "insert"]
     \/ r' = [r EXCEPT ![p].level = "mfa", ![p].at = "insert"]
  /\ Reading

(* FinishPasskeyLogin: the user of the credential, by a verified passkey.  *)
FinishPasskeyLogin(p) ==
  /\ At(p, {"passkey"}, "user")
  /\ Exists(r[p].user) /\ keys[r[p].user] > 0
  /\ r' = [r EXCEPT ![p].version = version[r[p].user], ![p].level = "full",
                    ![p].second = TRUE, ![p].at = "insert"]
  /\ Reading

\* Fault: the insert of the first admin does not look for another one.
CreateFirstAdminUnguarded(p) ==
  /\ At(p, {"setup"}, "write")
  /\ role[r[p].user] = "absent"
  /\ role' = [role EXCEPT ![r[p].user] = "admin"]
  /\ r' = [r EXCEPT ![p].role = "admin", ![p].at = "policy"]
  /\ UNCHANGED <<hash, version, totp, keys, required, sessions, issued, trusted, mfaMu>>

CreateFirstAdmin(p) ==
  /\ At(p, {"setup"}, "write")
  /\ Admins = {} /\ role[r[p].user] = "absent"
  /\ role' = [role EXCEPT ![r[p].user] = "admin"]
  /\ r' = [r EXCEPT ![p].role = "admin", ![p].at = "policy"]
  /\ UNCHANGED <<hash, version, totp, keys, required, sessions, issued, trusted, mfaMu>>

-----------------------------------------------------------------------------
(* Second factor: verification at login, and the remembered device.        *)

VerifyFactor(p) ==
  /\ At(p, {"verify"}, "check")
  /\ Exists(r[p].user) /\ MFAEnrolled(r[p].user)
  /\ r' = [r EXCEPT ![p].version = version[r[p].user], ![p].at = "upgrade"]
  /\ Reading

AddTrustedDevice(p) ==
  /\ At(p, {"verify"}, "remember")
  /\ Exists(r[p].user)
  /\ trusted' = trusted \cup {[user |-> r[p].user, version |-> r[p].version]}
  /\ Finish(p)
  /\ UNCHANGED <<users, required, sessions, issued>>

-----------------------------------------------------------------------------
(* Enrolment and removal of factors, under mfaMu, and the password.        *)

\* Fault: a forced enrolment does not look for a factor already there.
CanEnrolAlways(p) ==
  /\ At(p, Enrol, "enrol")
  /\ Exists(r[p].user)
  /\ Goto(p, "write")
  /\ Reading

CanEnrol(p) ==
  /\ At(p, Enrol, "enrol")
  /\ r[p].level = "enroll" => Exists(r[p].user) /\ ~MFAEnrolled(r[p].user)
  /\ Goto(p, "write")
  /\ Reading

SetPendingTOTP(p) ==
  /\ At(p, {"totp_begin"}, "write")
  /\ Exists(r[p].user)
  /\ totp' = [totp EXCEPT ![r[p].user] = "pending"]
  /\ Finish(p)
  /\ UNCHANGED <<role, hash, version, keys, required, sessions, issued, trusted>>

(* finishEnrol: a forced enrolment goes on to upgrade its session.         *)
FinishEnrol(p) ==
  \/ r[p].level = "enroll" /\ Goto(p, "upgrade") /\ UNCHANGED mfaMu
  \/ r[p].level # "enroll" /\ Finish(p)

\* Fault: the factor is confirmed without revoking anything.
ConfirmTOTPAlone(p) ==
  /\ At(p, {"totp_confirm"}, "write")
  /\ Exists(r[p].user) /\ totp[r[p].user] = "pending"
  /\ totp' = [totp EXCEPT ![r[p].user] = "confirmed"]
  /\ FinishEnrol(p)
  /\ UNCHANGED <<role, hash, version, keys, required, sessions, issued, trusted>>

ConfirmTOTP(p) ==
  /\ At(p, {"totp_confirm"}, "write")
  /\ Exists(r[p].user) /\ totp[r[p].user] = "pending"
  /\ totp' = [totp EXCEPT ![r[p].user] = "confirmed"]
  /\ Revoke(r[p].user, r[p].sid, TRUE)
  /\ FinishEnrol(p)
  /\ UNCHANGED <<role, hash, keys, required, issued>>

AddCredential(p) ==
  /\ At(p, {"register"}, "write")
  /\ Exists(r[p].user) /\ keys[r[p].user] < MaxKeys
  /\ keys' = [keys EXCEPT ![r[p].user] = @ + 1]
  /\ Revoke(r[p].user, r[p].sid, TRUE)
  /\ FinishEnrol(p)
  /\ UNCHANGED <<role, hash, totp, required, issued>>

\* Fault: nobody looks whether there was a credential to delete.
RemoveFactorMissing(p) ==
  /\ At(p, Remove, "write")
  /\ Exists(r[p].user)
  /\ \/ /\ r[p].op = "remove_totp"
        /\ totp' = [totp EXCEPT ![r[p].user] = "none"]
        /\ UNCHANGED keys
     \/ /\ r[p].op = "remove_key"
        /\ keys' = [keys EXCEPT ![r[p].user] = @ - 1]
        /\ UNCHANGED totp
  /\ Revoke(r[p].user, r[p].sid, FALSE)
  /\ Finish(p)
  /\ UNCHANGED <<role, hash, required, issued>>

RemoveFactor(p) ==
  /\ At(p, Remove, "write")
  /\ Exists(r[p].user)
  /\ \/ /\ r[p].op = "remove_totp"
        /\ totp' = [totp EXCEPT ![r[p].user] = "none"]
        /\ UNCHANGED keys
     \/ /\ r[p].op = "remove_key" /\ keys[r[p].user] > 0
        /\ keys' = [keys EXCEPT ![r[p].user] = @ - 1]
        /\ UNCHANGED totp
  /\ Revoke(r[p].user, r[p].sid, FALSE)
  /\ Finish(p)
  /\ UNCHANGED <<role, hash, required, issued>>

SetHash(u) == hash' = [hash EXCEPT ![u] = version[u] + 1]

\* Fault: the update does not compare the hash it verified.
ChangePasswordBlindly(p) ==
  /\ At(p, {"password"}, "write")
  /\ Exists(r[p].user)
  /\ SetHash(r[p].user)
  /\ Revoke(r[p].user, r[p].sid, FALSE)
  /\ Finish(p)
  /\ UNCHANGED <<role, totp, keys, required, issued>>

ChangePassword(p) ==
  /\ At(p, {"password"}, "write")
  /\ Exists(r[p].user) /\ hash[r[p].user] = r[p].hash
  /\ SetHash(r[p].user)
  /\ Revoke(r[p].user, r[p].sid, FALSE)
  /\ Finish(p)
  /\ UNCHANGED <<role, totp, keys, required, issued>>

-----------------------------------------------------------------------------
(* Administration. Only ClearMFA runs under mfaMu.                         *)

CreateUser(p, asRole) ==
  /\ At(p, {"create"}, "write")
  /\ role[r[p].user] = "absent"
  /\ role' = [role EXCEPT ![r[p].user] = asRole]
  /\ Finish(p)
  /\ UNCHANGED <<hash, version, totp, keys, required, sessions, issued, trusted>>

NotLastAdmin(u) == role[u] # "admin" \/ Cardinality(Admins) > 1

\* Fault: any role may be given up.
ChangeRoleUnguarded(u, asRole) ==
  /\ Exists(u)
  /\ role' = [role EXCEPT ![u] = asRole]

ChangeRole(u, asRole) ==
  /\ Exists(u)
  /\ role[u] = asRole \/ NotLastAdmin(u)
  /\ role' = [role EXCEPT ![u] = asRole]

(* ChangeAccount: a role, a password or both, in one transaction.          *)
ChangeAccount(p, asRole, reset) ==
  /\ At(p, {"update"}, "write")
  /\ ChangeRole(r[p].user, asRole)
  /\ \/ reset /\ SetHash(r[p].user) /\ Revoke(r[p].user, 0, FALSE)
     \/ ~reset /\ UNCHANGED <<hash, version, sessions, trusted>>
  /\ Finish(p)
  /\ UNCHANGED <<totp, keys, required, issued>>

(* Sessions, credentials and remembered devices go with the row.           *)
DeleteUser(p) ==
  /\ At(p, {"delete"}, "write")
  /\ Exists(r[p].user) /\ NotLastAdmin(r[p].user)
  /\ role' = [role EXCEPT ![r[p].user] = "deleted"]
  /\ totp' = [totp EXCEPT ![r[p].user] = "none"]
  /\ keys' = [keys EXCEPT ![r[p].user] = 0]
  /\ sessions' = sessions \ SessionsOf(r[p].user)
  /\ trusted' = {d \in trusted : d.user # r[p].user}
  /\ Finish(p)
  /\ UNCHANGED <<hash, version, required, issued>>

ClearMFA(p) ==
  /\ At(p, {"reset"}, "write")
  /\ Exists(r[p].user)
  /\ totp' = [totp EXCEPT ![r[p].user] = "none"]
  /\ keys' = [keys EXCEPT ![r[p].user] = 0]
  /\ Revoke(r[p].user, 0, FALSE)
  /\ Finish(p)
  /\ UNCHANGED <<role, hash, required, issued>>

(* SetMFAPolicy: users who do not satisfy the new policy start over.       *)
SetMFAPolicy(p, roles) ==
  /\ At(p, {"policy"}, "write")
  /\ required' = roles
  /\ LET failing == {u \in Users : role[u] \in roles /\ ~MFAEnrolled(u)} IN
       /\ \A u \in failing : version[u] < MaxVersion
       /\ version' = [u \in Users |-> IF u \in failing THEN version[u] + 1 ELSE version[u]]
       /\ sessions' = {s \in sessions : s.user \notin failing}
       /\ trusted' = {d \in trusted : d.user \notin failing}
  /\ Finish(p)
  /\ UNCHANGED <<role, hash, totp, keys, issued>>

-----------------------------------------------------------------------------
Arrive(p) ==
  \/ \E u \in Users : BeginLogin(p, u) \/ BeginPasskey(p, u) \/ BeginSetup(p, u)
  \/ \E s \in sessions :
       \/ BeginVerify(p, s)
       \/ \E op \in Enrol : BeginEnrol(p, s, op)
       \/ \E op \in Remove \cup {"password"} : BeginProfile(p, s, op)
       \/ \E op \in Admin, u \in Users : BeginAdmin(p, s, op, u)

SignIn(p) ==
  \/ PasswordHashVersion(p) \/ GetUser(p) \/ RoleRequiresMFA(p) \/ TrustedDevice(p)
  \/ FinishPasskeyLogin(p) \/ CreateFirstAdmin(p) \/ CreateUserSession(p)
  \/ VerifyFactor(p) \/ UpgradeSession(p) \/ AddTrustedDevice(p)

Manage(p) ==
  \/ CanEnrol(p) \/ SetPendingTOTP(p) \/ ConfirmTOTP(p) \/ AddCredential(p)
  \/ RemoveFactor(p) \/ ChangePassword(p)

Administer(p) ==
  \/ \E asRole \in Roles : CreateUser(p, asRole)
  \/ \E asRole \in Roles, reset \in BOOLEAN : ChangeAccount(p, asRole, reset)
  \/ DeleteUser(p) \/ ClearMFA(p)
  \/ \E roles \in SUBSET Roles : SetMFAPolicy(p, roles)

Next ==
  \/ \E p \in Procs : Arrive(p) \/ LockMFA(p) \/ SignIn(p) \/ Manage(p) \/ Administer(p) \/ GiveUp(p)
  \/ \E s \in sessions : DeleteSession(s)

Spec == Init /\ [][Next]_vars

-----------------------------------------------------------------------------
(* Properties.                                                             *)

(* "A login started before a reset cannot create a session afterward", and *)
(* password, factor and policy changes revoke the sessions they should     *)
(* (security.md): every session rests on credentials as they are now, or   *)
(* is the one the change was made from.                                    *)
SessionsCurrent == \A s \in sessions : Exists(s.user) /\ s.version = version[s.user]

(* A session is full for a user with a second factor only when it was      *)
(* verified with one, or came from a remembered device, or enrolled it:    *)
(* whatever logins, enrolments and resets overlap.                         *)
FullIsEarned ==
  \A s \in sessions : s.level = "full" /\ MFAEnrolled(s.user) => s.second

(* "Stale enrollment sessions cannot replace an established second factor" *)
(* (security.md): a step taken for an enroll session never touches the     *)
(* factors of a user who has one.                                          *)
EnrollKeepsFactors ==
  [][\A p \in Procs :
       LET u == r[p].user IN
         r'[p] # r[p] /\ r[p].op \in Enrol /\ r[p].level = "enroll" /\ u \in Users /\ MFAEnrolled(u)
           => totp'[u] = totp[u] /\ keys'[u] = keys[u]]_vars

(* Overlapping password changes: one succeeds only over the password it    *)
(* verified ("prevents overlapping password changes from using a stale     *)
(* check", ChangePassword).                                                *)
PasswordChangeOverVerified ==
  [][\A p \in Procs :
       r'[p] # r[p] /\ r[p].op = "password" /\ hash' # hash
         => hash[r[p].user] = r[p].hash]_vars

(* "The last admin cannot be demoted or deleted" (security.md), by         *)
(* whatever requests overlap: once there is an admin there always is one.  *)
LastAdminKept == [][Admins # {} => Admins' # {}]_vars

(* The setup page makes an admin only while there is none, however many    *)
(* browsers have it open.                                                  *)
SetupOnlyFirstAdmin ==
  [][\A p \in Procs : At(p, {"setup"}, "write") /\ r'[p] # r[p] /\ role' # role
       => Admins = {}]_vars

(* The findings.                                                           *)

(* "Local password and MFA changes revoke other sessions and remembered    *)
(* devices atomically": a remembered device rests on credentials as they   *)
(* are now.                                                                *)
DevicesCurrent == \A d \in trusted : d.version = version[d.user]

(* "Stale enrollment sessions cannot replace an established second factor":*)
(* a session revoked while its enrolment request waited for mfaMu leaves   *)
(* the factors of a user who has one alone, whatever its level was.        *)
StaleSessionKeepsFactors ==
  [][\A p \in Procs :
       LET u == r[p].user IN
         /\ r'[p] # r[p] /\ r[p].op \in Enrol /\ u \in Users /\ MFAEnrolled(u)
         /\ \A s \in sessions : s.sid # r[p].sid
         => totp'[u] = totp[u] /\ keys'[u] = keys[u]]_vars
=============================================================================
