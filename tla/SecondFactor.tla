---------------------------- MODULE SecondFactor -----------------------------
(***************************************************************************)
(* One account, of an admin or of a customer user, that has been set up:   *)
(* its password, its backup codes and its sessions, under logins, second   *)
(* factors, changes and resets that overlap (domain/admins/service.js,     *)
(* domain/customer-users/service.js, completePasswordReset of              *)
(* domain/customers/service.js, lib/auth, routes/public and the profile    *)
(* routes).  Links that were mailed, and whether the customer is active,   *)
(* are the module Accounts'; here every reset has a good link.             *)
(*                                                                         *)
(* A code of the authenticator is right or wrong, at the choice of whoever *)
(* types it.  The backup codes are one JSON column: who takes one reads    *)
(* all of them and writes all of them back.                                *)
(***************************************************************************)
EXTENDS Integers, FiniteSets

CONSTANTS
    Sessions,       \* session identifiers, each used once
    Requests,       \* requests that may be in flight together
    CodeIds,        \* the codes of one set
    MaxSets,        \* bound on the sets of codes generated
    MaxPasswords,   \* bound on the passwords set
    Limit           \* TWOFA_LIMIT, failures of a session until it is locked out

SecondFactorAssumption ==
    /\ IsFiniteSet(Requests)
    /\ "none" \notin CodeIds
    /\ MaxSets \in Nat \ {0}
    /\ MaxPasswords \in Nat \ {0}
    /\ Limit \in Nat \ {0, 1}

ASSUME SecondFactorAssumption

VARIABLES
    kind,       \* the table the account is in, "admin" or "customer"
    password,   \* password_hash, as the number of the password
    codes,      \* backup_codes: which set was stored, and what is left of it
    session,    \* session[s]: the sessions row
    bucket,     \* bucket[s]: the row of rate_limit_buckets for 2fa:<s>
    req,        \* req[r]: the request r is in, with what it has read
    shown,      \* history: the set of codes shown to the owner last
    spent,      \* history: the codes that were accepted
    again,      \* history: those accepted twice by requests that did not overlap
    clobbered,  \* history: an admin's login wrote back codes it had read earlier
    wrong,      \* history: wrong[s] counts the wrong codes since s's bucket was empty
    excused     \* history: sessions that may outlive the password they began with

data    == <<kind, password, codes, session, bucket>>
history == <<shown, spent, again, clobbered, wrong, excused>>
vars    == <<data, req, history>>
-----------------------------------------------------------------------------
Unused == [state |-> "unused", password |-> 0]
Live(s) == session[s].state \in {"half", "full"}
LiveOnes == {s \in Sessions : Live(s)}
Full(s) == session[s].state = "full"

NoCode == "none"
Idle == [at |-> "idle"]

\* What a transaction has read of the codes, and whether anybody has written them
\* since.
Reading(at, s, code) ==
    [at |-> at, session |-> s, code |-> code, set |-> codes.set, left |-> codes.left,
     crossed |-> FALSE]

Requested ==
    {Idle}
        \cup [at : {"login"}, password : 1 .. MaxPasswords]
        \cup [at : {"code", "passed", "changing"}, session : Sessions]
        \cup [at : {"consuming", "resetting", "regenerating"},
              session : Sessions \cup {"none"}, code : CodeIds \cup {NoCode},
              set : 1 .. MaxSets, left : SUBSET CodeIds, crossed : BOOLEAN]

Begin(r, request) == req[r] = Idle /\ req' = [req EXCEPT ![r] = request]
End(r) == req' = [req EXCEPT ![r] = Idle]

\* The account's row: every transaction takes it FOR UPDATE but an admin's login.
LocksRow(r) ==
    \/ req[r].at \in {"resetting", "regenerating"}
    \/ req[r].at = "consuming" /\ kind = "customer"
RowLocked == \E r \in Requests : LocksRow(r)

\* r's transaction commits the codes, having read them earlier; a code it was given
\* is spent.
Store(r, set, left, next) ==
    /\ codes' = [set |-> set, left |-> left]
    /\ clobbered' = (clobbered \/ req[r].crossed)
    /\ LET code == <<req[r].set, req[r].code>> IN
          IF req[r].code = NoCode THEN UNCHANGED <<spent, again>>
          ELSE /\ spent' = spent \cup {code}
               /\ again' = IF code \in spent /\ ~req[r].crossed
                           THEN again \cup {code} ELSE again
    /\ req' = [q \in Requests |->
          IF q = r THEN next
          ELSE IF req[q].at = "consuming" THEN [req[q] EXCEPT !.crossed = TRUE] ELSE req[q]]

\* verifyAndConsume: the code must be of the set that is stored, and left in it.
Matches(code) == code = NoCode \/ code \in codes.left

\* What r writes back: the list it read, with its code consumed.
Remaining(r) == req[r].left \ {req[r].code}
-----------------------------------------------------------------------------
\* completeWelcome, of either kind, and the first codes are shown.  (Its session is
\* like any other's.)
Init ==
    /\ kind \in {"admin", "customer"}
    /\ password = 1
    /\ codes = [set |-> 1, left |-> CodeIds]
    /\ session = [s \in Sessions |-> Unused]
    /\ bucket = [s \in Sessions |-> [count |-> 0, locked |-> FALSE]]
    /\ req = [r \in Requests |-> Idle]
    /\ shown = 1
    /\ spent = {}
    /\ again = {}
    /\ clobbered = FALSE
    /\ wrong = [s \in Sessions |-> 0]
    /\ excused = {}

(***************************************************************************)
(* Login.                                                                  *)
(***************************************************************************)

\* POST /login: verifyLogin reads the password and compares ...
VerifyLogin(r) ==
    /\ Begin(r, [at |-> "login", password |-> password])
    /\ UNCHANGED <<data, history>>

\* ... and then a session is created that waits for its second factor.
CreateSession(r, s) ==
    /\ req[r].at = "login"
    /\ session[s] = Unused
    /\ session' = [session EXCEPT ![s] = [state |-> "half", password |-> req[r].password]]
    /\ excused' = IF req[r].password # password THEN excused \cup {s} ELSE excused
    /\ End(r)
    /\ UNCHANGED <<kind, password, codes, bucket, shown, spent, again, clobbered, wrong>>

(***************************************************************************)
(* The second factor.                                                      *)
(***************************************************************************)

\* Slip: the lockout is not looked at.
PostCodeUnchecked(r, s) ==
    /\ Live(s)
    /\ Begin(r, [at |-> "code", session |-> s])
    /\ UNCHANGED <<data, history>>

\* POST /login/2fa: the session is there and not locked out.
PostCode(r, s) ==
    /\ Live(s)
    /\ ~bucket[s].locked
    /\ Begin(r, [at |-> "code", session |-> s])
    /\ UNCHANGED <<data, history>>

\* A session that is locked out is revoked at its next try.
LockedOut(s) ==
    /\ Live(s)
    /\ bucket[s].locked
    /\ session' = [session EXCEPT ![s].state = "ended"]
    /\ UNCHANGED <<kind, password, codes, bucket, req, history>>

\* recordFail counts; the failure that fills a bucket which was not empty locks it.
RecordFail(s) ==
    bucket' = [bucket EXCEPT ![s] = [count |-> @.count + 1,
                                     locked |-> \/ @.locked
                                                \/ @.count > 0 /\ @.count + 1 >= Limit]]

WrongCode(r) ==
    /\ req[r].at = "code"
    /\ RecordFail(req[r].session)
    /\ wrong' = [wrong EXCEPT ![req[r].session] = @ + 1]
    /\ End(r)
    /\ UNCHANGED <<kind, password, codes, session, shown, spent, again, clobbered, excused>>

RightCode(r) ==
    /\ req[r].at = "code"
    /\ req' = [req EXCEPT ![r].at = "passed"]
    /\ UNCHANGED <<data, history>>

\* A backup code of an admin: the codes are read without a lock.
ReadAdminCodes(r, code) ==
    /\ kind = "admin"
    /\ req[r].at = "code"
    /\ Matches(code)
    /\ req' = [req EXCEPT ![r] = Reading("consuming", req[r].session, code)]
    /\ UNCHANGED <<data, history>>

\* Slip: so are the customer user's.
ReadCodesUnlocked(r, code) ==
    /\ kind = "customer"
    /\ req[r].at = "code"
    /\ Matches(code)
    /\ req' = [req EXCEPT ![r] = Reading("consuming", req[r].session, code)]
    /\ UNCHANGED <<data, history>>

\* A customer user's: the row is locked first.
ReadCodes(r, code) ==
    /\ kind = "customer"
    /\ ~RowLocked
    /\ req[r].at = "code"
    /\ Matches(code)
    /\ req' = [req EXCEPT ![r] = Reading("consuming", req[r].session, code)]
    /\ UNCHANGED <<data, history>>

\* All of them are written back, the one without; the admin's UPDATE waits for
\* whoever holds the row.
ConsumeBackupCode(r) ==
    /\ req[r].at = "consuming"
    /\ kind = "admin" => ~RowLocked
    /\ Store(r, req[r].set, Remaining(r),
             [at |-> "passed", session |-> req[r].session])
    /\ UNCHANGED <<kind, password, session, bucket, shown, wrong, excused>>

\* reset deletes the bucket, with a lock that was set meanwhile.
ResetBucket(s) == bucket' = [bucket EXCEPT ![s] = [count |-> 0, locked |-> FALSE]]

\* The session is stepped up, whatever became of it.
StepUp(r) ==
    /\ req[r].at = "passed"
    /\ LET s == req[r].session IN
          /\ ResetBucket(s)
          /\ wrong' = [wrong EXCEPT ![s] = 0]
          /\ session' = IF Live(s) THEN [session EXCEPT ![s].state = "full"] ELSE session
    /\ End(r)
    /\ UNCHANGED <<kind, password, codes, shown, spent, again, clobbered, excused>>

\* Five minutes from the first failure the count begins anew ...
WindowEnds(s) ==
    /\ bucket[s].count > 0
    /\ bucket' = [bucket EXCEPT ![s].count = 0]
    /\ wrong' = [wrong EXCEPT ![s] = 0]
    /\ UNCHANGED <<kind, password, codes, session, req, shown, spent, again, clobbered, excused>>

\* ... and thirty minutes from the failure that locked, when its window is over, the
\* lockout ends.
LockoutEnds(s) ==
    /\ bucket[s].locked /\ bucket[s].count < Limit
    /\ bucket' = [bucket EXCEPT ![s].locked = FALSE]
    /\ UNCHANGED <<kind, password, codes, session, req, history>>

(***************************************************************************)
(* The password and the codes.                                             *)
(***************************************************************************)

\* changePassword, changeAdminPassword: the password in force is verified first,
\* outside the transaction.
CheckPassword(r, s) ==
    /\ Full(s)
    /\ Begin(r, [at |-> "changing", session |-> s])
    /\ UNCHANGED <<data, history>>

\* Slip: those that wait for their second factor are forgotten.
OthersInUse(s) == {t \in Sessions \ {s} : Full(t)}

\* The sessions a change of the password revokes.
Others(s) == LiveOnes \ {s}

EndSessions(gone) ==
    session' = [s \in Sessions |->
                   IF s \in gone THEN [session[s] EXCEPT !.state = "ended"] ELSE session[s]]

\* The new one is written, and every session but the one that asked revoked.
CommitPassword(r) ==
    /\ req[r].at = "changing"
    /\ ~RowLocked
    /\ password < MaxPasswords
    /\ password' = password + 1
    /\ EndSessions(Others(req[r].session))
    /\ excused' = excused \cup {req[r].session}
    /\ End(r)
    /\ UNCHANGED <<kind, codes, bucket, shown, spent, again, clobbered, wrong>>

PasswordSteps ==
    \E r \in Requests : (\E s \in Sessions : CheckPassword(r, s)) \/ CommitPassword(r)

\* The forms of the two profiles.
ChangePassword == kind = "customer" /\ PasswordSteps
ChangeAdminPassword == kind = "admin" /\ PasswordSteps

\* completePasswordReset: the row is locked, and a code of either kind is right.
LockReset(r, code) ==
    /\ ~RowLocked
    /\ Matches(code)
    /\ Begin(r, Reading("resetting", "none", code))
    /\ UNCHANGED <<data, history>>

\* The password is set, the code spent and a session minted; no other is revoked.
CommitReset(r, s) ==
    /\ req[r].at = "resetting"
    /\ session[s] = Unused
    /\ password < MaxPasswords
    /\ password' = password + 1
    /\ session' = [session EXCEPT ![s] = [state |-> "full", password |-> password']]
    /\ excused' = excused \cup LiveOnes
    /\ IF req[r].code = NoCode
       THEN End(r) /\ UNCHANGED <<codes, spent, again, clobbered>>
       ELSE Store(r, req[r].set, Remaining(r), Idle)
    /\ UNCHANGED <<kind, bucket, shown, wrong>>

ResetSteps ==
    \E r \in Requests :
        \/ \E code \in CodeIds \cup {NoCode} : LockReset(r, code)
        \/ \E s \in Sessions : CommitReset(r, s)

\* The pages of the two kinds of link.
ResetOfUser == kind = "customer" /\ ResetSteps
ResetOfAdmin == kind = "admin" /\ ResetSteps

\* regenBackupCodes, regenAdminBackupCodesSelf: the same, from a session ...
LockToRegenerate(r, s, code) ==
    /\ Full(s)
    /\ ~RowLocked
    /\ Matches(code)
    /\ Begin(r, Reading("regenerating", s, code))
    /\ UNCHANGED <<data, history>>

\* ... and a whole new set is stored and shown.
CommitCodes(r) ==
    /\ req[r].at = "regenerating"
    /\ codes.set < MaxSets /\ shown < MaxSets
    /\ shown' = shown + 1
    /\ Store(r, shown', CodeIds, Idle)
    /\ UNCHANGED <<kind, password, session, bucket, wrong, excused>>

RegenSteps ==
    \E r \in Requests :
        \/ \E s \in Sessions, code \in CodeIds \cup {NoCode} : LockToRegenerate(r, s, code)
        \/ CommitCodes(r)

RegenBackupCodes == kind = "customer" /\ RegenSteps
RegenAdminBackupCodesSelf == kind = "admin" /\ RegenSteps

(***************************************************************************)
(* The list of the sessions.                                               *)
(***************************************************************************)

\* revokeSession, of any session of the account.
RevokeSession(s, target) ==
    /\ Full(s)
    /\ Live(target)
    /\ EndSessions({target})
    /\ UNCHANGED <<kind, password, codes, bucket, req, history>>

\* revokeAllSessions, but for the one that asks when it says so.
RevokeAllSessions(s, kept) ==
    /\ Full(s)
    /\ kept \subseteq {s}
    /\ EndSessions(LiveOnes \ kept)
    /\ UNCHANGED <<kind, password, codes, bucket, req, history>>

RevokeSteps ==
    \E s \in Sessions :
        \/ \E t \in Sessions : RevokeSession(s, t)
        \/ \E kept \in SUBSET {s} : RevokeAllSessions(s, kept)

RevokeOfUser == kind = "customer" /\ RevokeSteps
RevokeOfAdmin == kind = "admin" /\ RevokeSteps

\* A statement fails, or the connection is lost: the transaction is rolled back.
Abort(r) ==
    /\ req[r] # Idle
    /\ End(r)
    /\ UNCHANGED <<data, history>>

Next ==
    \/ \E r \in Requests :
          \/ VerifyLogin(r)
          \/ \E s \in Sessions : CreateSession(r, s) \/ PostCode(r, s)
          \/ WrongCode(r)
          \/ RightCode(r)
          \/ \E code \in CodeIds : ReadAdminCodes(r, code) \/ ReadCodes(r, code)
          \/ ConsumeBackupCode(r)
          \/ StepUp(r)
          \/ Abort(r)
    \/ \E s \in Sessions : LockedOut(s) \/ WindowEnds(s) \/ LockoutEnds(s)
    \/ ChangePassword \/ ChangeAdminPassword
    \/ ResetOfUser \/ ResetOfAdmin
    \/ RegenBackupCodes \/ RegenAdminBackupCodesSelf
    \/ RevokeOfUser \/ RevokeOfAdmin

Spec == Init /\ [][Next]_vars
-----------------------------------------------------------------------------
TypeOK ==
    /\ kind \in {"admin", "customer"}
    /\ password \in 1 .. MaxPasswords
    /\ codes \in [set : 1 .. MaxSets, left : SUBSET CodeIds]
    /\ session \in [Sessions -> [state : {"unused", "half", "full", "ended"},
                                 password : 0 .. MaxPasswords]]
    /\ bucket \in [Sessions -> [count : Nat, locked : BOOLEAN]]
    /\ req \in [Requests -> Requested]
    /\ shown \in 1 .. MaxSets
    /\ spent \subseteq (1 .. MaxSets) \X CodeIds
    /\ again \subseteq spent
    /\ clobbered \in BOOLEAN
    /\ wrong \in [Sessions -> Nat]
    /\ excused \subseteq Sessions

\* A backup code opens one session, once: it is accepted a second time only when an
\* admin's login wrote back codes it had read before another write
\* (lib/auth/backup-codes.js:29, domain/admins/service.js:434-448).
CodesWorkOnce == ~clobbered => again = {}

\* What the owner was shown is what works: the codes stored are the set shown last
\* without those accepted -- unless, once more, an admin's login that overlapped
\* wrote an older list over them, so that a set just regenerated is void.  A
\* customer user's codes are never written over.
ShownCodesWork ==
    IF clobbered THEN kind = "admin"
    ELSE codes = [set |-> shown, left |-> {c \in CodeIds : <<shown, c>> \notin spent}]

\* "Revoke every other session" (customer-users/service.js:569): one that began with
\* an older password is over, but for the session that asked for the change, a login
\* that had verified the old one before the change, and those that were there at a
\* reset by link, which revokes nothing.
OldPasswordsAreOut ==
    \A s \in LiveOnes : session[s].password < password => s \in excused

\* A session gets TWOFA_LIMIT wrong codes in a window, and those that were already
\* past the check of the lockout when the last of them was counted
\* (lib/auth/rate-limit.js:3-39).
TriesAreBounded ==
    \A s \in Sessions : wrong[s] <= Limit - 1 + Cardinality(Requests)

\* A backup code in the owner's hand works, once.
CodesAreGood == CodesWorkOnce /\ ShownCodesWork

\* Why these hold.  Who has the row locked, or was not crossed, has read the codes that
\* are stored; no code is of a set that was not shown; a bucket that is full is locked,
\* and only the tries already past the check count on.
HasRead(r) == req[r].at \in {"consuming", "resetting", "regenerating"}
Trying(s)  == {r \in Requests : req[r].at = "code" /\ req[r].session = s}

RowHeldAlone == \A r, q \in Requests : LocksRow(r) /\ LocksRow(q) => r = q
ReadsAreCurrent ==
    \A r \in Requests : HasRead(r) =>
        /\ req[r].set <= shown
        /\ req[r].code = NoCode \/ req[r].code \in req[r].left
        /\ req[r].at = "consuming" => req[r].code # NoCode /\ req[r].session \in Sessions
        /\ LocksRow(r) => ~req[r].crossed
        /\ ~req[r].crossed => req[r].set = codes.set /\ req[r].left = codes.left
CodesWereShown ==
    /\ codes.set <= shown
    /\ \A code \in spent : code[1] <= shown
FullIsLocked ==
    \A s \in Sessions :
        /\ wrong[s] = bucket[s].count
        /\ ~bucket[s].locked => bucket[s].count < Limit
        /\ bucket[s].count + Cardinality(Trying(s)) <= Limit - 1 + Cardinality(Requests)

SecondFactorInv ==
    /\ TypeOK
    /\ OldPasswordsAreOut
    /\ RowHeldAlone /\ ReadsAreCurrent /\ CodesWereShown /\ CodesAreGood
    /\ FullIsLocked
=============================================================================
