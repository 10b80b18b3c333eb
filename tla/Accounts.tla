------------------------------- MODULE Accounts -------------------------------
(***************************************************************************)
(* One customer of the portal, its users and their sessions: invitation    *)
(* and reset links, password login and second factor, suspension,          *)
(* reactivation and archival, resets and corrections made by an admin      *)
(* (domain/customers/service.js, lib/auth/session.js, routes/public).      *)
(*                                                                         *)
(* An HTTP request runs one operation.  An operation that is one statement, *)
(* or whose intermediate states nobody can see or wait for, is one action; *)
(* the others are split where another request may come in between.  The    *)
(* database runs READ COMMITTED: a transaction that has not committed is   *)
(* known by the rows it holds (the customer's row, a user's row, session   *)
(* rows) and by the rows it saw when its statements ran.                   *)
(***************************************************************************)
EXTENDS Integers, Sequences

CONSTANTS
    Users,      \* the customer's users
    Requests,   \* requests that may be in flight together
    Sids,       \* session identifiers, each used once
    MaxLinks,   \* bound on the links mailed to one user
    MaxEpochs   \* bound on the suspensions and archivals

AccountsAssumption ==
    /\ MaxLinks \in Nat \ {0}
    /\ MaxEpochs \in Nat

ASSUME AccountsAssumption

VARIABLES
    status,     \* customers.status
    user,       \* user[u]: the committed customer_users row
    links,      \* links[u]: the links mailed to u; the last one is the row's
    sess,       \* sess[s]: the committed sessions row
    req,        \* req[r]: the operation r is in the middle of
    epoch       \* history: suspensions and archivals committed so far

vars == <<status, user, links, sess, req, epoch>>

-----------------------------------------------------------------------------
\* password, factor: whether password_hash, totp_secret_enc are set.  used,
\* expired: the state of the last link.
UserRow == [password : BOOLEAN, factor : BOOLEAN, used : BOOLEAN,
            expired : BOOLEAN]
Link    == [page : {"welcome", "reset"}]

\* level: password checked, second factor passed.  since: epoch in which the
\* operation that created the session began; met: a suspension or archival was under
\* way at some moment of that operation.
Session == [user : Users, level : {"half", "full"}, revoked : BOOLEAN, since : Nat,
            met : BOOLEAN]
Unused  == [level |-> "unused"]
Gone    == [level |-> "gone"]

\* Those that may end with a new session.
MintingOps == {"login", "welcome", "waiting", "reset"}

Operations ==
    [op : {"idle"}]
        \cup [op : MintingOps, user : Users, link : Nat, since : Nat, met : BOOLEAN]
        \cup [op : {"request"}, user : Users]
        \cup [op : {"second"}, sid : Sids]
        \cup [op : {"suspend", "archive"}, rows : SUBSET Sids]
        \cup [op : {"authreset"}, user : Users, rows : SUBSET Sids]

Idle == [op |-> "idle"]
Start(r, operation) == req[r] = Idle /\ req' = [req EXCEPT ![r] = operation]
End(r) == req' = [req EXCEPT ![r] = Idle]

Exists(s) == sess[s].level \in {"half", "full"}
Live(s)   == Exists(s) /\ ~sess[s].revoked

\* Who holds which row until it commits.
Holds(r, u) == req[r].op \in {"welcome", "reset", "authreset"} /\ req[r].user = u
UserLocked(u) == \E r \in Requests : Holds(r, u)
Closes(r) == req[r].op \in {"suspend", "archive"}
CustomerLocked == \E r \in Requests : Closes(r)
Mints(r) == req[r].op \in MintingOps
SessionLocked(s) ==
    \E r \in Requests : req[r].op \in {"suspend", "archive", "authreset"} /\ s \in req[r].rows

SessionsOf(u) == {s \in Sids : Exists(s) /\ sess[s].user = u}

\* Slip: only the sessions past their second factor are revoked.
UnrevokedInUse == {s \in Sids : Live(s) /\ sess[s].level = "full"}
Unrevoked == {s \in Sids : Live(s)}

\* An operation that will mint a session begins.
StartMinting(r, op, u, n) ==
    Start(r, [op |-> op, user |-> u, link |-> n, since |-> epoch, met |-> CustomerLocked])

\* createSession, and createSession followed by stepUp in one transaction.
Mint(r, level) ==
    \E s \in Sids :
        /\ sess[s] = Unused
        /\ sess' = [sess EXCEPT ![s] =
              [user |-> req[r].user, level |-> level, revoked |-> FALSE,
               since |-> req[r].since, met |-> req[r].met]]

\* invite_token_hash is overwritten, the link mailed.
Invite(u, page) ==
    /\ Len(links[u]) < MaxLinks
    /\ links' = [links EXCEPT ![u] = Append(@, [page |-> page])]

-----------------------------------------------------------------------------
\* customers.create has committed and its e-mail has gone out.
Init ==
    /\ status = "active"
    /\ user = [u \in Users |-> [password |-> FALSE, factor |-> FALSE, used |-> FALSE,
                                expired |-> FALSE]]
    /\ links = [u \in Users |-> <<[page |-> "welcome"]>>]
    /\ sess = [s \in Sids |-> Unused]
    /\ req = [r \in Requests |-> Idle]
    /\ epoch = 0

(***************************************************************************)
(* Links.                                                                  *)
(***************************************************************************)

\* The row invite_token_hash leads to, if the link may still be used.
Usable(u, n) == n = Len(links[u]) /\ ~user[u].used /\ ~user[u].expired

\* Slip: the invite row is read without FOR UPDATE.
LockInviteUnlocked(r, u, n) ==
    /\ Usable(u, n)
    /\ StartMinting(r, "welcome", u, n)
    /\ UNCHANGED <<status, user, links, sess, epoch>>

\* completeCustomerWelcome locks the row of an unconsumed, unexpired invite.
LockInvite(r, u, n) ==
    /\ Usable(u, n)
    /\ ~UserLocked(u)
    /\ StartMinting(r, "welcome", u, n)
    /\ UNCHANGED <<status, user, links, sess, epoch>>

\* It sets password and factor, consumes the invite, mints a full session.
CompleteWelcome(r) ==
    /\ req[r].op = "welcome"
    /\ LET u == req[r].user IN
          /\ user' = [user EXCEPT ![u].password = TRUE, ![u].factor = TRUE, ![u].used = TRUE]
          /\ Mint(r, "full")
    /\ End(r)
    /\ UNCHANGED <<status, links, epoch>>

\* completePasswordReset finds the row by its link, joined to the customer, who must be
\* active.  The lock is on the user alone ...
BeginReset(r, u, n) ==
    /\ n = Len(links[u])
    /\ status = "active"
    /\ StartMinting(r, "waiting", u, n)
    /\ UNCHANGED <<status, user, links, sess, epoch>>

\* ... and when it is granted the user's row is read again but not the customer's: the
\* link must be usable, the factor enrolled and the code right.
LockReset(r) ==
    /\ req[r].op = "waiting"
    /\ ~UserLocked(req[r].user)
    /\ Usable(req[r].user, req[r].link)
    /\ user[req[r].user].factor
    /\ req' = [req EXCEPT ![r].op = "reset"]
    /\ UNCHANGED <<status, user, links, sess, epoch>>

CompleteReset(r) ==
    /\ req[r].op = "reset"
    /\ LET u == req[r].user IN
          /\ user' = [user EXCEPT ![u].password = TRUE, ![u].used = TRUE]
          /\ Mint(r, "full")
    /\ End(r)
    /\ UNCHANGED <<status, links, epoch>>

\* requestCustomerPasswordReset reads the row and the customer's status ...
RequestReset(r, u) ==
    /\ status = "active"
    /\ Start(r, [op |-> "request", user |-> u])
    /\ UNCHANGED <<status, user, links, sess, epoch>>

\* ... and then overwrites the link and mails the new one.
MailReset(r) ==
    /\ req[r].op = "request"
    /\ ~UserLocked(req[r].user)
    /\ user' = [user EXCEPT ![req[r].user].used = FALSE, ![req[r].user].expired = FALSE]
    /\ Invite(req[r].user, "reset")
    /\ End(r)
    /\ UNCHANGED <<status, sess, epoch>>

\* adminUpdateCustomerUserEmail: an unconsumed, unexpired link is replaced.  (If
\* there is none only the address changes, which is left out.)
CorrectAddress(u) ==
    /\ ~UserLocked(u)
    /\ ~user[u].used /\ ~user[u].expired
    /\ Invite(u, "welcome")
    /\ UNCHANGED <<status, user, sess, req, epoch>>

\* adminResetCustomerUserAuth has locked the row and run its DELETE on the
\* user's sessions; it commits with a fresh link.
ResetAuth(r, u) ==
    /\ ~UserLocked(u)
    /\ \A s \in SessionsOf(u) : ~SessionLocked(s)
    /\ Start(r, [op |-> "authreset", user |-> u, rows |-> SessionsOf(u)])
    /\ UNCHANGED <<status, user, links, sess, epoch>>

CommitResetAuth(r) ==
    /\ req[r].op = "authreset"
    /\ LET u == req[r].user IN
          /\ user' = [user EXCEPT ![u].password = FALSE, ![u].factor = FALSE,
                                  ![u].used = FALSE, ![u].expired = FALSE]
          /\ Invite(u, "welcome")
    /\ sess' = [s \in Sids |-> IF s \in req[r].rows THEN Gone ELSE sess[s]]
    /\ End(r)
    /\ UNCHANGED <<status, epoch>>

\* Seven days pass.
ExpireLink(u) ==
    /\ ~user[u].used
    /\ user' = [user EXCEPT ![u].expired = TRUE]
    /\ UNCHANGED <<status, links, sess, req, epoch>>

(***************************************************************************)
(* Login and logout.                                                       *)
(***************************************************************************)

\* verifyLogin reads user and status in one SELECT ...
VerifyLogin(r, u) ==
    /\ status = "active"
    /\ user[u].password
    /\ StartMinting(r, "login", u, 0)
    /\ UNCHANGED <<status, user, links, sess, epoch>>

\* ... and the route then creates a session that waits for its second factor.
CreateSession(r) ==
    /\ req[r].op = "login"
    /\ Mint(r, "half")
    /\ End(r)
    /\ UNCHANGED <<status, user, links, epoch>>

\* /login/2fa loads the session and the user and checks the code ...
CheckCode(r, s) ==
    /\ Live(s)
    /\ ~SessionLocked(s)
    /\ user[sess[s].user].factor
    /\ Start(r, [op |-> "second", sid |-> s])
    /\ UNCHANGED <<status, user, links, sess, epoch>>

\* ... and then stepUp updates the session by its id, whatever its state.
StepUp(r) ==
    /\ req[r].op = "second"
    /\ ~SessionLocked(req[r].sid)
    /\ sess' = IF Exists(req[r].sid) THEN [sess EXCEPT ![req[r].sid].level = "full"] ELSE sess
    /\ End(r)
    /\ UNCHANGED <<status, user, links, epoch>>

\* /logout, revokeSession, the lockout of /login/2fa.
RevokeSession(s) ==
    /\ Live(s)
    /\ ~SessionLocked(s)
    /\ sess' = [sess EXCEPT ![s].revoked = TRUE]
    /\ UNCHANGED <<status, user, links, req, epoch>>

\* Half an hour of silence, or twelve hours.
ExpireSession(s) ==
    /\ Exists(s)
    /\ ~SessionLocked(s)
    /\ sess' = [sess EXCEPT ![s] = Gone]
    /\ UNCHANGED <<status, user, links, req, epoch>>

(***************************************************************************)
(* The customer's life cycle.                                              *)
(***************************************************************************)

\* A suspension or archival meets the operations that are under way.
StartClosing(r, op) ==
    /\ req[r] = Idle
    /\ req' = [q \in Requests |->
          IF q = r THEN [op |-> op, rows |-> Unrevoked]
          ELSE IF Mints(q) THEN [req[q] EXCEPT !.met = TRUE] ELSE req[q]]

\* Slip: suspend and archive read the status without FOR UPDATE.
CloseUnlocked(r, op) ==
    /\ IF op = "suspend" THEN status = "active" ELSE status # "archived"
    /\ epoch < MaxEpochs
    /\ \A s \in Unrevoked : ~SessionLocked(s)
    /\ StartClosing(r, op)
    /\ UNCHANGED <<status, user, links, sess, epoch>>

\* suspendCustomer and archiveCustomer lock the customer, check its status,
\* set the new one and revoke the sessions they see ...
Close(r, op) ==
    /\ IF op = "suspend" THEN status = "active" ELSE status # "archived"
    /\ ~CustomerLocked
    /\ epoch < MaxEpochs
    /\ \A s \in Unrevoked : ~SessionLocked(s)
    /\ StartClosing(r, op)
    /\ UNCHANGED <<status, user, links, sess, epoch>>

\* ... and commit.
CommitClose(r) ==
    /\ req[r].op \in {"suspend", "archive"}
    /\ status' = IF req[r].op = "suspend" THEN "suspended" ELSE "archived"
    /\ sess' = [s \in Sids |-> IF s \in req[r].rows THEN [sess[s] EXCEPT !.revoked = TRUE]
                                                    ELSE sess[s]]
    /\ epoch' = epoch + 1
    /\ End(r)
    /\ UNCHANGED <<user, links>>

\* reactivateCustomer.
Reactivate ==
    /\ ~CustomerLocked
    /\ status = "suspended"
    /\ status' = "active"
    /\ UNCHANGED <<user, links, sess, req, epoch>>

\* A statement fails, the connection is cut or the process stops.
Abort(r) ==
    /\ req[r] # Idle
    /\ End(r)
    /\ UNCHANGED <<status, user, links, sess, epoch>>

Next ==
    \/ \E r \in Requests, u \in Users :
          \/ \E n \in 1 .. MaxLinks : LockInvite(r, u, n) \/ BeginReset(r, u, n)
          \/ RequestReset(r, u)
          \/ ResetAuth(r, u)
          \/ VerifyLogin(r, u)
    \/ \E r \in Requests :
          \/ LockReset(r)
          \/ CompleteWelcome(r) \/ CompleteReset(r) \/ MailReset(r)
          \/ CommitResetAuth(r) \/ CreateSession(r) \/ StepUp(r)
          \/ \E s \in Sids : CheckCode(r, s)
          \/ \E op \in {"suspend", "archive"} : Close(r, op)
          \/ CommitClose(r)
          \/ Abort(r)
    \/ \E u \in Users : CorrectAddress(u) \/ ExpireLink(u)
    \/ \E s \in Sids : RevokeSession(s) \/ ExpireSession(s)
    \/ Reactivate

Spec == Init /\ [][Next]_vars
-----------------------------------------------------------------------------
TypeOK ==
    /\ status \in {"active", "suspended", "archived"}
    /\ user \in [Users -> UserRow]
    /\ links \in [Users -> Seq(Link)]
    /\ sess \in [Sids -> Session \cup {Unused, Gone}]
    /\ req \in [Requests -> Operations]
    /\ epoch \in Nat

\* An archived customer stays archived, whatever suspension, reactivation or
\* archival was under way when it was archived.
ArchivedIsFinal == [][status = "archived" => status' = "archived"]_status

\* A link completes once and only while it is the user's last one: a reset or a
\* correction that commits while somebody is completing the link either comes
\* first and kills it, or finds it consumed.
OnlyTheLastLinkCompletes ==
    [][\A r \in Requests :
          req[r].op \in {"welcome", "reset"} /\ sess' # sess /\ req'[r] # req[r] =>
              /\ req[r].link = Len(links[req[r].user])
              /\ ~user[req[r].user].used]_vars

\* The comment in completeCustomerWelcome says its transaction leaves no
\* "never-revoked sid" when a suspension comes in between.  It may, and so may a reset
\* or a login: no lock is common to both.  But only an operation that overlapped the
\* suspension can mint one; every session from before it is over.
SurvivorsOverlapped ==
    \A s \in Sids : Live(s) /\ sess[s].since < epoch => sess[s].met

\* Why these hold.  The customer's row and each user's are held by one request at a
\* time; a suspension in flight knows every session but those minted by an operation
\* that met it; what was read under a user's lock still holds.
ClosersAlone == \A r, q \in Requests : Closes(r) /\ Closes(q) => r = q
HoldersAlone == \A r, q \in Requests, u \in Users : Holds(r, u) /\ Holds(q, u) => r = q
SuspendsActive == \A r \in Requests : req[r].op = "suspend" => status = "active"
MintersMeet ==
    \A r \in Requests : Mints(r) /\ (CustomerLocked \/ req[r].since < epoch) => req[r].met
ClosersKnow ==
    \A r \in Requests, s \in Sids : Closes(r) /\ Live(s) /\ ~sess[s].met => s \in req[r].rows
LinksAreLast ==
    \A r \in Requests :
        req[r].op \in {"welcome", "reset"} =>
            req[r].link = Len(links[req[r].user]) /\ ~user[req[r].user].used

AccountsInv ==
    /\ TypeOK
    /\ ClosersAlone /\ SuspendsActive /\ MintersMeet /\ ClosersKnow /\ SurvivorsOverlapped
    /\ HoldersAlone /\ LinksAreLast
=============================================================================
