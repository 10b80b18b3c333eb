-------------------------------- MODULE Vault --------------------------------
(***************************************************************************)
(* The credential vault of one customer: credentials and the requests an   *)
(* admin makes for them, the views of their contents, and the vault lock   *)
(* of the sessions that view them (domain/credentials/service.js,          *)
(* domain/credential-requests/service.js, lib/auth/vault-lock.js,          *)
(* routes/customer/step-up.js, routes/admin/step-up.js).                   *)
(*                                                                         *)
(* A credential request of the code is an "ask" here; a request is one     *)
(* HTTP request, of one operation.  A transaction that holds an ask or a   *)
(* credential FOR UPDATE, or has deleted it, holds it until it ends.       *)
(* Contents are encrypted with the customer's DEK throughout, and are left *)
(* out, as are labels, scopes, edits and the needs_update flag.            *)
(***************************************************************************)
EXTENDS Integers, FiniteSets

CONSTANTS
    Asks,               \* credential requests, each used once
    Credentials,        \* credentials, each used once
    AdminSessions,      \* sessions of admins
    CustomerSessions,   \* sessions of users of the customer
    Requests            \* HTTP requests, each of one operation

ASSUME SessionsDiffer == AdminSessions \cap CustomerSessions = {}

VARIABLES
    status,     \* customers.status
    ask,        \* ask[q]: the committed credential_requests row
    cred,       \* cred[c]: whether the committed credentials row exists
    revoked,    \* sessions with revoked_at
    vault,      \* vault[s]: "open" if vault_unlocked_at is recent, "locked" if not
    req,        \* req[r]: the operation r is in the middle of
    made,       \* history: the credentials created to fulfil an ask
    audited,    \* history: views with a committed audit row
    shown,      \* history: views whose contents have left the server
    answer      \* answer[s]: what the last step-up of s was answered

tables == <<status, revoked, ask, cred>>
trail  == <<made, audited, shown>>
vars == <<tables, vault, req, trail, answer>>

-----------------------------------------------------------------------------
Sessions == AdminSessions \cup CustomerSessions
Resolved == {"fulfilled", "not_applicable", "cancelled"}

\* filled: fulfilled_credential_id, a set of at most one.
Ask == [status : {"none", "open"} \cup Resolved, filled : SUBSET Credentials]

Operations ==
    [op : {"idle", "done"}]
        \cup [op : {"fulfil"}, ask : Asks, cred : Credentials]
        \cup [op : {"decline", "cancel", "open"}, ask : Asks]
        \cup [op : {"add"}, cred : Credentials]
        \cup [op : {"view"}, step : {"gated", "read", "committed"},
              session : Sessions, cred : Credentials]
        \cup [op : {"delete"}, step : {"read", "deleted"}, cred : Credentials]

Idle == [op |-> "idle"]
Done == [op |-> "done"]
Start(r, operation) == req[r] = Idle /\ req' = [req EXCEPT ![r] = operation]
End(r) == req' = [req EXCEPT ![r] = Done]

Resolving(r) == req[r].op \in {"fulfil", "decline", "cancel"}
Creating(r)  == req[r].op \in {"fulfil", "add"}

AskLocked(q) == \E r \in Requests : Resolving(r) /\ req[r].ask = q
Deleting(c) ==
    \E r \in Requests : req[r].op = "delete" /\ req[r].step = "deleted" /\ req[r].cred = c

\* Identifiers that no row and no transaction under way has taken.
Fresh(c) ==
    /\ cred[c] = "none"
    /\ \A r \in Requests : Creating(r) => req[r].cred # c
Unasked(q) ==
    /\ ask[q].status = "none"
    /\ \A r \in Requests : req[r].op = "open" => req[r].ask # q

\* What the secret of a session's second factor is encrypted with: the DEK for
\* a customer's user (completeCustomerWelcome, regenTotp), the KEK for an admin.
FactorKey(s) == IF s \in CustomerSessions THEN "dek" ELSE "kek"
-----------------------------------------------------------------------------
\* Everybody has just logged in, which opens the vault; some asks are open.
Init ==
    /\ status = "active"
    /\ revoked = {}
    /\ ask \in [Asks -> {[status |-> st, filled |-> {}] : st \in {"none", "open"}}]
    /\ cred = [c \in Credentials |-> "none"]
    /\ vault = [s \in Sessions |-> "open"]
    /\ req = [r \in Requests |-> Idle]
    /\ made = [q \in Asks |-> {}]
    /\ audited = {}
    /\ shown = {}
    /\ answer = [s \in Sessions |-> <<"none", "none">>]

\* suspendCustomer revokes the sessions of the customer's users ...
Suspend ==
    /\ status = "active"
    /\ status' = "suspended"
    /\ revoked' = revoked \cup CustomerSessions
    /\ UNCHANGED <<ask, cred, vault, req, trail, answer>>

\* ... and reactivateCustomer leaves them revoked.
Reactivate ==
    /\ status = "suspended"
    /\ status' = "active"
    /\ UNCHANGED <<revoked, ask, cred, vault, req, trail, answer>>

(***************************************************************************)
(* Asks and credentials.                                                   *)
(***************************************************************************)

\* credential-requests.createByAdmin and credentials.createByCustomer or
\* createByAdmin read the status, without a lock, and insert.
OpenAsk(r, q) ==
    /\ status = "active"
    /\ Unasked(q)
    /\ Start(r, [op |-> "open", ask |-> q])
    /\ UNCHANGED <<tables, vault, trail, answer>>

Add(r, c) ==
    /\ status = "active"
    /\ Fresh(c)
    /\ Start(r, [op |-> "add", cred |-> c])
    /\ UNCHANGED <<tables, vault, trail, answer>>

\* Slip: the ask is read without FOR UPDATE.
FulfilUnlocked(r, q, c) ==
    /\ ask[q].status = "open"
    /\ status = "active"
    /\ Fresh(c)
    /\ Start(r, [op |-> "fulfil", ask |-> q, cred |-> c])
    /\ UNCHANGED <<tables, vault, trail, answer>>

\* fulfilByCustomer, createByAdminFromRequest: lock the ask, check that it is
\* open and the customer active.
Fulfil(r, q, c) ==
    /\ ask[q].status = "open"
    /\ ~AskLocked(q)
    /\ status = "active"
    /\ Fresh(c)
    /\ Start(r, [op |-> "fulfil", ask |-> q, cred |-> c])
    /\ UNCHANGED <<tables, vault, trail, answer>>

\* Slip: the ask is found by a plain SELECT.
ResolveUnlocked(r, q, op) ==
    /\ ask[q].status = "open"
    /\ Start(r, [op |-> op, ask |-> q])
    /\ UNCHANGED <<tables, vault, trail, answer>>

\* markNotApplicableByCustomer, cancelByAdmin: the same, whatever the customer.
Resolve(r, q, op) ==
    /\ ask[q].status = "open"
    /\ ~AskLocked(q)
    /\ Start(r, [op |-> op, ask |-> q])
    /\ UNCHANGED <<tables, vault, trail, answer>>

CommitAsk(r) ==
    /\ req[r].op \in {"open", "decline", "cancel"}
    /\ ask' = [ask EXCEPT ![req[r].ask].status =
                 CASE req[r].op = "open"    -> "open"
                   [] req[r].op = "decline" -> "not_applicable"
                   [] req[r].op = "cancel"  -> "cancelled"]
    /\ End(r)
    /\ UNCHANGED <<status, revoked, cred, vault, trail, answer>>

CommitAdd(r) ==
    /\ req[r].op = "add"
    /\ cred' = [cred EXCEPT ![req[r].cred] = "live"]
    /\ End(r)
    /\ UNCHANGED <<status, revoked, ask, vault, trail, answer>>

CommitFulfil(r) ==
    /\ req[r].op = "fulfil"
    /\ LET q == req[r].ask  c == req[r].cred IN
          /\ cred' = [cred EXCEPT ![c] = "live"]
          /\ ask' = [ask EXCEPT ![q] = [status |-> "fulfilled", filled |-> {c}]]
          /\ made' = [made EXCEPT ![q] = @ \cup {c}]
    /\ End(r)
    /\ UNCHANGED <<status, revoked, vault, audited, shown, answer>>

\* deleteByAdmin, deleteByCustomer read the row ...
FindToDelete(r, c) ==
    /\ cred[c] = "live"
    /\ Start(r, [op |-> "delete", step |-> "read", cred |-> c])
    /\ UNCHANGED <<tables, vault, trail, answer>>

\* ... delete it, waiting for another delete of it, if it is still there ...
Delete(r) ==
    /\ req[r].op = "delete" /\ req[r].step = "read"
    /\ ~Deleting(req[r].cred)
    /\ req' = [req EXCEPT ![r].step = "deleted"]
    /\ UNCHANGED <<tables, vault, trail, answer>>

\* Slip: the foreign key lets the pointer dangle.
CommitDeleteDangling(r) ==
    /\ req[r].op = "delete" /\ req[r].step = "deleted"
    /\ cred' = [cred EXCEPT ![req[r].cred] = "deleted"]
    /\ End(r)
    /\ UNCHANGED <<status, revoked, ask, vault, trail, answer>>

\* ... and the foreign key clears the pointer of the ask it fulfilled.
CommitDelete(r) ==
    /\ req[r].op = "delete" /\ req[r].step = "deleted"
    /\ cred' = [cred EXCEPT ![req[r].cred] = "deleted"]
    /\ ask' = [q \in Asks |-> [ask[q] EXCEPT !.filled = @ \ {req[r].cred}]]
    /\ End(r)
    /\ UNCHANGED <<status, revoked, vault, trail, answer>>

(***************************************************************************)
(* Views.                                                                  *)
(***************************************************************************)

\* view, viewByCustomer: isVaultUnlocked, before the transaction, which does not
\* look at revoked_at ...
Gate(r, s, c) ==
    /\ vault[s] = "open"
    /\ Start(r, [op |-> "view", step |-> "gated", session |-> s, cred |-> c])
    /\ UNCHANGED <<tables, vault, trail, answer>>

\* ... which reads the row and, for a customer, the status, and decrypts ...
Read(r) ==
    /\ req[r].op = "view" /\ req[r].step = "gated"
    /\ cred[req[r].cred] = "live"
    /\ req[r].session \in CustomerSessions => status = "active"
    /\ req' = [req EXCEPT ![r].step = "read"]
    /\ UNCHANGED <<tables, vault, trail, answer>>

\* ... writes the audit row, slides the vault's window and commits ...
CommitView(r) ==
    /\ req[r].op = "view" /\ req[r].step = "read"
    /\ audited' = audited \cup {<<r, req[r].session, req[r].cred>>}
    /\ vault' = [vault EXCEPT ![req[r].session] = "open"]
    /\ req' = [req EXCEPT ![r].step = "committed"]
    /\ UNCHANGED <<tables, made, shown, answer>>

\* Slip: the contents are returned from within the transaction.
ShowEarly(r) ==
    /\ req[r].op = "view" /\ req[r].step \in {"read", "committed"}
    /\ shown' = shown \cup {<<r, req[r].session, req[r].cred>>}
    /\ End(r)
    /\ UNCHANGED <<tables, vault, made, audited, answer>>

\* ... before the contents are sent.
Show(r) ==
    /\ req[r].op = "view" /\ req[r].step = "committed"
    /\ shown' = shown \cup {<<r, req[r].session, req[r].cred>>}
    /\ End(r)
    /\ UNCHANGED <<tables, vault, made, audited, answer>>

\* A check after a read fails, a statement fails, the process stops.
Abort(r) ==
    /\ req[r] \notin {Idle, Done}
    /\ End(r)
    /\ UNCHANGED <<tables, vault, trail, answer>>

(***************************************************************************)
(* The vault lock.                                                         *)
(***************************************************************************)

\* Five minutes without a view.
Lapse(s) ==
    /\ vault[s] = "open"
    /\ vault' = [vault EXCEPT ![s] = "locked"]
    /\ UNCHANGED <<tables, req, trail, answer>>

\* A login with a second factor, which opens the vault.  The new session stands for
\* the revoked one.
LogIn(s) ==
    /\ s \in revoked
    /\ status = "active"
    /\ revoked' = revoked \ {s}
    /\ vault' = [vault EXCEPT ![s] = "open"]
    /\ UNCHANGED <<status, ask, cred, req, trail, answer>>

\* POST step-up of either surface: decrypt the secret with the KEK, verify the
\* code, open the vault.  Decryption under another key throws.
StepUp(s, code) ==
    /\ answer' = [answer EXCEPT ![s] =
          CASE FactorKey(s) # "kek" -> <<code, "error">>
            [] FactorKey(s) = "kek" /\ code = "right" -> <<code, "opened">>
            [] OTHER -> <<code, "refused">>]
    /\ vault' = IF answer'[s][2] = "opened" THEN [vault EXCEPT ![s] = "open"] ELSE vault
    /\ UNCHANGED <<tables, req, trail>>

Next ==
    \/ Suspend \/ Reactivate
    \/ \E r \in Requests :
          \/ \E q \in Asks :
                \/ OpenAsk(r, q)
                \/ \E c \in Credentials : Fulfil(r, q, c)
                \/ \E op \in {"decline", "cancel"} : Resolve(r, q, op)
          \/ \E c \in Credentials :
                \/ Add(r, c) \/ FindToDelete(r, c)
                \/ \E s \in Sessions : Gate(r, s, c)
          \/ CommitAsk(r) \/ CommitAdd(r) \/ CommitFulfil(r)
          \/ Delete(r) \/ CommitDelete(r)
          \/ Read(r) \/ CommitView(r) \/ Show(r)
          \/ Abort(r)
    \/ \E s \in Sessions :
          \/ Lapse(s) \/ LogIn(s)
          \/ \E code \in {"right", "wrong"} : StepUp(s, code)

Spec == Init /\ [][Next]_vars
-----------------------------------------------------------------------------
Views == Requests \X Sessions \X Credentials

TypeOK ==
    /\ status \in {"active", "suspended"}
    /\ ask \in [Asks -> Ask]
    /\ cred \in [Credentials -> {"none", "live", "deleted"}]
    /\ revoked \subseteq Sessions
    /\ vault \in [Sessions -> {"open", "locked"}]
    /\ req \in [Requests -> Operations]
    /\ made \in [Asks -> SUBSET Credentials]
    /\ audited \subseteq Views
    /\ shown \subseteq Views
    /\ answer \in [Sessions -> {"none", "right", "wrong"}
                                  \X {"none", "opened", "refused", "error"}]

\* Customer and admin may fulfil, decline and cancel one ask at the same time:
\* the first to commit decides, and nothing decides again.
AsksResolveOnce ==
    [][\A q \in Asks : ask[q].status \in Resolved => ask'[q].status = ask[q].status]_ask

\* An ask has led to one credential if it was fulfilled, and otherwise to none:
\* no loser of a race leaves a credential behind.
OneCredentialPerAsk ==
    \A q \in Asks : Cardinality(made[q]) = IF ask[q].status = "fulfilled" THEN 1 ELSE 0

\* A fulfilled ask without a pointer means that its credential was deleted, as
\* the read side takes it (migration 0007), and a pointer leads to a live one.
PointerTellsDeletion ==
    \A q \in Asks : ask[q].status = "fulfilled" =>
        ask[q].filled = {c \in made[q] : cred[c] = "live"}

\* The trust contract of credentials.view: contents that left the server have an
\* audit row that cannot be lost any more, wherever the request failed.
ViewsAreAudited == shown \subseteq audited

\* Why these hold.  An ask that is being resolved is held by one request and is
\* still open; one that is being opened is not there yet, and nobody else opens it.
AsksAreHeld ==
    /\ \A r \in Requests : Resolving(r) => ask[req[r].ask].status = "open"
    /\ \A r \in Requests : req[r].op = "open" => ask[req[r].ask].status = "none"
    /\ \A r, x \in Requests :
          /\ Resolving(r) /\ Resolving(x) /\ req[r].ask = req[x].ask => r = x
          /\ req[r].op = "open" /\ req[x].op = "open" /\ req[r].ask = req[x].ask => r = x

\* A credential that is being created is new, and no ask has led to it; one
\* that is being deleted is not.
CredentialsAreNew ==
    /\ \A r \in Requests : Creating(r) => cred[req[r].cred] = "none"
    /\ \A r \in Requests : req[r].op = "delete" => cred[req[r].cred] # "none"
    /\ \A r, x \in Requests :
          Creating(r) /\ Creating(x) /\ req[r].cred = req[x].cred => r = x
    /\ \A q \in Asks : \A c \in made[q] : cred[c] # "none"

MadeByFulfilment ==
    \A q \in Asks :
        /\ ask[q].status = "fulfilled" => \E c \in Credentials : made[q] = {c}
        /\ ask[q].status # "fulfilled" => made[q] = {}

\* A view that has committed, and has still to be shown, is audited.
CommittedViewsAreAudited ==
    \A r \in Requests : req[r].op = "view" /\ req[r].step = "committed" =>
        <<r, req[r].session, req[r].cred>> \in audited

VaultInv ==
    /\ TypeOK
    /\ AsksAreHeld
    /\ CredentialsAreNew
    /\ MadeByFulfilment
    /\ PointerTellsDeletion
    /\ CommittedViewsAreAudited
    /\ ViewsAreAudited

\* What lib/auth/vault-lock.js says of a lapsed vault: a fresh second factor
\* opens it for the next view.
RightCodeOpensVault ==
    \A s \in Sessions : answer[s][1] = "right" => answer[s][2] = "opened"
=============================================================================
