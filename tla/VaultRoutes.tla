----------------------------- MODULE VaultRoutes -----------------------------
(***************************************************************************)
(* The pages of the vault: who may ask its services for what, and the      *)
(* edits of a credential (routes/customer/credentials.js,                  *)
(* routes/admin/credentials.js, the credential-requests.js of both and     *)
(* updateByCustomer and updateByAdmin of domain/credentials/service.js).   *)
(*                                                                         *)
(* A page checks its session, finds the row it is about and calls one      *)
(* service of the module Vault, later; an edit is a service of its own.    *)
(* Every step of a page is a step of Vault or leaves its variables alone.  *)
(* Of what is edited only the project is kept.  The trail of a credential  *)
(* is what the customer's activity feed says of it: each row has the start *)
(* of its transaction as its time and names a project, and the feed lists  *)
(* them by time.  There is one customer, so that the checks that a row is  *)
(* the customer's hold.                                                    *)
(***************************************************************************)
EXTENDS Vault

CONSTANTS
    Edits,      \* HTTP requests that edit a credential
    Projects    \* projects of the customer

ASSUME EditsAreFinite == IsFiniteSet(Edits)

VARIABLES
    page,       \* page[r]: what r is about to ask a service for
    stepped,    \* stepped[s]: whether step_up_at is less than five minutes old
    project,    \* project[c]: the project_id of the committed row
    edit,       \* edit[e]: the edit that e is in the middle of
    told,       \* told[c]: the newest audit row about c, its time and project
    crossed     \* history: credentials whose newest row is of two edits that crossed

edits     == <<project, edit, told, crossed>>
routeVars == <<vars, page, stepped, edits>>
-----------------------------------------------------------------------------
Pages ==
    [for : {"nothing", "request", "add"}]
        \cup [for : {"fulfil", "decline", "cancel"}, ask : Asks]
        \cup [for : {"delete"}, cred : Credentials]
        \cup [for : {"reveal"}, session : Sessions, cred : Credentials]
NoPage == [for |-> "nothing"]

CompanyWide == "company-wide"
Scopes  == Projects \cup {CompanyWide}
AuditRow == [at : Nat, project : Scopes]

\* stale: whether the credential has been moved since it was read.
Editing ==
    [op : {"idle", "done"}]
        \cup [op : {"edit"}, step : {"begun"}, cred : Credentials, at : Nat]
        \cup [op : {"edit"}, step : {"found"}, cred : Credentials, at : Nat,
              from : Scopes, stale : BOOLEAN]

\* requireAdminSession, requireCustomerSession.
SignedIn(s) ==
    /\ s \notin revoked
    /\ s \in CustomerSessions => status = "active"

RouteInit ==
    /\ Init
    /\ page = [r \in Requests |-> NoPage]
    /\ stepped = [s \in AdminSessions |-> TRUE]
    /\ project = [c \in Credentials |-> CompanyWide]
    /\ edit = [e \in Edits |-> Idle]
    /\ told = [c \in Credentials |-> [at |-> 0, project |-> CompanyWide]]
    /\ crossed = {}

(***************************************************************************)
(* Pages that call a service.  Nothing of the session is looked at again,  *)
(* but for the vault's lock by the views.                                  *)
(***************************************************************************)
Visit(r, asking) ==
    /\ req[r] = Idle /\ page[r] = NoPage
    /\ page' = [page EXCEPT ![r] = asking]
    /\ UNCHANGED <<vars, stepped, edits>>

PostRequestOfAdmin(r, s) ==
    /\ s \in AdminSessions /\ SignedIn(s)
    /\ Visit(r, [for |-> "request"])

PostFulfil(r, s, q) ==
    /\ s \in CustomerSessions /\ SignedIn(s)
    /\ ask[q].status # "none"
    /\ Visit(r, [for |-> "fulfil", ask |-> q])

PostNotApplicable(r, s, q) ==
    /\ s \in CustomerSessions /\ SignedIn(s)
    /\ ask[q].status # "none"
    /\ Visit(r, [for |-> "decline", ask |-> q])

PostCancel(r, s, q) ==
    /\ s \in AdminSessions /\ SignedIn(s)
    /\ ask[q].status # "none"
    /\ Visit(r, [for |-> "cancel", ask |-> q])

PostCredentialOfCustomer(r, s) ==
    /\ s \in CustomerSessions /\ SignedIn(s)
    /\ Visit(r, [for |-> "add"])

\* An admin who adds a credential needs an open vault.
PostCredentialOfAdmin(r, s) ==
    /\ s \in AdminSessions /\ SignedIn(s)
    /\ vault[s] = "open"
    /\ Visit(r, [for |-> "add"])

PostDeleteOfCustomer(r, s, c) ==
    /\ s \in CustomerSessions /\ SignedIn(s)
    /\ cred[c] = "live"
    /\ Visit(r, [for |-> "delete", cred |-> c])

PostDeleteOfAdmin(r, s, c) ==
    /\ s \in AdminSessions /\ SignedIn(s)
    /\ cred[c] = "live"
    /\ Visit(r, [for |-> "delete", cred |-> c])

\* The page with ?mode=reveal sends one whose vault is locked to the step-up.
RevealToCustomer(r, s, c) ==
    /\ s \in CustomerSessions /\ SignedIn(s)
    /\ cred[c] = "live" /\ vault[s] = "open"
    /\ Visit(r, [for |-> "reveal", session |-> s, cred |-> c])

RevealToAdmin(r, s, c) ==
    /\ s \in AdminSessions /\ SignedIn(s)
    /\ cred[c] = "live" /\ vault[s] = "open"
    /\ Visit(r, [for |-> "reveal", session |-> s, cred |-> c])

\* What a page asks for begins.
Call(r) ==
    /\ \/ page[r].for = "request" /\ \E q \in Asks : OpenAsk(r, q)
       \/ page[r].for = "fulfil" /\ \E c \in Credentials : Fulfil(r, page[r].ask, c)
       \/ page[r].for \in {"decline", "cancel"} /\ Resolve(r, page[r].ask, page[r].for)
       \/ page[r].for = "add" /\ \E c \in Credentials : Add(r, c)
       \/ page[r].for = "delete" /\ FindToDelete(r, page[r].cred)
       \/ page[r].for = "reveal" /\ Gate(r, page[r].session, page[r].cred)
    /\ page' = [page EXCEPT ![r] = NoPage]
    /\ UNCHANGED <<stepped, edits>>

\* A new credential is in the project that the form names; one that fulfils an
\* ask is company-wide.
CommitAddTo(r, scope) ==
    /\ CommitAdd(r)
    /\ project' = [project EXCEPT ![req[r].cred] = scope]
    /\ told' = [told EXCEPT ![req[r].cred] = [at |-> 0, project |-> scope]]
    /\ UNCHANGED <<page, stepped, edit, crossed>>

(***************************************************************************)
(* Edits: the form with label and contents, and the form with the project. *)
(***************************************************************************)

\* The page has found the row, and the transaction begins: now() from here on.
\* Which of the forms it is shows at the end.
BeginEdit(e, c) ==
    /\ edit[e] = Idle
    /\ cred[c] = "live"
    /\ edit' = [edit EXCEPT ![e] = [op |-> "edit", step |-> "begun", cred |-> c,
                                    at |-> 1 + Cardinality({x \in Edits : edit[x] # Idle})]]
    /\ UNCHANGED <<vars, page, stepped, project, told, crossed>>

PostEditOfCustomer(e, s, c) ==
    /\ s \in CustomerSessions /\ SignedIn(s)
    /\ BeginEdit(e, c)

\* updateByAdmin needs a second factor less than five minutes old.
PostEditOfAdmin(e, s, c) ==
    /\ s \in AdminSessions /\ SignedIn(s)
    /\ stepped[s]
    /\ BeginEdit(e, c)

\* The row is read by a plain SELECT.
FindToEdit(e) ==
    /\ edit[e].op = "edit" /\ edit[e].step = "begun"
    /\ cred[edit[e].cred] = "live"
    /\ edit' = [edit EXCEPT ![e] = [op |-> "edit", step |-> "found", cred |-> edit[e].cred,
                    at |-> edit[e].at, from |-> project[edit[e].cred], stale |-> FALSE]]
    /\ UNCHANGED <<vars, page, stepped, project, told, crossed>>

\* The UPDATE waits for a delete of the row, and then finds none.
CanWrite(e) ==
    /\ edit[e].op = "edit" /\ edit[e].step = "found"
    /\ ~Deleting(edit[e].cred)
EndEdit(e) == edit' = [edit EXCEPT ![e] = Done]

\* An edit that began after e has committed: what e tells is not the newest.
Overtaken(e) == told[edit[e].cred].at > edit[e].at
Told(e, scope) ==
    told' = IF Overtaken(e) THEN told
            ELSE [told EXCEPT ![edit[e].cred] = [at |-> edit[e].at, project |-> scope]]

ToldFromRead(e) ==
    /\ Told(e, edit[e].from)
    /\ crossed' = CASE Overtaken(e)   -> crossed
                     [] edit[e].stale -> crossed \cup {edit[e].cred}
                     [] OTHER         -> crossed \ {edit[e].cred}

\* Slip: a form without a project moves the credential out of it.
SaveContentsUnscoped(e) ==
    /\ CanWrite(e)
    /\ project' = [project EXCEPT ![edit[e].cred] = CompanyWide]
    /\ ToldFromRead(e)
    /\ EndEdit(e)
    /\ UNCHANGED <<vars, page, stepped>>

\* Label and contents leave the project as it is (projectIdProvided is false), and
\* the audit row names the project that was read.
SaveContents(e) ==
    /\ CanWrite(e)
    /\ ToldFromRead(e)
    /\ EndEdit(e)
    /\ UNCHANGED <<vars, page, stepped, project>>

\* The form with the project: the audit row names the project of the form, whether
\* or not there still was a row to write to.
SaveScope(e, scope) ==
    /\ CanWrite(e)
    /\ LET c == edit[e].cred IN
          /\ project' = IF cred[c] = "live" THEN [project EXCEPT ![c] = scope] ELSE project
          /\ Told(e, scope)
          /\ crossed' = IF Overtaken(e) THEN crossed \cup {c} ELSE crossed \ {c}
          /\ edit' = [x \in Edits |->
                CASE x = e -> Done
                  [] x # e /\ edit[x].op = "edit" /\ edit[x].step = "found" /\ edit[x].cred = c
                        -> [edit[x] EXCEPT !.stale = TRUE]
                  [] OTHER -> edit[x]]
    /\ UNCHANGED <<vars, page, stepped>>

\* A check after the read fails, or the process stops.
AbortEdit(e) ==
    /\ edit[e].op = "edit"
    /\ EndEdit(e)
    /\ UNCHANGED <<vars, page, stepped, project, told, crossed>>

(***************************************************************************)
(* Step-up, which opens the vault and lets an admin edit for five minutes. *)
(***************************************************************************)
PostStepUp(s, code) ==
    /\ SignedIn(s)
    /\ StepUp(s, code)
    /\ stepped' = [x \in AdminSessions |->
                      stepped[x] \/ (x = s /\ answer'[s][2] = "opened")]
    /\ UNCHANGED <<page, edits>>

StepLapses(s) ==
    /\ stepped[s]
    /\ stepped' = [stepped EXCEPT ![s] = FALSE]
    /\ UNCHANGED <<vars, page, edits>>

\* Whatever opens the vault opens it for five minutes, and a step-up does: the
\* vault of a session lapses no earlier than its step.
LapseOf(s) ==
    /\ s \in AdminSessions => ~stepped[s]
    /\ Lapse(s)

PageOfRequest(r, s) ==
    \/ PostRequestOfAdmin(r, s)
    \/ PostCredentialOfCustomer(r, s) \/ PostCredentialOfAdmin(r, s)
    \/ \E q \in Asks :
          PostFulfil(r, s, q) \/ PostNotApplicable(r, s, q) \/ PostCancel(r, s, q)
    \/ \E c \in Credentials :
          \/ PostDeleteOfCustomer(r, s, c) \/ PostDeleteOfAdmin(r, s, c)
          \/ RevealToCustomer(r, s, c) \/ RevealToAdmin(r, s, c)

ServiceStep(r) ==
    \/ CommitAsk(r) \/ CommitFulfil(r)
    \/ Delete(r) \/ CommitDelete(r)
    \/ Read(r) \/ CommitView(r) \/ Show(r)
    \/ Abort(r)

EditStep(e) ==
    \/ \E s \in Sessions, c \in Credentials :
          PostEditOfCustomer(e, s, c) \/ PostEditOfAdmin(e, s, c)
    \/ FindToEdit(e)
    \/ SaveContents(e)
    \/ \E scope \in Scopes : SaveScope(e, scope)
    \/ AbortEdit(e)

RouteNext ==
    \/ (Suspend \/ Reactivate) /\ UNCHANGED <<page, stepped, edits>>
    \/ \E r \in Requests :
          \/ \E s \in Sessions : PageOfRequest(r, s)
          \/ Call(r)
          \/ ServiceStep(r) /\ UNCHANGED <<page, stepped, edits>>
          \/ \E scope \in Scopes : CommitAddTo(r, scope)
    \/ \E e \in Edits : EditStep(e)
    \/ \E s \in Sessions :
          \/ (LapseOf(s) \/ LogIn(s)) /\ UNCHANGED <<page, stepped, edits>>
          \/ \E code \in {"right", "wrong"} : PostStepUp(s, code)
    \/ \E s \in AdminSessions : StepLapses(s)

RouteSpec == RouteInit /\ [][RouteNext]_routeVars
-----------------------------------------------------------------------------
RouteTypeOK ==
    /\ page \in [Requests -> Pages]
    /\ stepped \in [AdminSessions -> BOOLEAN]
    /\ project \in [Credentials -> Scopes]
    /\ edit \in [Edits -> Editing]
    /\ told \in [Credentials -> AuditRow]
    /\ crossed \subseteq Credentials

\* Customer and admin move a credential between projects, edit it and delete it
\* at the same time: the newest row of the customer's activity feed that names a
\* project of the credential names the one it is in, unless that row is of contents
\* saved over a move that the edit had not read, or a move was committed after it
\* whose transaction had begun before.
TrailTellsProject ==
    \A c \in Credentials :
        cred[c] = "live" /\ c \notin crossed => told[c].project = project[c]

\* Why this holds.  What is edited was created, and an edit knows the project of a
\* credential that has not been moved since it was read.
EditsAreOfCreated ==
    \A e \in Edits : edit[e].op = "edit" => cred[edit[e].cred] # "none"
ReadsAreFresh ==
    \A e \in Edits :
        /\ edit[e].op = "edit" /\ edit[e].step = "found" /\ ~edit[e].stale
        /\ cred[edit[e].cred] = "live"
        => edit[e].from = project[edit[e].cred]
=============================================================================
