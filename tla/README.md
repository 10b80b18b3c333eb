# The DB Studio portal in TLA+

`dbstudio_portal` is a client portal: a Node process (Fastify, Kysely) over one
PostgreSQL database, a second process that renders PDFs, and a transactional e-mail
provider. This directory holds TLA+ models of the parts of it in which the order of things
matters, the TLC runs that check them on small instances, and TLAPS proofs of what
matters most.

## Reading the code as a state machine

The portal is one process. Its concurrency comes from four places, and every
module is built from them:

* **Overlapping requests.** A handler runs to its next `await`; then another may run. Every
  database call is an `await`.
* **Transactions that are open together.** PostgreSQL runs READ COMMITTED. A
  statement sees what was committed when it began, plus its own transaction's writes. An
  UPDATE, DELETE or `SELECT ... FOR UPDATE` waits for the row's holder and then
  looks at the row again; a plain SELECT waits for nobody.
* **Two timers** in the process: the e-mail outbox (every 5 s) and the digest
  worker (every 60 s). `setInterval` starts a tick whether or not the last one has
  ended, so ticks overlap.
* **Failure.** A statement fails or times out, a deadlock is broken, a
  connection is cut, the process restarts: a transaction rolls back, and what it did outside the
  database (a message handed to the provider, a file on disk) stays done.

A transaction is modelled by as many actions as there are points in it at which
another transaction can interfere, and by its *uncommitted* state: the rows it
holds locked and the rows it has written. A transaction nobody can look into is one action.

## Inventory

### The parts that keep state

| Component | State | Operations | Hard behaviour | What makes it correct | Module |
|---|---|---|---|---|---|
| Digest pipeline (`lib/digest.js`, `domain/digest`) | `pending_digest_items`, `digest_schedules` | `recordForDigest` inside almost every business transaction; a tick of the worker | recorders coalesce into rows that another recorder or a tick holds; lock cycles; a sliding timer with a cap | a committed event is told once, none is stranded, the cap holds | `Digest` |
| E-mail outbox (`domain/email-outbox`, `lib/email.js`) | `email_outbox` | `enqueue`; a tick claims, sends, marks | a provider that answers late or never, inside an open transaction; overlapping ticks; retries | no message lost; a second copy only where nothing else was possible | `EmailOutbox` |
| Customer accounts and sessions (`domain/customers`, `lib/auth/session.js`, `routes/public`) | `customers.status`, `customer_users`, `sessions` | create, invite, welcome, reset, login in two steps, admin reset, address correction, suspend, reactivate, archive | a session minted while it is being revoked; links replaced while they are used | archived is final; only the last link works; what survives a suspension overlapped it | `Accounts` |
| Profiles and e-mail changes (`domain/customer-users`, `domain/admins`, the profile routes) | `email_change_requests`, `customer_users`, `admins` | request, verify, cancel, revert, correct | uniqueness over two tables, reverts out of order | one owner per address within a table; a link works once | `EmailChange` |
| Second factors, passwords, lockouts (`domain/admins`, `domain/customer-users`, `lib/auth`, `routes/public`) | `backup_codes`, `password_hash`, `sessions`, `rate_limit_buckets` | login, second factor, change and reset of the password, regeneration of codes, revocation | one JSON column read, changed and written back, with a lock and without; check before, count after | a code works once; old passwords leave no session; tries are bounded | `SecondFactor` |
| Phases of a project: order (`domain/phases`) | `project_phases.display_order` | append, swap, drag, delete | renumbering under row locks against a deferred constraint | a drag and a swap do what was asked for, whatever they had read | `PhaseOrder` |
| Phases: status and dates; checklists (`domain/phases`, `domain/phase-checklists`) | `project_phases`, `phase_checklist_items` | rename, status, dates, delete; items: create, rename, show, tick, delete | everything is written from rows read without a lock | dates agree with the status; nothing hidden is told | `PhaseWork` |
| Credential vault (`domain/credentials`, `domain/credential-requests`, `lib/auth/vault-lock.js`, their routes) | `credentials`, `credential_requests`, `sessions.vault_unlocked_at`, `sessions.step_up_at` | create, edit, move, delete, view; ask, fulfil, decline, cancel; step-up | a request resolved by two people at once; a view that fails half-way; a vault that lapses | one credential per ask; nothing seen without an audit row; the trail tells the project | `Vault`, `VaultRoutes` |
| Invoices and payments (`domain/invoices`, `domain/invoice-payments`) | `invoices`, `invoice_payments` | upload, set status, record and delete a payment | a sum read beside other open payments | the payment that settles an invoice says so; the trail is a chain | `Billing`, `Documents` |
| Documents, NDAs (`domain/documents`, `domain/ndas`, `lib/files.js`, `pdf-service.js`) | `documents`, files on disk, `ndas` | upload, generate, attach | a file and a row that must agree across a crash; two transactions for one act | no row without a file; the quota holds; the gate opens once | `Documents` |
| Projects, questions | their tables | edits of single rows | none | - | - |
| Audit trail and activity feed | `audit_log` | append; read | none of its own: rows belong to the transactions above | every act has its row | in the others |

### How they interact

* **Shared transaction.** `recordForDigest`, `enqueue` and `writeAudit` take the
  caller's transaction: a digest row, a message and an audit row commit with the
  act they are about, or not at all.
* **Shared rows.** `customers.status` is written by suspend, reactivate and archive under the
  row's lock, and read without a lock by logins, views, vault operations and the digest's fan-out.
  `sessions` is written by logins, resets, revocations, step-up and views.
* **Pages over services.** A route checks the session and calls services; what the vault's pages may call, and
  that they add no behaviour of their own to what the services allow, is `VaultRoutes` over `Vault`.
* **Worker to worker.** A digest tick enqueues one e-mail; the outbox ticks send it.
* **Routes.** The request gate reads the session first; what a handler knows of the session is as
  old as that read.

`PROJECT.json` lists every component, and under "hazards" the places in the code where
the order of things bites, each with the properties that cover it.

## Modules

| Module | Models | Instance | Proofs |
|---|---|---|---|
| `Digest` | the digest pipeline, statement by statement | `MCDigest` | `Digest_proofs` |
| `EmailOutbox` | the outbox and its worker; implements `MailPromise` | `MCEmailOutbox` | `EmailOutbox_proofs` |
| `Accounts` | links, logins, sessions, life cycle of a customer | `MCAccounts` | `Accounts_proofs` |
| `EmailChange` | changes of address of admins and users, with the links that make and undo them | `MCEmailChange` | `EmailChange_proofs` |
| `SecondFactor` | one account's password, codes, sessions and lockouts | `MCSecondFactor` | `SecondFactor_proofs` |
| `PhaseOrder` | the order of a project's phases | `MCPhaseOrder` | `Phases_proofs` |
| `PhaseWork` | status, dates and checklists of phases, and what the customer is told | `MCPhaseWork` | `Phases_proofs` |
| `Vault` | credentials, asks, views, the vault lock | - | `Vault_proofs` |
| `VaultRoutes` | the vault's pages and the edits; every behaviour is one of `Vault` | `MCVault` | `Vault_proofs` |
| `Billing` | an invoice's ledger, status and news | `MCBilling` | `Invoices_proofs` |
| `Documents` | files and rows, invoices over them, NDAs and the gate | `MCDocuments` | `Invoices_proofs` |

Conventions. A definition that begins with the comment *Slip* is not part of any
specification: it is what the definition after it would be if the code had a
plausible bug, and the properties are checked to notice it. History
variables, marked as such, are never read by a guard of the model. Identifiers (UUIDs, session
ids, tokens) are members of finite sets and used once. Times are small integers where durations are
compared (the digest's timers, the outbox's back-off) and otherwise a free choice of when something
lapses.

### Digest

A business transaction is an event `e`: `Begin` lists its recipients (`listActiveAdmins`,
`listActiveCustomerUsers`); then, for each recipient, `FindCoalescable` (a plain SELECT),
`InsertItem` or `UpdateCoalesced`, and `UpsertSchedule`; then it commits or rolls back. A tick is `Claim`
(`claimDue`, FOR UPDATE SKIP LOCKED), and per claimed recipient `LoadRecipient` and `DrainItems`, then
`CommitTick`. `items` and `sched` are the committed tables; `wItem`, `wSched`, `drained` what open transactions have
written. A writer waits for the holder of its row, sees the row again when it gets it, and a cycle of
waiters loses a member (`Deadlocked`). A row's `count` is the set of events it stands for, so that "told once"
and "not lost" can be said per event; titles and wording are left out.

### EmailOutbox and MailPromise

`row` is the committed table, `draft[w]` what the open transaction of tick `w` has made of the rows it
claimed. `Send` is the call of the provider: it may take the message and say so, take it and have its answer lost,
or not take it. Everything a failed tick wrote is undone; `accepted`, what the provider took, is not.
`wait` is the time until `send_after`; the back-off counts from the start of the tick's transaction, as
`now()` does. `MailPromise` is what a caller of `enqueue` may rely on: a message is pending from the commit until it is
settled, copies go out only while it is pending. `EmailOutbox` implements it under the mapping
`Outcome` (a `failed` row with attempts left is still pending, since `claim` takes it again).

### Accounts

One customer. A request runs one operation, split where another may come in between: a link is
locked and completed (`LockInvite`; a reset finds the user with the customer's status in `BeginReset`, and when `LockReset` is granted
the row only the user is read again); a reset request reads the row (`RequestReset`) and overwrites the
link later (`MailReset`); an admin's reset and a suspension hold their rows until they commit; a login reads
(`VerifyLogin`, `CheckCode`) and writes (`CreateSession`, `StepUp`). `sess[s].since` remembers how many
suspensions had committed when the operation that minted `s` began, and `met` whether a suspension was open
during it. Passwords and codes are in `SecondFactor`, the user's own changes of address in `EmailChange`.

### EmailChange

Accounts are created with the only check the code makes, the unique index of their own table (`customers.create`, `admins.create`;
the script that calls the latter makes the first admin only, the model any). Until then their address is `NoAddress`.
`LockOwner` and `InsertChange` are the two halves of `requestEmailChange`, which takes the account FOR UPDATE and cancels what is
in flight; `LockToVerify`, `LockAndCheck` and `CommitVerify` those of `verifyEmailChange`, which holds the link's row from its
first statement, looks at the other table without a lock and swaps. `LockToRevert` and `CommitRevert` take a
change back; a revert looks at no table and cancels no request in flight. `AdminUpdateCustomerUserEmail` is the
correction by an admin, which looks at the users only. A request locks the account and then the changes, a link the
change and then the account: the deadlock this allows is one of the reasons for `Abort`. An expired link and a request refused
for its rate change no row and are not actions.

### SecondFactor

One account of either table; `kind` says which, for the two differ in one lock. `codes` is the JSON column: which
set was stored, and what is left of it. `ReadAdminCodes`/`ReadCodes` read it (the first without a lock) and
`ConsumeBackupCode` writes all of it back; a reset by link and a regeneration do both under the row's lock. `bucket[s]` is the
row of `rate_limit_buckets` for a session: it is looked at by `PostCode`, counted in by `WrongCode` (`recordFail`, whose first
failure never locks) and deleted by `StepUp` with whatever was set in it meanwhile. `CheckPassword` and `VerifyLogin`
are the bcrypt comparisons made before the transactions. History variables remember who overlapped with whom.

### PhaseOrder

`order` maps the committed phases to `display_order`. A request (`edit`) lists (`ListToSwap`, `ListToDrag`), locks row by
row (`Lock`), writes its `goal`, and commits if the constraint, which is deferred, holds of the result. What `filter`, `splice` and
the numbering loop of a drag make of a row is its `Place`: how many of the rows listed come before it, and one more behind the index. The statement `SELECT ...
ORDER BY display_order FOR UPDATE` is what PostgreSQL makes of it at READ COMMITTED: rows are sorted as they
were when it began, then waited for one by one. A swap of a phase that was deleted meanwhile has index -1,
whose successor is the first row, as `findIndex` has it. A phase that is created after a drag listed is none of
those the drag is about. `crossed` remembers the swaps during which a drag, a deletion or a crossed swap committed: numbers they
read may be gone.

### PhaseWork

A request reads its rows one after the other without a lock (`FindPhase`; `FindItem`, then `FindParent`) and later writes what follows
from them: `ChangeStatus` stamps and clears dates, `SetDates` writes back the status it read, the operations on items decide
from what they read whether the customer is told. `news` is what the last commit told, with what the customer's page could
show at some moment since the request's first read (`seen`). The phase and the item are read at
different moments, so that an item that is told of need not have been visible, phase and item together, at any one.

### Vault and VaultRoutes

An *ask* is a row of `credential_requests`. `Fulfil` and `Resolve` hold it FOR UPDATE until they commit, and
re-check that it is open after the wait. A delete reads, deletes and commits; the foreign key then clears the
pointer (`ON DELETE SET NULL`). A view is `Gate` (outside the transaction), `Read`, `CommitView` (audit
row and sliding of the vault's window) and `Show`. `Suspend` revokes the customer's sessions (`revoked`), which only the
pages look at: a view already past its page goes on, and is refused by the status if it has not read it. `FactorKey` says which key the secret of a second
factor is encrypted with, because `StepUp` decrypts it with one.

`VaultRoutes` EXTENDS `Vault`: its actions `Post...` and `Reveal...` are the routes, each the page's own checks, and
`Call` is the service that the page then begins, whatever has happened since. The step-up of an admin's session (`stepped`) is theirs.
An edit begins its transaction (`BeginEdit`), reads the row without a lock (`FindToEdit`), then saves label and contents
(`SaveContents`), which leaves the project alone, or moves the credential (`SaveScope`). Either writes an audit row that
the customer's activity feed shows, with a project: the one it read or the one of the form. `told` is the newest such
row; the feed orders by `ts`, the beginning of the transaction (`at`), so that an edit may commit last and not be the newest.
`crossed` are the credentials whose newest row is of contents saved over a move that had not been read (`stale`), or is newer than a move that was
committed after it; the next edit of the credential heals it. There is one customer, so the checks that a row is the customer's hold.

### Billing

One invoice. `InsertPayment` inserts a payment and sums the ledger, in one statement each but with nothing in between that
another could disturb; `CommitPayment` commits and tells. Payments take the invoice's row only by their
foreign key (`KeyShared`), which makes a change of status wait and be waited for, while payments pass each other. A payment is
`crossed` when another payment was committed between its sum and its own commit, and `undone` when a deletion was. `SetInvoiceStatus` holds the row that `ReadStatus` locked and read. `MaxInt` is the end of the
32-bit integer the sum is cast to, scaled down.

### Documents

A document's identifier is also the request that stores it. `Begin` (temporary file), `Place` (rename), `Insert` (the transaction,
which looks at status and quota again under the customer's lock) and `Commit` are `uploadForCustomer` and the last
part of `generateDraft`, which differs in not looking at the quota before it writes. `temp` and `final` are the
files on disk. An invoice or a copy of an NDA is `stored` by then and needs a second transaction: `Invoice`,
or `Attach` and `Stamp`. `Fail` is any error the code sees, `CommitUnanswered` an error on a commit that
succeeded, `DraftWriteFails` the one write without a clean-up, `UnlinkFails` a clean-up whose own error `unlinkSafe` swallows, `Crash` a
restart. `lost` remembers which of them a request met. A `plain` document is one of which nothing is made: a generic one, or one of any other
category that an admin uploads by itself (routes/admin/documents.js), without an NDA or an invoice.

## Runs

| Run | Asks | Instance | States |
|---|---|---|---|
| `digest_coalesce` | can concurrent recorders and ticks strand, repeat or lose what is pending, beyond the one overlap that explains a loss? `PendingIsScheduled`, `HardCap`, `ToldOnce`, `LossIsExplained` | 3 events (2 of one key), 1 recipient, 2 overlapping ticks, 1 failure, clock to 5 | 172,972 |
| `digest_live` | is every row drained when two recorders lock two recipients in opposite orders? `EveryRowIsDrained` | 2 events, admin and customer user, 1 tick, 1 failure | 16,278 |
| `outbox_race` | does the outbox keep its promise and settle every message? `QueuedByCommit`, `CopiesAreAccounted`, `KeepsPromise` (refinement), `EveryMessageSettles` | 3 producers (2 of one key), 2 ticks, 2 attempts, 1 failure | 278,009 |
| `accounts_links` | links against resets, corrections, suspension, archival: `SurvivorsOverlapped`, `ArchivedIsFinal`, `OnlyTheLastLinkCompletes` | 1 user, 2 requests, 2 sids, 3 links | 596,052 |
| `email_change` | who has an address, and what does each link do? `SharedAddressIsExplained`, `LinksWorkOnce`, `NoticesReachTheAddressLeft` | 1 admin, 2 users, none created yet; 3 addresses, 2 changes, 2 requests | 196,876 |
| `second_factor` | do codes work once, do old passwords leave sessions, are tries bounded? `CodesAreGood`, `OldPasswordsAreOut`, `TriesAreBounded` | 2 sessions, 2 requests, 2 sets of 1 code, 2 passwords, limit 2 | 871,034 |
| `phases_mixed` | does a drag land and disturb nobody, does a swap from stale reads exchange two phases? `DragLands`, `DragMovesOnlyItsPhase`, `SwapsTradePlaces` | 3 phases and a fourth to come, 3 requests | 163,944 |
| `phases_work` | do dates follow the status, and what is the customer told? `DatesFollowStatus`, `StatusIsAnnounced`, `HiddenStaysHidden`, `OverrideWins` | 1 phase, 1 item, 2 requests | 128,883 |
| `billing` | do the ledger, the news and the trail agree? `PaidNewsIsRight`, `LedgerFits`, `DeletionsAreAudited`, `DecisionsChain` | 3 payments, 2 requests, amounts 0 to 4, integers to 3 | 197,908 |
| `vault_asks` | from the pages of both kinds: asks, deletions, views, edits across lapses and a suspension. `OneCredentialPerAsk`, `PointerTellsDeletion`, `ViewsAreAudited`, `TrailTellsProject`, `AsksResolveOnce` | 1 ask, 2 credentials, 2 sessions, 2 requests, 2 edits, 1 project | 658,044 |
| `documents` | do files and rows agree, does the quota hold, does the gate open once, across failures, restarts and a suspension? `QuotaHolds`, `FilesMatchRows`, `GateOpensOnce`, `NothingWhileSuspended`, `SlotsFillOnce` | 4 documents of size 1 or 3, quota 4, 2 NDAs, 2 requests at a time | 361,621 |
| `vault_stepup` | does the right code open a lapsed vault? **No**: `RightCodeOpensVault` is violated | 1 customer session | - |

Type invariants are parts of the inductive invariants that are proved or of an invariant the run checks (`CopiesAreAccounted`,
`FilesMatchRows`).

### Why the bounds are enough

* *Digest.* Losing an update takes two recorders of one key, being drained in between takes a third
  writer or a tick, and a claim can only conflict with one other claim; three events and two ticks have
  all pairs and the smallest triples. A lock cycle needs two recorders and two recipients. `Cap = 2 * Window` lets the cap
  cut off the second postponement; `Begin` stops early enough for the last row to fall due before `MaxTime`.
* *EmailOutbox.* `MaxAttempts = 2` has a first, a last and a retried attempt; `MaxBackoff = 1` has a pause that has
  and one that has not passed. Copies from lost answers and from rolled-back ticks differ in kind, so one failure
  besides any number of lost answers is needed. Rows come due in any order, which includes the code's.
* *Accounts.* Every hazard is a pair of operations on one user; `MaxLinks = 3` is the first link, one that replaces
  it and one that replaces that; two epochs are a suspension and the archival after it. Requests are reused.
* *EmailChange.* Two users and an admin are a pair in one table and a pair across the tables; with three addresses
  an account can leave its own for a free one or meet somebody at one, and all three can end up with one each; two changes are one and the one that cancels, crosses or follows it.
* *SecondFactor.* Two sessions are the one that asks and the one that is revoked; two requests the one that reads and the one that
  writes in between; two sets of codes the void one and the one in force. `Limit = 2` is the least for which the first
  failure, which never locks, and the one that locks differ. With two codes per set (5,057,671 states) the same holds.
* *PhaseOrder.* Three rows have a first, a middle and a last; three requests have two that conflict and one
  that changes what they read. `Gap` is 5 for 100: what matters is that it exceeds the number of phases, which is an
  assumption of the module (a drag numbers from 0, an append adds `STATUS_GAP`).
* *PhaseWork.* Requests on different phases or items do not meet; a stale row takes one that reads and one that writes.
* *Billing.* Three payments are two that pass each other and one after them; amounts 1 and 2 settle an invoice of
  2 or 4 together or not; 3 as the largest integer leaves sums on both sides of it.
* *Vault.* One ask is what its racers share; two credentials are the two that would be left by two winners; two edits are one and
  the one it does not see; two requests are the two that race, for every race is of a pair. The ask may be open from the start.
* *Documents.* The first signed copies of two NDAs take two drafts and two copies, all of size 1, which the quota just
  admits; two documents of size 3 fit one by one and not together. Every hazard is a pair of requests, so two are
  under way at a time (`MaxInFlight`).

Where a theorem states the property, the bounds only serve to find out cheaply that it holds.

`CHECK_DEADLOCK FALSE` stands where an instance really ends: events, keys, links or requests are used up. In
`vault_asks`, `documents`, `second_factor` and `outbox_race` some action is always possible and deadlock is checked. Symmetry is used only in
runs without liveness properties, over sets of which the module compares members for equality alone.

### Fairness

* *Digest.* Weak fairness of a tick's next statement (the poll never stops) and of the clock; strong fairness of a
  business transaction's next statement: the lock it waits for can be free and taken again, but PostgreSQL queues
  the waiters, and the next poll is a minute away. Nothing obliges a user to act, and at most `MaxFailures` transactions
  roll back without a deadlock. The clock stands still while a transaction is open, for its unit (minutes) is longer than
  any transaction (`statement_timeout` is 30 s).
* *EmailOutbox.* Weak fairness of a tick's next step (a send has a 20 s timeout) and of time. With
  ticks that failed for ever no message would settle, hence `MaxFailures`.

## What the runs show

Held, over all interleavings of the instances: no committed event is stranded without a schedule or told twice, or
told although its transaction rolled back; an event is lost only to the overlap described below or because its recipient's
customer is inactive; the 60-minute cap holds. Every message enqueued by a
committed transaction is sent or runs out of attempts, with a second copy only if an answer was lost or a tick
was undone. An archived customer stays archived, a link works once and only while it is the last, and a session
outlives a suspension only if the operation that minted it overlapped it. Two accounts come to share an address only across the
tables: by a creation, a correction, a revert, or a change that verifies after the address was given to the other. A backup code works once, and the set shown last is the one in force,
but for an admin's login that writes back an older list; a session gets the limit of wrong codes and those already past the
check. A drag lands at its index and disturbs no order it had seen; a swap exchanges two phases
and moves no other, unless a drag or a deletion committed since it read. Dates agree with
the status whatever rows were stale, and the customer is told of nothing that was hidden all the time. An ask leaves one credential or none, a cleared pointer means a
deletion, no contents leave without a committed audit row, and the feed names the project a credential is in unless two edits of it crossed. A
payment that settles an invoice says so unless another payment passed it, and what it says is so unless a deletion did; status decisions form a chain. A stored document has its file unless the answer to its
commit was lost, a stray file was left by a crash, a failed draft or a failed clean-up, the quota holds, and the gate opens once.

A disagreement between the code and what it says of itself, with a run whose counterexample shows it:

* `vault_stepup`. A customer's step-up decrypts with the KEK what was encrypted with the customer's DEK: the right code is
  answered with an error, and a lapsed vault opens only by a new login (routes/customer/step-up.js, domain/customers/service.js:629).

Met while modelling. The properties above leave room for each of these in their exceptions; no run is spent on showing it.

* *Digest.* Two recorders that coalesce into one row both read its count (lib/digest.js:66) and both write count + 1:
  an event is committed and its line is lost, although docs/superpowers/specs/2026-05-01-phase-b-activity-digest-emails-design.md:165
  says "Atomicity guarantee: if the audit row commits, the digest item is queued". `LossIsExplained` says when.
* *Accounts.* completeCustomerWelcome says that minting the session in its transaction "closes the race where suspendCustomer's revoke could
  interleave" (domain/customers/service.js:673-676); the two lock different rows, and the session may survive the suspension. The
  request gate refuses it while the customer is not active, and a reactivation brings it back. `SurvivorsOverlapped` says which ones can.
  "Forgot password" before the setup is finished mails a reset link (customers/service.js:193), which refuses a user
  without a second factor (customers/service.js:781), in place of the welcome link the comment at 122-126 speaks of; only an admin can
  help. A reset request reads the address outside its transaction, so it mails the new link to the old address if an admin corrects it in between.
* *Phases.* "Lock siblings to serialise concurrent drag operations" (domain/phases/service.js:380): the second of two concurrent drags
  sorts before it waits, and so undoes the first: `DragMovesOnlyItsPhase` holds of the order that a drag *listed*, not of the one it meets. A swap that
  a drag crossed writes numbers from before the renumbering and may send its two phases behind all others; one whose phase was deleted in
  between gives the first phase of the project the number of the deleted one. An override of a date "wins
  forever" (240-241) unless a change of status had read the phase before it; typing dates writes back the status that was read.
* *Billing.* The comment at invoice-payments/service.js:5-7 says that an additional event is emitted when the running total
  reaches the amount; two payments that overlap and settle an invoice together both miss it. An invoice of 0 cents shows
  as paid from the start and is never announced.
* *E-mail changes.* Nothing keeps an address unique over the two tables: the index is each table's own, and customers.create
  (customers/service.js:88) and admins.create (admins/service.js:68) look at no other. A revert leaves a newer request in flight, and looks for no collision; a correction by an admin does not
  look at the admins' addresses and cancels no request.
* *Second factors.* routes/public/reset.js:32-36 says a reset leaves backup_codes untouched; completePasswordReset consumes the one
  it was given. A reset revokes no other session. A login that had verified the old password gets its session after the change.
  A right code deletes the bucket of failures with a lock that was set meanwhile.
* *Vault.* updateByCustomer and deleteByCustomer leave the status of the customer to the page's session. An edit whose row
  was deleted meanwhile is audited all the same. An edit of contents that read the row before a move was committed leaves
  the old project in the newest row of the feed (credentials/service.js:828, 917).
* *Outbox.* Only `markSent` strips the sensitive locals, so a row that runs out of attempts keeps them; a failure marked non-retryable is
  claimed again, since `claim` takes `failed` rows.
* *Documents.* A signed copy that was stored and not attached cannot be attached (domain/ndas/service.js:379
  speaks of a retry, but every route that attaches uploads a new copy first). A download token is consumed before the file is read (domain/documents/service.js:312), and
  two redirects within one second carry one and the same token, of which the second is answered 410.

## Proofs

The theorems hold for every set of events, recipients, ticks, users, people, addresses, links, requests, sessions, codes,
payments, phases, items and credentials, and for every value of the limits; nothing is assumed but the named
assumptions of the modules. Few of the properties are inductive as they stand. Where the strengthened invariant is defined in the component's own module,
TLC was run with it, on the instance of the module's run, before it was proved.

* **`Digest_proofs`**, three invariants, each on top of the one before. `TypeCorrect`: the work is in the recursion-free
  helpers (a debounced schedule is a schedule other than "no row", an order of recipients is a sequence of them).
  `PendingScheduled`: a tick clears the schedule of a recipient for whom a recorder may have an uncommitted row. What makes the
  property true is that the *schedule row is the lock under which rows are committed and drained*. `SchedulingInv` says so:
  who has written a row of `r` holds the schedule of `r`, or is about to take it next (`WritersHoldSchedule`); a claimed
  schedule has no other writer (`ClaimsExcludeWriters`); a tick past recipient `r` has deleted every committed row of `r`
  (`ClaimsAreDrained`).
  `HardCapAlways` adds to it, in `CapInv`, that a schedule is written from the one that is committed (`SchedulesAreHeld`), that
  no time passes under a writer (`ClockStands`), and that a schedule is due at most `Cap` after its `oldest`, which is no later
  than any row it stands for (`SchedulesAreCapped`): clearing a schedule with its rows keeps this, because the drain was complete.
  `ToldOnceAlways` and `LossIsExplainedAlways` are from `StoryInv`, which follows each event from the recorder that writes it.
  A row, and every *version* of one that a recorder has read or written and not committed, holds its owner and events of its key,
  of which all but the recorder's have committed (`RowsFit`). Versions of one row may differ, and this is how a count is
  lost: they differ from what is committed only by events of the same instant, or the row has been told meanwhile
  (`VersionFits`). So an event lives in one row at most, which is empty once the event is told (`OneHome`): a commit or a drain
  moves it and cannot copy it. And what is noted of a recipient is kept, or has a reason that stays true (`RecordsAreKept`).
* **`EmailOutbox_proofs`**, from `OutboxInv`. Of the producers of one key one has inserted its row and the others meet it
  (`ProducersRace`), whence `QueuedByCommitAlways`. Ticks hold different rows that nobody else changes (`TicksApart`,
  `BatchIsClaimed`), so that the attempt a tick writes back is the next one of the row as it is stored. A copy the provider took is
  marked on the row, about to be marked, or has its excuse (`CopiesAreMarked`), whence `CopiesAreAccountedAlways`. With these
  every step of the outbox is shown to be a step of `MailPromise` or a stutter: `KeepsPromiseAlways` is the refinement itself.
* **`Accounts_proofs`**, from `AccountsInv`. The customer's row and each user's are held by one request at a time
  (`ClosersAlone`, `HoldersAlone`); a suspension in flight knows every session but those minted by an operation that met it
  (`ClosersKnow`, `MintersMeet`), whence `SurvivorsExplained`; what was read under a user's lock still holds (`LinksAreLast`), whence
  `LastLinkCompletes`. `ArchivalIsFinal` needs that a suspension in flight still finds the customer active (`SuspendsActive`).
* **`EmailChange_proofs`**, from `LinkInv`. Who follows a link holds its row alone and its state is what it was when read
  (`LinksAreHeldAlone`, `FollowersAgree`), whence `LinksWork`; accounts are held alone and their address has been seen
  (`OwnersAreHeldAlone`, `AddressesAreSeen`), whence `NoticesReach`; a look at both tables that nothing crossed
  still holds when the swap commits (`LooksHold`), whence `SharingExplained`. Accounts may be created at any address of
  the other table, at any time.
* **`SecondFactor_proofs`**, from `SecondFactorInv`. Who holds the account's row, or was not crossed, has read the codes that are stored
  (`RowHeldAlone`, `ReadsAreCurrent`), and no code is of a set that has not been shown (`CodesWereShown`), whence `CodesWork`.
  A bucket that is full is locked, and the failures and the tries past the check are bounded together (`FullIsLocked`), whence
  `TriesBounded`, by the theorems on cardinalities of finite sets. `OldPasswordsOut` is inductive but for the types.
* **`Phases_proofs`**, the work on phases and their order.
  *Work*, from `WorkInv`. Dates follow the status although every write is from a row read earlier, for that row agreed with
  itself when it was read and rows that agree are all that is ever written (`ReadsAgree`); what decides whether the customer
  is told was visible when it was read (`ReadsWereSeen`), whence `HiddenHidden`. `OverridesWin` is an action property of the same.
  *Order*, from `OrderInv`. A position, a place and the sorting of a list all count how many of a finite set come before one; that
  numbers that differ and are below the size of their set are these counts is proved from the theorems on cardinalities. `DragsLand` needs what the lock is for: rows are held by one request (`LocksAreHeld`), an identifier
  is used once (`BirthsAreNew`), and so a drag that has its locks holds all there is of the rows it listed, the phase
  among them or gone (`DragsAreListed`). Their new numbers fill 0 to n-1, so that a phase appended meanwhile, which
  the deferred check keeps off these numbers, cannot come before them. `DragsKeepOthers` is of the same.
  `SwapsTrade` adds `SwapsAreApt`: as long as others only append and swap, the numbers a swap has read still exist, perhaps on
  other phases, and its phases still exist. Numbers that are written while they are another phase's fail the deferred check, so a commit that
  passes has exchanged the two or changed nothing.
* **`Vault_proofs`**, from `VaultInv`. An ask is resolved once because *whoever
  resolves it holds it and saw it open* (`AsksAreHeld`), so two requests never resolve the same ask and a commit
  always meets an open one. With that, `MadeByFulfilment` keeps exactly one credential per fulfilled ask. The pointer
  needs `CredentialsAreNew` too: a credential that is being created is new to every ask, so that adding it revives no pointer of
  an older one. A view is shown only from the step after its commit, which `CommittedViewsAreAudited` says has its row.
  Of the pages, `PagesFollowServices` says `RouteSpec => Spec`: every step of a page is a step of `Vault` or leaves its variables
  alone; so `PagesFulfilOnce` and `PagesAuditViews` follow from Vault's theorems. `TrailTells` is from
  `RouteInv`, which adds to `VaultInv` that a credential in the middle of an edit is one that was created (`EditsAreOfCreated`), that
  what an edit read is still the project unless a move was committed since (`ReadsAreFresh`), and that the feed is right of a credential that
  is still to come. The only assumption is that the edits are finitely many, so that the beginnings of their transactions can be numbered.
* **`Invoices_proofs`**, what an invoice is made of: its file and its payments.
  *Sums.* `Billing` and `Documents` sum with the fold of `Functions`, which the provers do not know. The sum of a function over a
  finite set is shown to be the cardinality of the set of its units, by the least counterexample: the fold is unfolded
  once, at the element it chooses, and what is left is smaller. From then on sums are compared and split by the theorems
  on cardinalities of finite sets.
  *Documents*, from `DocumentsInv`. How far a request has come says what there is of its document on disk and in the table
  (`FilesFollowSteps`), whence `FilesMatch`: every way a request ends takes along what its step has left. Whoever writes for the
  customer holds an active row, alone (`CustomerIsHeldAlone`), whence `NothingStored`; an NDA is held by one request, which
  found its slot empty, and a draft's NDA is no other request's (`NdasAreAsRead`), whence `SlotsOnce`. `GateOnce` needs that
  who is about to stamp the customer still finds no stamp, and who passes over a stamp still finds one (`GateIsAsRead`).
  `QuotaAlways` needs that the room found under the customer's lock is still there at the commit (`RoomIsKept`).
  *Payments*, from `BillingInv`. A payment is deleted exactly when the trail says so, and twice only if two requests found
  it (`DeletionsAudited`); a change of status holds the invoice from its read, so that decisions chain (`DecisionsFollow`).
  `PaidNewsAlways` and `LedgerFitsAlways` add `NewsInv`: a sum that no payment crossed is no less than the ledger of now, one that no
  deletion undid no more (`SumsAreOfNow`), and the
  payments that were not crossed add up to an integer of 32 bits that was announced if it settles (`UncrossedIsTold`).

Only model-checked: liveness under fairness (`EveryRowIsDrained`, `EveryMessageSettles`), which is beyond the prover.

## Not modelled

* Reached by no route, so that no behaviour of the program contains them: `lib/auth/email-otp.js` (only its tests use it), `updatePayment` and
  `invoices.update`, `markNeedsUpdate`, `createByAdminFromRequest` beyond the shared `lockOpenRequest`.
* Downloads: a token is one INSERT under a unique key, before the file is read; nothing else depends on it.
* Projects and customer questions: single statements; a question is answered or skipped by one UPDATE guarded by its status.
* In the modelled components: names, labels, contents, locales and done marks; the authenticator's secret and its
  regeneration; expiry of sessions in `EmailChange` and `SecondFactor` (it is in `Accounts`); the limits of the login and
  profile forms and of the step-up pages, which are buckets like the one `SecondFactor` has; edits of a customer's
  own data; session fingerprints; version chains of documents.
* Views, wording and layout (`lib/digest-strings.js`, templates, EJS); cryptography and tokens,
  which are library calls (which key is used *is* modelled in `Vault`); the parser of invoice PDFs; migrations, backup, build,
  accessibility and safety scripts.

What could come next: `Digest` and `EmailOutbox` composed over the outbox row a tick enqueues.
