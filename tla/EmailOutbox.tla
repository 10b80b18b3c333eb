----------------------------- MODULE EmailOutbox -----------------------------
(***************************************************************************)
(* The transactional e-mail outbox: business transactions enqueue messages *)
(* (domain/email-outbox/repo.js), ticks of a worker claim them, hand them  *)
(* to the provider and note the outcome (domain/email-outbox/worker.js,    *)
(* lib/email.js).                                                          *)
(*                                                                         *)
(* A tick is one transaction that stays open while it talks to the         *)
(* provider.  What it writes is invisible, and undone if it rolls back;    *)
(* what the provider has taken is not.  setInterval starts a tick every    *)
(* five seconds whether or not the last one has ended, so ticks overlap.   *)
(***************************************************************************)
EXTENDS Integers, FiniteSets

CONSTANTS
    Keys,          \* idempotency keys, one row each
    Producers,     \* business transactions that enqueue a message
    KeyOf,         \* KeyOf[p]: the key p enqueues under; two may share one
    Workers,       \* the ticks that may overlap
    BatchSize,     \* rows claimed by one tick (1 in the code)
    MaxAttempts,   \* attempts a row is claimed for (5 in the code)
    MaxBackoff,    \* longest pause between attempts (60 minutes in the code)
    MaxFailures    \* bound on the ticks that roll back

OutboxAssumption ==
    /\ KeyOf \in [Producers -> Keys]
    /\ IsFiniteSet(Keys)
    /\ BatchSize \in Nat \ {0}
    /\ MaxAttempts \in Nat \ {0}
    /\ MaxBackoff \in Nat
    /\ MaxFailures \in Nat

ASSUME OutboxAssumption

VARIABLES
    row,           \* row[k]: the committed row of k
    pc,            \* where each business transaction stands
    insert,        \* insert[p]: the row p has inserted and not committed
    batch,         \* batch[w]: rows the tick w has claimed, hence locked
    elapsed,       \* elapsed[w]: minutes since its transaction began
    queue,         \* queue[w]: those it has still to send
    current,       \* current[w]: the one it has sent and not marked, a set
    outcome,       \* outcome[w]: what came of that send
    draft,         \* draft[w][k]: the tick's uncommitted version of row k
    accepted,      \* accepted[k]: how often the provider has taken k
    excused,       \* history: copies of k the outbox could not know of
    failures       \* ticks rolled back so far

producers == <<pc, insert>>
ticks     == <<batch, elapsed, queue, current, outcome, draft>>
provider  == <<accepted, excused>>
vars == <<row, producers, ticks, provider, failures>>

-----------------------------------------------------------------------------
Statuses == {"none", "queued", "sending", "sent", "failed"}
Outcomes == {"none", "ok", "retryable", "fatal"}

\* wait: minutes until send_after, 0 once it is past.  secret: locals holds a
\* key of SENSITIVE_LOCAL_KEYS.
Row    == [status : Statuses, attempts : Nat, wait : Nat, secret : BOOLEAN]
NoRow  == [status |-> "none", attempts |-> 0, wait |-> 0, secret |-> FALSE]
Fresh  == [status |-> "queued", attempts |-> 0, wait |-> 0, secret |-> TRUE]
NoRows == [k \in Keys |-> NoRow]

Least(a, b) == IF a <= b THEN a ELSE b
Backoff(attempts) == Least(2 ^ attempts, MaxBackoff)
Less(a, b) == IF a <= b THEN 0 ELSE a - b

Ticking(w) == batch[w] # {}
Locked(k)  == \E w \in Workers : k \in batch[w]

\* Slips: no status filter; no lock.
DueAnyStatus(k) ==
    /\ row[k].status # "none"
    /\ row[k].wait = 0
    /\ row[k].attempts < MaxAttempts
    /\ ~Locked(k)
DueUnlocked(k) ==
    /\ row[k].status \in {"queued", "failed"}
    /\ row[k].wait = 0
    /\ row[k].attempts < MaxAttempts

\* The rows claim may take, FOR UPDATE SKIP LOCKED.  It takes those due
\* longest first; here any of them.
Due(k) ==
    /\ row[k].status \in {"queued", "failed"}
    /\ row[k].wait = 0
    /\ row[k].attempts < MaxAttempts
    /\ ~Locked(k)

Batches ==
    LET D == {k \in Keys : Due(k)}
    IN {B \in SUBSET D : Cardinality(B) = Least(BatchSize, Cardinality(D))}

-----------------------------------------------------------------------------
Init ==
    /\ row = NoRows
    /\ pc = [p \in Producers |-> "idle"]
    /\ insert = [p \in Producers |-> NoRow]
    /\ batch = [w \in Workers |-> {}]
    /\ elapsed = [w \in Workers |-> 0]
    /\ queue = [w \in Workers |-> {}]
    /\ current = [w \in Workers |-> {}]
    /\ outcome = [w \in Workers |-> "none"]
    /\ draft = [w \in Workers |-> NoRows]
    /\ accepted = [k \in Keys |-> 0]
    /\ excused = [k \in Keys |-> 0]
    /\ failures = 0

(***************************************************************************)
(* The business transaction.                                               *)
(***************************************************************************)

\* Slip: enqueue is given db instead of the transaction.
EnqueueOutsideTransaction(p) ==
    /\ pc[p] = "idle"
    /\ pc' = [pc EXCEPT ![p] = "enqueued"]
    /\ row' = IF row[KeyOf[p]] = NoRow THEN [row EXCEPT ![KeyOf[p]] = Fresh] ELSE row
    /\ UNCHANGED <<insert, ticks, provider, failures>>

\* enqueue: INSERT ... ON CONFLICT DO NOTHING.  It waits for a transaction
\* that has inserted the same key and not ended.
Enqueue(p) ==
    /\ pc[p] = "idle"
    /\ \A q \in Producers : KeyOf[q] = KeyOf[p] => insert[q] = NoRow
    /\ pc' = [pc EXCEPT ![p] = "enqueued"]
    /\ insert' = IF row[KeyOf[p]] = NoRow THEN [insert EXCEPT ![p] = Fresh] ELSE insert
    /\ UNCHANGED <<row, ticks, provider, failures>>

Commit(p) ==
    /\ pc[p] = "enqueued"
    /\ pc' = [pc EXCEPT ![p] = "done"]
    /\ row' = IF insert[p] = NoRow THEN row ELSE [row EXCEPT ![KeyOf[p]] = insert[p]]
    /\ insert' = [insert EXCEPT ![p] = NoRow]
    /\ UNCHANGED <<ticks, provider, failures>>

\* A later statement of the transaction fails, or the process stops.
Abort(p) ==
    /\ pc[p] = "enqueued"
    /\ pc' = [pc EXCEPT ![p] = "aborted"]
    /\ insert' = [insert EXCEPT ![p] = NoRow]
    /\ UNCHANGED <<row, ticks, provider, failures>>

(***************************************************************************)
(* The worker's tick.                                                      *)
(***************************************************************************)

\* claim: a locked batch, flagged and counted in the same UPDATE.
Claim(w) ==
    /\ ~Ticking(w)
    /\ \E B \in Batches :
          /\ B # {}
          /\ batch' = [batch EXCEPT ![w] = B]
          /\ queue' = [queue EXCEPT ![w] = B]
          /\ draft' = [draft EXCEPT ![w] = [k \in Keys |->
                 IF k \in B
                 THEN [row[k] EXCEPT !.status = "sending", !.attempts = @ + 1]
                 ELSE NoRow]]
    /\ UNCHANGED <<row, producers, elapsed, current, outcome, provider, failures>>

\* renderTemplate and mailer.send for the next row.  The provider takes the
\* message and its 202 arrives; or it takes it and the answer is lost (time-
\* out, transport error, a gateway's 5xx); or it does not take it, with an
\* error that is retryable (429, 5xx, transport) or not (any other status, or
\* a template that does not render).
Send(w) ==
    /\ current[w] = {}
    /\ \E k \in queue[w], o \in Outcomes \ {"none"}, taken \in BOOLEAN :
          /\ o = "ok" => taken
          /\ o = "fatal" => ~taken
          /\ queue' = [queue EXCEPT ![w] = @ \ {k}]
          /\ current' = [current EXCEPT ![w] = {k}]
          /\ outcome' = [outcome EXCEPT ![w] = o]
          /\ accepted' = IF taken THEN [accepted EXCEPT ![k] = @ + 1] ELSE accepted
          /\ excused' = IF taken /\ o # "ok" THEN [excused EXCEPT ![k] = @ + 1]
                                             ELSE excused
    /\ UNCHANGED <<row, producers, batch, elapsed, draft, failures>>

\* The row that was sent gets its outcome.
Mark(w, k, marked) ==
    /\ draft' = [draft EXCEPT ![w][k] = marked]
    /\ current' = [current EXCEPT ![w] = {}]
    /\ outcome' = [outcome EXCEPT ![w] = "none"]
    /\ UNCHANGED <<row, producers, batch, elapsed, queue, provider, failures>>

MarkSent(w) ==
    /\ outcome[w] = "ok"
    /\ \E k \in current[w] :
          Mark(w, k, [draft[w][k] EXCEPT !.status = "sent", !.secret = FALSE])

\* Slip: a failure is logged and the row left as claim made it.
MarkNothing(w) ==
    /\ outcome[w] \in {"retryable", "fatal"}
    /\ \E k \in current[w] : Mark(w, k, draft[w][k])

\* The backoff counts from now(), when the tick's transaction began.
MarkFailed(w) ==
    /\ outcome[w] \in {"retryable", "fatal"}
    /\ \E k \in current[w] :
          LET attempts == draft[w][k].attempts
              again    == outcome[w] = "retryable" /\ attempts < MaxAttempts
          IN Mark(w, k, [draft[w][k] EXCEPT
                            !.status = IF again THEN "queued" ELSE "failed",
                            !.wait = Less(Backoff(attempts), elapsed[w])])

EndTick(w) ==
    /\ batch' = [batch EXCEPT ![w] = {}]
    /\ elapsed' = [elapsed EXCEPT ![w] = 0]
    /\ queue' = [queue EXCEPT ![w] = {}]
    /\ current' = [current EXCEPT ![w] = {}]
    /\ outcome' = [outcome EXCEPT ![w] = "none"]
    /\ draft' = [draft EXCEPT ![w] = NoRows]

CommitTick(w) ==
    /\ Ticking(w)
    /\ queue[w] = {}
    /\ current[w] = {}
    /\ row' = [k \in Keys |-> IF k \in batch[w] THEN draft[w][k] ELSE row[k]]
    /\ EndTick(w)
    /\ UNCHANGED <<producers, provider, failures>>

\* What the provider took in a transaction that is undone, the outbox does
\* not know of; a lost answer was excused when it was lost.
Undone(w) == {k \in batch[w] : \/ draft[w][k].status = "sent"
                               \/ k \in current[w] /\ outcome[w] = "ok"}

\* A statement fails, the connection is cut, or the process stops.
FailTick(w) ==
    /\ Ticking(w)
    /\ failures < MaxFailures
    /\ failures' = failures + 1
    /\ excused' = [k \in Keys |-> IF k \in Undone(w) THEN excused[k] + 1 ELSE excused[k]]
    /\ EndTick(w)
    /\ UNCHANGED <<row, producers, accepted>>

\* A minute passes.
Later(r) == [r EXCEPT !.wait = Less(@, 1)]
Tick ==
    /\ row' = [k \in Keys |-> Later(row[k])]
    /\ draft' = [w \in Workers |-> [k \in Keys |-> Later(draft[w][k])]]
    /\ elapsed' = [w \in Workers |->
          IF Ticking(w) THEN Least(elapsed[w] + 1, MaxBackoff) ELSE 0]
    /\ UNCHANGED <<producers, batch, queue, current, outcome, provider, failures>>

TickStep(w) == Claim(w) \/ Send(w) \/ MarkSent(w) \/ MarkFailed(w) \/ CommitTick(w)

Next ==
    \/ \E p \in Producers : Enqueue(p) \/ Commit(p) \/ Abort(p)
    \/ \E w \in Workers : TickStep(w) \/ FailTick(w)
    \/ Tick

Spec == Init /\ [][Next]_vars

(***************************************************************************)
(* Fairness: setInterval keeps polling, a statement and a send end (the    *)
(* mailer's 20 s timeout, the connection's statement timeout), time goes   *)
(* on.  Nothing obliges a business transaction to begin or to commit, and  *)
(* at most MaxFailures ticks roll back.                                    *)
(***************************************************************************)
FairSpec ==
    /\ Spec
    /\ \A w \in Workers : WF_vars(TickStep(w))
    /\ WF_vars(Tick)
-----------------------------------------------------------------------------
(***************************************************************************)
(* What the outbox promises.                                               *)
(***************************************************************************)

TypeOK ==
    /\ row \in [Keys -> Row]
    /\ pc \in [Producers -> {"idle", "enqueued", "done", "aborted"}]
    /\ insert \in [Producers -> {NoRow, Fresh}]
    /\ batch \in [Workers -> SUBSET Keys]
    /\ elapsed \in [Workers -> Nat]
    /\ queue \in [Workers -> SUBSET Keys]
    /\ current \in [Workers -> SUBSET Keys]
    /\ outcome \in [Workers -> Outcomes]
    /\ draft \in [Workers -> [Keys -> Row]]
    /\ accepted \in [Keys -> Nat]
    /\ excused \in [Keys -> Nat]
    /\ failures \in Nat

\* A message exists exactly when a transaction that enqueued it has committed:
\* the loser of a race for one key neither loses its e-mail nor sends it
\* before the winner commits.
QueuedByCommit ==
    \A k \in Keys :
        row[k] # NoRow <=> \E p \in Producers : KeyOf[p] = k /\ pc[p] = "done"

\* A recipient gets a second copy only for a reason the outbox cannot see: the
\* provider's answer was lost, or the tick that sent it was rolled back.
CopiesAreExplained ==
    \A k \in Keys : accepted[k] <= 1 + excused[k]

\* The cap of five counts what ticks commit, not what they send: the provider
\* takes a message at most MaxAttempts times, plus once per rolled-back tick.
CopiesAreBounded ==
    \A k \in Keys : accepted[k] <= MaxAttempts + failures

\* Both: every copy has its reason, and there are not too many.
CopiesAreAccounted == TypeOK /\ CopiesAreExplained /\ CopiesAreBounded

\* The outbox implements the promise it makes to its callers: pending until
\* sent or out of attempts, and never handed over after that.
Outcome(k) ==
    CASE row[k].status = "none" -> "none"
      [] row[k].status = "sent" -> "sent"
      [] row[k].status = "failed" /\ row[k].attempts >= MaxAttempts -> "dead"
      [] OTHER -> "pending"
Promised == INSTANCE MailPromise
                WITH state <- [k \in Keys |-> Outcome(k)], copies <- accepted
KeepsPromise == Promised!Spec

\* Every message that is queued is sent or runs out of attempts.
EveryMessageSettles ==
    \A k \in Keys : row[k] # NoRow ~> Outcome(k) \in {"sent", "dead"}

\* Why these hold.  Of the transactions that enqueue one message one has inserted it, and
\* the others see it; ticks claim different rows, which nobody else changes; what a tick
\* has sent is marked as it was answered; what the provider took is excused, or marked, or
\* about to be marked; and a tick sends each row once, for one attempt.
ProducersRace ==
    /\ \A p \in Producers : insert[p] # NoRow =>
          pc[p] = "enqueued" /\ row[KeyOf[p]] = NoRow
    /\ \A p, q \in Producers :
          insert[p] # NoRow /\ insert[q] # NoRow /\ KeyOf[p] = KeyOf[q] => p = q
    /\ \A p \in Producers : pc[p] = "enqueued" => insert[p] # NoRow \/ row[KeyOf[p]] # NoRow
RowsAreSettled ==
    \A k \in Keys :
        /\ row[k].status # "sending"
        /\ row[k].status = "none" => row[k] = NoRow
        /\ row[k].attempts <= MaxAttempts
TicksApart ==
    \A v, w \in Workers : v # w => batch[v] \cap batch[w] = {}
BatchIsClaimed(w) ==
    /\ queue[w] \subseteq batch[w] /\ current[w] \subseteq batch[w] \ queue[w]
    /\ \A k, l \in current[w] : k = l
    /\ outcome[w] = "none" <=> current[w] = {}
    /\ \A k \in batch[w] :
          /\ row[k].status \in {"queued", "failed"} /\ row[k].attempts < MaxAttempts
          /\ draft[w][k].attempts = row[k].attempts + 1
          /\ draft[w][k].status = "sending" <=> k \in queue[w] \cup current[w]
          /\ draft[w][k].status # "none"
Known(k) == row[k].status = "sent" \/ \E w \in Workers : k \in Undone(w)
Out(k)   == \E w \in Workers : k \in batch[w] \ queue[w]
CopiesAreMarked ==
    \A k \in Keys :
        /\ accepted[k] <= excused[k] + (IF Known(k) THEN 1 ELSE 0)
        /\ accepted[k] <= row[k].attempts + failures + (IF Out(k) THEN 1 ELSE 0)
        /\ Known(k) => accepted[k] > 0

OutboxInv ==
    /\ TypeOK /\ QueuedByCommit /\ ProducersRace
    /\ RowsAreSettled /\ TicksApart /\ CopiesAreMarked
    /\ \A w \in Workers : BatchIsClaimed(w)
=============================================================================
