------------------------------- MODULE Digest -------------------------------
(***************************************************************************)
(* The digest pipeline of the portal: business transactions record         *)
(* digestable events for recipients (lib/digest.js), a worker polls the    *)
(* debounce timers and turns the pending rows of a recipient into one      *)
(* e-mail (domain/digest/repo.js, domain/digest/worker.js).                *)
(*                                                                         *)
(* Every SQL statement that can meet another transaction is a step of its  *)
(* own.  The database runs READ COMMITTED: a SELECT reads committed rows   *)
(* and takes no lock, a written row stays locked until its transaction     *)
(* ends, a waiter re-reads the row once it gets the lock, and the deadlock *)
(* detector rolls back one member of a cycle of waiters.                   *)
(*                                                                         *)
(* A business transaction is identified with the event it records.  The    *)
(* row it inserts for recipient r is the row (e, r); the row's count is    *)
(* kept as the set of events the row stands for.                           *)
(***************************************************************************)
EXTENDS Integers, Sequences, FiniteSets

CONSTANTS
    Events,      \* the business transactions, one digestable event each
    Recipients,  \* admins and customer users
    Admins,      \* the recipients that are active whatever happens
    Workers,     \* the ticks of the digest worker that may overlap
    KeyOf,       \* KeyOf[e]: what must be equal for two events to coalesce
    NoKey,       \* the key of an event outside COALESCING_EVENTS
    Audience,    \* Audience[e]: the recipients e is for
    Window,      \* the idle timer (10 minutes in the code)
    Cap,         \* the hard cap (60 minutes in the code)
    BatchSize,   \* schedules claimed by one tick (25 in the code)
    MaxTime,     \* bound on the clock
    MaxFailures  \* bound on rollbacks that no deadlock explains

DigestAssumption ==
    /\ Admins \subseteq Recipients
    /\ Events \cap Workers = {}
    /\ DOMAIN KeyOf = Events
    /\ IsFiniteSet(Recipients)
    /\ Audience \in [Events -> SUBSET Recipients]
    /\ Window \in Nat \ {0}
    /\ Cap \in Nat
    /\ Window <= Cap
    /\ BatchSize \in Nat \ {0}
    /\ MaxTime \in Nat
    /\ MaxFailures \in Nat

ASSUME DigestAssumption

VARIABLES
    now,        \* the clock; its unit is longer than any transaction
    active,     \* recipients whose customer is active (admins: always)
    items,      \* items[o][r]: committed pending row (o, r), {} when absent
    sched,      \* sched[r]: committed digest_schedules row
    pc,         \* where each business transaction stands
    at,         \* when it began: created_at of its rows, `now` of its upserts
    todo,       \* the recipients it has still to record for
    target,     \* owner of the row it will write next, itself to insert
    read,       \* the events that row stood for when it was read
    wItem,      \* wItem[e][o][r]: uncommitted version of row (o, r) by e
    wSched,     \* wSched[e][r]: uncommitted schedule row by e
    claims,     \* recipients whose schedule row a tick holds
    left,       \* those it has not looked at yet
    cur,        \* the one it has loaded and not drained
    loaded,     \* those whose recipient row qualified
    drained,    \* pending rows the tick has deleted, uncommitted
    sent,       \* sent[r]: the digests enqueued, each a set of rows
    dropped,    \* events deleted without an e-mail
    recorded,   \* history: events committed for r
    opened,     \* history: those of them that inserted a row of their own
    failures    \* rollbacks taken so far

business == <<pc, at, todo, target, read, wItem, wSched>>
tick     == <<claims, left, cur, loaded, drained>>
mail     == <<sent, dropped>>
history  == <<recorded, opened>>
vars == <<now, active, items, sched, business, tick, mail, history, failures>>

-----------------------------------------------------------------------------
Row       == SUBSET Events
NoSched   == [due |-> 0, oldest |-> 0]
Schedule  == [due : Nat, oldest : Nat]
NoItems   == [o \in Events |-> [r \in Recipients |-> {}]]

PcStates  == {"idle", "find", "write", "schedule", "done", "aborted"}
Open(e)   == pc[e] \in {"find", "write", "schedule"}
Ticking(w) == claims[w] # {}

\* Rows of recipient r that a statement of another transaction can see.
PendingRows(r) == {o \in Events : items[o][r] # {}}

\* Who holds the row (o, r), who holds the schedule key of r.
RowHolders(o, r) ==
    {e \in Events : wItem[e][o][r] # {}}
        \cup {w \in Workers : <<o, r>> \in drained[w]}
SchedHolders(r) ==
    {e \in Events : wSched[e][r] # NoSched}
        \cup {w \in Workers : r \in claims[w]}

\* The transactions a blocked transaction waits for; {} when it can move.
WaitsForBusiness(e) ==
    LET r == Head(todo[e]) IN
    CASE pc[e] = "write" /\ target[e] # e -> RowHolders(target[e], r) \ {e}
      [] pc[e] = "schedule"               -> SchedHolders(r) \ {e}
      [] OTHER                            -> {}

\* The DELETE of drainItems waits for the writers of the rows it matches.
WaitsForTick(w) ==
    UNION {UNION {RowHolders(o, r) \ {w} : o \in PendingRows(r)} : r \in cur[w]}

Transactions == {e \in Events : Open(e)} \cup {w \in Workers : Ticking(w)}
WaitsFor(t)  == IF t \in Events THEN WaitsForBusiness(t) ELSE WaitsForTick(t)

\* t is on a cycle of waiters.
Deadlocked(t) ==
    \E S \in SUBSET Transactions :
        /\ t \in S
        /\ \A u \in S : /\ WaitsFor(u) \cap S # {}
                        /\ \E v \in S : u \in WaitsFor(v)

\* The orders in which a query may return the rows of S.
Orders(S) ==
    {s \in [1..Cardinality(S) -> S] : \A i, j \in DOMAIN s : s[i] = s[j] => i = j}

\* due_at and oldest_item_at after INSERT ... ON CONFLICT DO UPDATE at time t.
Earliest(a, b) == IF a <= b THEN a ELSE b
DebounceWithoutCap(row, t) ==
    [due |-> t + Window, oldest |-> IF row = NoSched THEN t ELSE row.oldest]
Debounce(row, t) ==
    IF row = NoSched
    THEN [due |-> t + Window, oldest |-> t]
    ELSE [due |-> Earliest(t + Window, row.oldest + Cap), oldest |-> row.oldest]

\* Slip: the key is not compared.
CoalescableWithAny(e, r) == {o \in PendingRows(r) : KeyOf[e] # NoKey}

\* The rows findCoalescable may return to e for r: same key, newest first.
Coalescable(e, r) == {o \in PendingRows(r) : KeyOf[e] # NoKey /\ KeyOf[o] = KeyOf[e]}
Newest(S) == {o \in S : \A p \in S : at[p] <= at[o]}

\* Slips: claimDue without FOR UPDATE SKIP LOCKED; claimDue joined with the
\* active recipients.
ClaimUnlocked == {r \in Recipients : sched[r] # NoSched /\ sched[r].due <= now}
ClaimActive == {r \in active : /\ sched[r] # NoSched
                               /\ sched[r].due <= now
                               /\ SchedHolders(r) = {}}

\* The batches claimDue may take: due, not locked, earliest due first.
Claimable == {r \in Recipients : /\ sched[r] # NoSched
                                 /\ sched[r].due <= now
                                 /\ SchedHolders(r) = {}}
Batches ==
    {B \in SUBSET Claimable :
        /\ Cardinality(B) = Earliest(BatchSize, Cardinality(Claimable))
        /\ \A r \in B, q \in Claimable \ B : sched[r].due <= sched[q].due}

-----------------------------------------------------------------------------
Init ==
    /\ now = 1
    /\ active = Recipients
    /\ items = NoItems
    /\ sched = [r \in Recipients |-> NoSched]
    /\ pc = [e \in Events |-> "idle"]
    /\ at = [e \in Events |-> 0]
    /\ todo = [e \in Events |-> <<>>]
    /\ target = [e \in Events |-> e]
    /\ read = [e \in Events |-> {}]
    /\ wItem = [e \in Events |-> NoItems]
    /\ wSched = [e \in Events |-> [r \in Recipients |-> NoSched]]
    /\ claims = [w \in Workers |-> {}]
    /\ left = [w \in Workers |-> {}]
    /\ cur = [w \in Workers |-> {}]
    /\ loaded = [w \in Workers |-> {}]
    /\ drained = [w \in Workers |-> {}]
    /\ sent = [r \in Recipients |-> {}]
    /\ dropped = [r \in Recipients |-> {}]
    /\ recorded = [r \in Recipients |-> {}]
    /\ opened = [r \in Recipients |-> {}]
    /\ failures = 0

(***************************************************************************)
(* The business transaction.                                               *)
(***************************************************************************)

\* It begins and lists its recipients: the admins and the customer users
\* whose customer is active.  The SELECTs have no ORDER BY, and callers
\* differ in whether admins or customer users come first: any order.
Begin(e) ==
    /\ pc[e] = "idle"
    /\ now + Cap <= MaxTime
    /\ \E s \in Orders(Audience[e] \cap active) : todo' = [todo EXCEPT ![e] = s]
    /\ at' = [at EXCEPT ![e] = now]
    /\ pc' = [pc EXCEPT ![e] = "find"]
    /\ UNCHANGED <<now, active, items, sched, target, read, wItem, wSched,
                   tick, mail, history, failures>>

\* recordForDigest for the next recipient: look for a row to coalesce into.
FindCoalescable(e) ==
    /\ pc[e] = "find"
    /\ todo[e] # <<>>
    /\ LET r == Head(todo[e])
           C == Coalescable(e, r)
       IN \/ /\ C = {}
             /\ target' = [target EXCEPT ![e] = e]
             /\ read' = [read EXCEPT ![e] = {}]
          \/ \E o \in Newest(C) :
                /\ target' = [target EXCEPT ![e] = o]
                /\ read' = [read EXCEPT ![e] = items[o][r]]
    /\ pc' = [pc EXCEPT ![e] = "write"]
    /\ UNCHANGED <<now, active, items, sched, at, todo, wItem, wSched,
                   tick, mail, history, failures>>

\* No row found: insert one that stands for e alone.
InsertItem(e) ==
    /\ pc[e] = "write"
    /\ target[e] = e
    /\ wItem' = [wItem EXCEPT ![e][e][Head(todo[e])] = {e}]
    /\ pc' = [pc EXCEPT ![e] = "schedule"]
    /\ UNCHANGED <<now, active, items, sched, at, todo, target, read, wSched,
                   tick, mail, history, failures>>

\* Slip: an upsert instead of an UPDATE, which brings a drained row back.
UpdateReviving(e) ==
    /\ pc[e] = "write"
    /\ target[e] # e
    /\ WaitsForBusiness(e) = {}
    /\ wItem' = [wItem EXCEPT ![e][target[e]][Head(todo[e])] = read[e] \cup {e}]
    /\ pc' = [pc EXCEPT ![e] = "schedule"]
    /\ UNCHANGED <<now, active, items, sched, at, todo, target, read, wSched,
                   tick, mail, history, failures>>

\* Row found: UPDATE ... WHERE id = $1, with the count computed from the
\* earlier read.  The statement matches nothing if the row is gone by now.
UpdateCoalesced(e) ==
    /\ pc[e] = "write"
    /\ target[e] # e
    /\ WaitsForBusiness(e) = {}
    /\ LET r == Head(todo[e])
           o == target[e]
       IN wItem' = IF items[o][r] = {} THEN wItem
                   ELSE [wItem EXCEPT ![e][o][r] = read[e] \cup {e}]
    /\ pc' = [pc EXCEPT ![e] = "schedule"]
    /\ UNCHANGED <<now, active, items, sched, at, todo, target, read, wSched,
                   tick, mail, history, failures>>

\* upsertSchedule, then on to the next recipient.
UpsertSchedule(e) ==
    /\ pc[e] = "schedule"
    /\ WaitsForBusiness(e) = {}
    /\ LET r == Head(todo[e])
       IN wSched' = [wSched EXCEPT ![e][r] = Debounce(sched[r], at[e])]
    /\ todo' = [todo EXCEPT ![e] = Tail(@)]
    /\ pc' = [pc EXCEPT ![e] = "find"]
    /\ UNCHANGED <<now, active, items, sched, at, target, read, wItem,
                   tick, mail, history, failures>>

\* The rows a transaction wrote, merged over the committed ones.
ItemsAfter(e) ==
    [o \in Events |-> [r \in Recipients |->
        IF wItem[e][o][r] # {} THEN wItem[e][o][r] ELSE items[o][r]]]
SchedAfter(e) ==
    [r \in Recipients |-> IF wSched[e][r] # NoSched THEN wSched[e][r] ELSE sched[r]]

\* What the transaction wrote is gone, published or not.
Forget(e) ==
    /\ wItem' = [wItem EXCEPT ![e] = NoItems]
    /\ wSched' = [wSched EXCEPT ![e] = [r \in Recipients |-> NoSched]]
    /\ todo' = [todo EXCEPT ![e] = <<>>]
    /\ target' = [target EXCEPT ![e] = e]
    /\ read' = [read EXCEPT ![e] = {}]

Commit(e) ==
    /\ pc[e] = "find"
    /\ todo[e] = <<>>
    /\ items' = ItemsAfter(e)
    /\ sched' = SchedAfter(e)
    /\ recorded' = [r \in Recipients |->
          IF wSched[e][r] # NoSched THEN recorded[r] \cup {e} ELSE recorded[r]]
    /\ opened' = [r \in Recipients |->
          IF wItem[e][e][r] # {} THEN opened[r] \cup {e} ELSE opened[r]]
    /\ Forget(e)
    /\ pc' = [pc EXCEPT ![e] = "done"]
    /\ UNCHANGED <<now, active, at, tick, mail, failures>>

Rollback(e) ==
    /\ Open(e)
    /\ Forget(e)
    /\ pc' = [pc EXCEPT ![e] = "aborted"]
    /\ UNCHANGED <<now, active, items, sched, at, tick, mail, history>>

\* A later statement of the transaction fails, or the process stops.
Fail(e) ==
    /\ failures < MaxFailures
    /\ Rollback(e)
    /\ failures' = failures + 1

\* The deadlock detector picks the business transaction.
DeadlockVictim(e) ==
    /\ Open(e)
    /\ Deadlocked(e)
    /\ Rollback(e)
    /\ UNCHANGED failures

(***************************************************************************)
(* The worker's tick, one transaction.                                     *)
(***************************************************************************)

\* claimDue: FOR UPDATE SKIP LOCKED on the due schedules.
Claim(w) ==
    /\ ~Ticking(w)
    /\ Claimable # {}
    /\ \E B \in Batches :
          /\ claims' = [claims EXCEPT ![w] = B]
          /\ left' = [left EXCEPT ![w] = B]
    /\ UNCHANGED <<now, active, items, sched, business, cur, loaded, drained,
                   mail, history, failures>>

\* loadRecipient for the next claim, in the order of due_at.
LoadRecipient(w) ==
    /\ cur[w] = {}
    /\ \E r \in left[w] :
          /\ \A q \in left[w] : sched[r].due <= sched[q].due
          /\ cur' = [cur EXCEPT ![w] = {r}]
          /\ left' = [left EXCEPT ![w] = @ \ {r}]
          /\ loaded' = [loaded EXCEPT ![w] = IF r \in active THEN @ \cup {r} ELSE @]
    /\ UNCHANGED <<now, active, items, sched, business, claims, drained,
                   mail, history, failures>>

\* drainItems, and the statements up to clearSchedule: they touch only rows
\* this tick already holds.
DrainItems(w) ==
    /\ cur[w] # {}
    /\ WaitsForTick(w) = {}
    /\ drained' = [drained EXCEPT ![w] =
          @ \cup UNION {{<<o, r>> : o \in PendingRows(r)} : r \in cur[w]}]
    /\ cur' = [cur EXCEPT ![w] = {}]
    /\ UNCHANGED <<now, active, items, sched, business, claims, left, loaded,
                   mail, history, failures>>

\* The events of the rows of r this tick has deleted, row by row.
DrainedRows(w, r) == {items[o][r] : o \in {p \in Events : <<p, r>> \in drained[w]}}

EndTick(w) ==
    /\ claims' = [claims EXCEPT ![w] = {}]
    /\ left' = [left EXCEPT ![w] = {}]
    /\ cur' = [cur EXCEPT ![w] = {}]
    /\ loaded' = [loaded EXCEPT ![w] = {}]
    /\ drained' = [drained EXCEPT ![w] = {}]

\* COMMIT: the rows are deleted, the schedules cleared and one e-mail per
\* recipient that qualified and had rows is in the outbox.
CommitTick(w) ==
    /\ Ticking(w)
    /\ left[w] = {}
    /\ cur[w] = {}
    /\ items' = [o \in Events |-> [r \in Recipients |->
          IF <<o, r>> \in drained[w] THEN {} ELSE items[o][r]]]
    /\ sched' = [r \in Recipients |-> IF r \in claims[w] THEN NoSched ELSE sched[r]]
    /\ sent' = [r \in Recipients |->
          IF r \in loaded[w] /\ DrainedRows(w, r) # {}
          THEN sent[r] \cup {DrainedRows(w, r)} ELSE sent[r]]
    /\ dropped' = [r \in Recipients |->
          IF r \in claims[w] \ loaded[w]
          THEN dropped[r] \cup UNION DrainedRows(w, r) ELSE dropped[r]]
    /\ EndTick(w)
    /\ UNCHANGED <<now, active, business, history, failures>>

RollbackTick(w) ==
    /\ Ticking(w)
    /\ EndTick(w)
    /\ UNCHANGED <<now, active, items, sched, business, mail, history>>

\* A statement of the tick fails (startWorker logs it), or the process stops.
FailTick(w) ==
    /\ failures < MaxFailures
    /\ RollbackTick(w)
    /\ failures' = failures + 1

\* The deadlock detector picks the tick; the next poll starts over.
DeadlockVictimTick(w) ==
    /\ Ticking(w)
    /\ Deadlocked(w)
    /\ RollbackTick(w)
    /\ UNCHANGED failures

(***************************************************************************)
(* The world around them.                                                  *)
(***************************************************************************)

\* An admin suspends or reactivates the customer of r.
SetActive(r) ==
    /\ r \notin Admins
    /\ active' = IF r \in active THEN active \ {r} ELSE active \cup {r}
    /\ UNCHANGED <<now, items, sched, business, tick, mail, history, failures>>

\* Transactions take no time on the scale of the timers.
Tick ==
    /\ now < MaxTime
    /\ Transactions = {}
    /\ now' = now + 1
    /\ UNCHANGED <<active, items, sched, business, tick, mail, history, failures>>

BusinessStep(e) ==
    \/ FindCoalescable(e)
    \/ InsertItem(e)
    \/ UpdateCoalesced(e)
    \/ UpsertSchedule(e)
    \/ Commit(e)
    \/ DeadlockVictim(e)

TickStep(w) ==
    \/ Claim(w)
    \/ LoadRecipient(w)
    \/ DrainItems(w)
    \/ CommitTick(w)
    \/ DeadlockVictimTick(w)

Next ==
    \/ \E e \in Events : Begin(e) \/ BusinessStep(e) \/ Fail(e)
    \/ \E w \in Workers : TickStep(w) \/ FailTick(w)
    \/ \E r \in Recipients : SetActive(r)
    \/ Tick

Spec == Init /\ [][Next]_vars

(***************************************************************************)
(* Fairness: a transaction that has begun runs its next statement when it  *)
(* is not blocked and the database breaks deadlocks; setInterval keeps     *)
(* polling; the clock goes on.  Nothing obliges a user to act.  Fairness   *)
(* of a business transaction is strong: the lock queue gives a released    *)
(* lock to the statement that waits for it, long before the next poll.     *)
(***************************************************************************)
Fairness ==
    /\ \A e \in Events : SF_vars(BusinessStep(e))
    /\ \A w \in Workers : WF_vars(TickStep(w))
    /\ WF_vars(Tick)

FairSpec == Spec /\ Fairness
-----------------------------------------------------------------------------
(***************************************************************************)
(* What the pipeline promises.                                             *)
(***************************************************************************)

TypeOK ==
    /\ now \in Nat
    /\ active \subseteq Recipients
    /\ items \in [Events -> [Recipients -> Row]]
    /\ sched \in [Recipients -> Schedule]
    /\ pc \in [Events -> PcStates]
    /\ at \in [Events -> Nat]
    /\ todo \in [Events -> Seq(Recipients)]
    /\ \A e \in Events : pc[e] \in {"write", "schedule"} => todo[e] # <<>>
    /\ target \in [Events -> Events]
    /\ read \in [Events -> Row]
    /\ wItem \in [Events -> [Events -> [Recipients -> Row]]]
    /\ wSched \in [Events -> [Recipients -> Schedule]]
    /\ claims \in [Workers -> SUBSET Recipients]
    /\ left \in [Workers -> SUBSET Recipients]
    /\ cur \in [Workers -> SUBSET Recipients]
    /\ loaded \in [Workers -> SUBSET Recipients]
    /\ drained \in [Workers -> SUBSET (Events \X Recipients)]
    /\ sent \in [Recipients -> SUBSET SUBSET Row]
    /\ dropped \in [Recipients -> Row]
    /\ recorded \in [Recipients -> Row]
    /\ opened \in [Recipients -> Row]
    /\ failures \in Nat

\* The events a row, or a digest, of r tells of.
Pending(r)   == UNION {items[o][r] : o \in Events}
Announced(r) == UNION {UNION d : d \in sent[r]}
Told(r)      == Announced(r) \cup dropped[r]

\* Every committed pending row has a schedule row, so that some tick will
\* look at it: recordForDigest upserts the schedule after the row, the worker
\* clears the schedule it claimed, and neither can strand what the other is
\* committing.
PendingIsScheduled ==
    \A r \in Recipients : PendingRows(r) # {} => sched[r] # NoSched

\* Why it holds.  The schedule row of r is the lock under which rows of r are
\* committed and under which they are drained: a transaction that has written
\* a row of r holds the schedule of r before it may commit, a claimed schedule
\* has no other writer, and a tick past recipient r has deleted every row of r.
WritersHoldSchedule ==
    \A e, o \in Events : \A r \in Recipients :
        wItem[e][o][r] # {} => \/ wSched[e][r] # NoSched
                               \/ pc[e] = "schedule" /\ r = Head(todo[e])
ClaimsExcludeWriters ==
    \A w \in Workers, e \in Events : \A r \in claims[w] : wSched[e][r] = NoSched
ClaimsAreDrained ==
    \A w \in Workers :
        /\ left[w] \cup cur[w] \subseteq claims[w]
        /\ \A r \in claims[w] \ (left[w] \cup cur[w]) : \A o \in PendingRows(r) :
              <<o, r>> \in drained[w]
SchedulingInv ==
    /\ TypeOK
    /\ PendingIsScheduled
    /\ WritersHoldSchedule
    /\ ClaimsExcludeWriters
    /\ ClaimsAreDrained

\* The cap of domain/digest/repo.js is measured from the oldest unsent item:
\* however long the stream of events, no row is scheduled later than Cap
\* after it was created.
HardCap ==
    \A r \in Recipients : \A o \in PendingRows(r) : sched[r].due <= at[o] + Cap

\* An event is told to a recipient once: it is in one place only, a pending
\* row, a digest or the dropped rows, and in one row of that place.  A business
\* transaction that rolled back, or has not committed, is not heard of: neither
\* its own rows nor the rows it coalesced into, which later transactions read
\* and rewrite, carry its event.
ToldOnce ==
    /\ \A r \in Recipients :
          /\ Pending(r) \cap Announced(r) = {}
          /\ Pending(r) \cap dropped[r] = {}
          /\ Announced(r) \cap dropped[r] = {}
          /\ \A o, p \in Events : o # p => items[o][r] \cap items[p][r] = {}
          /\ \A c, d \in sent[r] : c # d => (UNION c) \cap (UNION d) = {}
          /\ \A d \in sent[r] : \A a, b \in d : a # b => a \cap b = {}
    /\ \A e \in Events : pc[e] # "done" =>
          \A r \in Recipients : e \notin Pending(r) \cup Announced(r) \cup dropped[r]

\* A pending row is drained in the end, however the recorders of later events
\* and the ticks contend for its locks.
EveryRowIsDrained ==
    \A o \in Events, r \in Recipients : items[o][r] # {} ~> items[o][r] = {}

\* "If the audit row commits, the digest item is queued" -- but for an event that
\* coalesced: its count is computed from an earlier read, so it is lost to another
\* event of its key that was recorded in the same instant, or with a row that had
\* been drained by the time it was updated.  Nothing else loses one, and an event
\* that inserted a row of its own is not lost at all.
LossIsExplained ==
    \A r \in Recipients :
        \A e \in recorded[r] \ (Pending(r) \cup Announced(r) \cup dropped[r]) :
            /\ e \notin opened[r]
            /\ \E o \in Events \ {e} :
                  /\ KeyOf[o] = KeyOf[e] /\ KeyOf[e] # NoKey
                  /\ at[o] = at[e] \/ o \in Announced(r) \cup dropped[r]

\* Why the cap holds, no event is told twice, and none is lost without a reason.
\* Who writes a row or a schedule holds it until it ends, and writes the schedule
\* on what is committed; a tick drains what it has claimed; the clock stands while
\* somebody writes.
RowsAreHeld ==
    \A e, o \in Events, r \in Recipients : wItem[e][o][r] # {} =>
        /\ Open(e)
        /\ o = e \/ items[o][r] # {}
SchedulesAreHeld ==
    \A e \in Events, r \in Recipients : wSched[e][r] # NoSched =>
        /\ Open(e)
        /\ wSched[e][r] = Debounce(sched[r], at[e])
        /\ \A f \in Events \ {e} : wSched[f][r] = NoSched
DrainsAreHeld ==
    \A w \in Workers, o \in Events, r \in Recipients : <<o, r>> \in drained[w] =>
        /\ r \in claims[w]
        /\ \A e \in Events : o = e \/ wItem[e][o][r] = {}
ClockStands == \A e \in Events : Open(e) => at[e] = now
SchedulesAreCapped ==
    \A r \in Recipients : sched[r] # NoSched =>
        /\ sched[r].oldest <= now /\ sched[r].due <= sched[r].oldest + Cap
        /\ \A o \in PendingRows(r) : sched[r].oldest <= at[o]
CapInv ==
    /\ SchedulingInv /\ RowsAreHeld /\ SchedulesAreHeld /\ DrainsAreHeld /\ ClockStands
    /\ \A o \in Events, r \in Recipients : items[o][r] # {} => pc[o] = "done"
    /\ SchedulesAreCapped

\* A recipient is recorded for once.
TodoIsAhead ==
    \A e \in Events :
        /\ \A i, j \in DOMAIN todo[e] : todo[e][i] = todo[e][j] => i = j
        /\ \A i \in DOMAIN todo[e] : i > 1 \/ pc[e] # "schedule" =>
              \A o \in Events : wItem[e][o][todo[e][i]] = {}

\* A row stands for its owner and for events of the same key; what e has read of
\* it, or written, differs from what is committed by events of the same time only.
SameKey(o, x) == KeyOf[o] = KeyOf[x] /\ KeyOf[x] # NoKey
Fits(o, V) == o \in V /\ \A x \in V \ {o} : SameKey(o, x)
Done(V) == \A x \in V : pc[x] = "done"
RowFits(o, r) == items[o][r] # {} => Fits(o, items[o][r]) /\ Done(items[o][r])
Reads(e, o, r) == pc[e] = "write" /\ target[e] = o /\ o # e /\ r = Head(todo[e])
Version(e, o, r) == IF Reads(e, o, r) THEN read[e] \cup {e} ELSE wItem[e][o][r]
VersionFits(e, o, r) ==
    Version(e, o, r) # {} =>
        /\ Fits(o, Version(e, o, r)) /\ e \in Version(e, o, r)
        /\ Done(Version(e, o, r) \ {e})
        /\ IF items[o][r] # {}
           THEN \A x \in Events : (x \in Version(e, o, r) <=> x \in items[o][r]) \/ at[x] = now
           ELSE Version(e, o, r) = {e} \/ o \in Told(r)
RowsFit ==
    /\ \A o \in Events, r \in Recipients : RowFits(o, r)
    /\ \A e, o \in Events, r \in Recipients : VersionFits(e, o, r)

\* An event has one home among the rows of a recipient, empty once it is told.
Lives(x, o, r) == x \in items[o][r] \/ \E e \in Events : x \in Version(e, o, r)
OneHome ==
    \A x, o \in Events, r \in Recipients : Lives(x, o, r) =>
        /\ \A p \in Events : Lives(x, p, r) => o = p
        /\ x \in Told(r) => items[o][r] = {}

\* What becomes of an event that is noted: it is in the hands of who records it,
\* or found its row told; once committed it is kept, or there is a reason.
Noted(e, r) == wSched[e][r] # NoSched \/ (pc[e] = "schedule" /\ r = Head(todo[e]))
NoteIsKept(e, r) ==
    Noted(e, r) => \/ \E o \in Events : e \in wItem[e][o][r]
                   \/ \E o \in Events \ {e} : SameKey(o, e) /\ o \in Told(r)
Explains(o, e, r) ==
    pc[o] = "done" /\ SameKey(o, e) /\ (at[o] = at[e] \/ o \in Told(r))
RecordIsKept(e, r) ==
    /\ e \in recorded[r] \cup opened[r] => pc[e] = "done"
    /\ e \in opened[r] => e \in items[e][r] \cup Told(r)
    /\ e \in recorded[r] \ (Pending(r) \cup Told(r)) => \E o \in Events \ {e} : Explains(o, e, r)
RecordsAreKept == \A e \in Events, r \in Recipients : NoteIsKept(e, r) /\ RecordIsKept(e, r)

StoryInv == CapInv /\ TodoIsAhead /\ RowsFit /\ OneHome /\ RecordsAreKept /\ ToldOnce
=============================================================================
