-------------------------- MODULE EmailOutbox_proofs --------------------------
(***************************************************************************)
(* Theorems about the e-mail outbox, for every set of messages, of         *)
(* business transactions and of overlapping ticks, every batch size, cap   *)
(* and backoff; and that the outbox implements MailPromise.                *)
(***************************************************************************)
EXTENDS EmailOutbox, FiniteSetTheorems, TLAPS

-----------------------------------------------------------------------------
\* A power of two is as large as a power set, hence a natural number.
LEMMA PowersOfTwo == ASSUME NEW n \in Nat PROVE 2 ^ n \in Nat
  <1>1. IsFiniteSet(1 .. n) /\ Cardinality(1 .. n) = n
    BY FS_Interval
  <1>2. IsFiniteSet(SUBSET (1 .. n)) /\ Cardinality(SUBSET (1 .. n)) = 2 ^ n
    BY <1>1, FS_SUBSET
  <1> QED BY <1>2, FS_CardinalityType

LEMMA BackoffType ==
    ASSUME NEW n \in Nat, NEW m \in Nat
    PROVE  Less(Backoff(n), m) \in Nat
  <1>1. 2 ^ n \in Nat /\ MaxBackoff \in Nat
    BY PowersOfTwo, OutboxAssumption DEF OutboxAssumption
  <1>2. Backoff(n) \in Nat
    BY <1>1 DEF Backoff, Least
  <1> QED BY <1>2 DEF Less

\* Rows, and what a minute does to them: they come due, and stay what they are.
LEMMA RowFacts ==
    /\ NoRow \in Row /\ Fresh \in Row /\ Fresh # NoRow
    /\ NoRow.status = "none" /\ NoRow.attempts = 0
    /\ Fresh.status = "queued" /\ Fresh.attempts = 0
    /\ NoRows \in [Keys -> Row]
  BY DEF NoRow, Fresh, Row, Statuses, NoRows

LEMMA LaterFacts ==
    ASSUME NEW r \in Row
    PROVE  /\ Later(r) \in Row /\ Later(r).status = r.status /\ Later(r).attempts = r.attempts
           /\ r = NoRow => Later(r) = NoRow
  <1>1. /\ Later(r) \in Row /\ Later(r).status = r.status /\ Later(r).attempts = r.attempts
    BY DEF Later, Less, Row
  <1>2. Later(NoRow) = NoRow
    BY DEF Later, Less, NoRow
  <1> QED BY <1>1, <1>2

\* What claim takes: rows that are due, so queued or failed, not out of attempts, and in
\* no other tick's batch.
LEMMA ClaimedRows ==
    ASSUME NEW B \in Batches, NEW k \in B
    PROVE  k \in Keys /\ Due(k)
  BY DEF Batches

\* A row that is claimed, and a row that is marked.
LEMMA ClaimedRow ==
    ASSUME NEW r \in Row, NEW c, c = [r EXCEPT !.status = "sending", !.attempts = @ + 1]
    PROVE  c \in Row /\ c.status = "sending" /\ c.attempts = r.attempts + 1
  <1>1. r.attempts \in Nat /\ r.attempts + 1 \in Nat
    BY DEF Row
  <1> QED BY <1>1 DEF Row, Statuses

LEMMA MarkedRow ==
    ASSUME NEW r \in Row, NEW w \in Workers, elapsed[w] \in Nat,
           NEW s \in {"queued", "failed"}
    PROVE  LET sent == [r EXCEPT !.status = "sent", !.secret = FALSE]
               back == [r EXCEPT !.status = s, !.wait = Less(Backoff(r.attempts), elapsed[w])]
           IN /\ sent \in Row /\ sent.status = "sent" /\ sent.attempts = r.attempts
              /\ back \in Row /\ back.status = s /\ back.attempts = r.attempts
  <1>1. r.attempts \in Nat
    BY DEF Row
  <1>2. Less(Backoff(r.attempts), elapsed[w]) \in Nat
    BY <1>1, BackoffType
  <1> QED BY <1>2 DEF Row, Statuses
-----------------------------------------------------------------------------
\* What each step of a tick does to what it has of a row, and to nobody else's.
LEMMA Claiming ==
    ASSUME TypeOK, NEW w \in Workers, Claim(w)
    PROVE  \E B \in SUBSET Keys :
              /\ \A k \in B : Due(k)
              /\ batch[w] = {} /\ batch'[w] = B /\ queue'[w] = B
              /\ \A k \in B : /\ draft'[w][k] \in Row /\ draft'[w][k].status = "sending"
                              /\ draft'[w][k].attempts = row[k].attempts + 1
              /\ \A v \in Workers \ {w} :
                    batch'[v] = batch[v] /\ queue'[v] = queue[v] /\ draft'[v] = draft[v]
              /\ batch' \in [Workers -> SUBSET Keys] /\ queue' \in [Workers -> SUBSET Keys]
              /\ draft' \in [Workers -> [Keys -> Row]]
  <1>1. PICK B \in Batches :
          /\ batch' = [batch EXCEPT ![w] = B]
          /\ queue' = [queue EXCEPT ![w] = B]
          /\ draft' = [draft EXCEPT ![w] = [k \in Keys |->
                 IF k \in B
                 THEN [row[k] EXCEPT !.status = "sending", !.attempts = @ + 1]
                 ELSE NoRow]]
    BY DEF Claim
  <1>2. B \in SUBSET Keys /\ \A k \in B : Due(k)
    BY ClaimedRows
  <1> DEFINE c(k) == [row[k] EXCEPT !.status = "sending", !.attempts = @ + 1]
             f == [k \in Keys |-> IF k \in B THEN c(k) ELSE NoRow]
  <1>3. \A k \in Keys : c(k) \in Row /\ c(k).status = "sending"
                        /\ c(k).attempts = row[k].attempts + 1
    BY ClaimedRow DEF TypeOK
  <1> HIDE DEF c
  <1>4. f \in [Keys -> Row] /\ \A k \in B : f[k] = c(k)
    BY <1>2, <1>3, RowFacts
  <1>5. draft' = [draft EXCEPT ![w] = f]
    BY <1>1 DEF c
  <1> HIDE DEF f
  <1>6. batch[w] = {}
    BY DEF Claim, Ticking
  <1>7. /\ batch' \in [Workers -> SUBSET Keys] /\ batch'[w] = B
        /\ queue' \in [Workers -> SUBSET Keys] /\ queue'[w] = B
        /\ \A v \in Workers \ {w} : batch'[v] = batch[v] /\ queue'[v] = queue[v]
    BY <1>1, <1>2 DEF TypeOK
  <1>8. /\ draft' \in [Workers -> [Keys -> Row]] /\ draft'[w] = f
        /\ \A v \in Workers \ {w} : draft'[v] = draft[v]
    BY <1>4, <1>5 DEF TypeOK
  <1>9. \A k \in B : /\ draft'[w][k] \in Row /\ draft'[w][k].status = "sending"
                     /\ draft'[w][k].attempts = row[k].attempts + 1
    BY <1>2, <1>3, <1>4, <1>8
  <1> QED BY <1>2, <1>6, <1>7, <1>8, <1>9

LEMMA Marking ==
    ASSUME TypeOK, NEW w \in Workers, NEW k \in Keys, NEW r \in Row, Mark(w, k, r)
    PROVE  /\ draft' \in [Workers -> [Keys -> Row]]
           /\ draft'[w][k] = r
           /\ \A l \in Keys \ {k} : draft'[w][l] = draft[w][l]
           /\ \A v \in Workers \ {w} : /\ draft'[v] = draft[v]
                                       /\ current'[v] = current[v] /\ outcome'[v] = outcome[v]
           /\ current' \in [Workers -> SUBSET Keys] /\ current'[w] = {}
           /\ outcome' \in [Workers -> Outcomes] /\ outcome'[w] = "none"
  <1>1. current' = [current EXCEPT ![w] = {}] /\ outcome' = [outcome EXCEPT ![w] = "none"]
    BY DEF Mark
  <1>2. draft' = [draft EXCEPT ![w] = [draft[w] EXCEPT ![k] = r]]
    BY DEF Mark
  <1>3. [draft[w] EXCEPT ![k] = r] \in [Keys -> Row]
    BY DEF TypeOK
  <1> QED BY <1>1, <1>2, <1>3 DEF TypeOK, Outcomes

LEMMA Ending ==
    ASSUME TypeOK, NEW w \in Workers, EndTick(w)
    PROVE  /\ batch' \in [Workers -> SUBSET Keys] /\ batch'[w] = {}
           /\ elapsed' \in [Workers -> Nat]
           /\ queue' \in [Workers -> SUBSET Keys] /\ queue'[w] = {}
           /\ current' \in [Workers -> SUBSET Keys] /\ current'[w] = {}
           /\ outcome' \in [Workers -> Outcomes] /\ outcome'[w] = "none"
           /\ draft' \in [Workers -> [Keys -> Row]]
           /\ \A v \in Workers \ {w} :
                 /\ batch'[v] = batch[v] /\ queue'[v] = queue[v] /\ current'[v] = current[v]
                 /\ outcome'[v] = outcome[v] /\ draft'[v] = draft[v]
  BY RowFacts DEF EndTick, TypeOK, Outcomes
-----------------------------------------------------------------------------
LEMMA OutboxInit == Init => OutboxInv
  <1> SUFFICES ASSUME Init PROVE OutboxInv
    OBVIOUS
  <1>1. TypeOK
    BY RowFacts DEF Init, TypeOK, Outcomes
  <1>2. \A k \in Keys : row[k] = NoRow
    BY DEF Init, NoRows
  <1>3. QueuedByCommit /\ ProducersRace
    BY <1>2 DEF Init, QueuedByCommit, ProducersRace
  <1>4. RowsAreSettled
    BY <1>2, RowFacts, OutboxAssumption DEF RowsAreSettled, OutboxAssumption
  <1>5. TicksApart /\ \A w \in Workers : BatchIsClaimed(w)
    BY DEF Init, TicksApart, BatchIsClaimed
  <1>6. CopiesAreMarked
    BY <1>2, RowFacts DEF Init, CopiesAreMarked, Known, Out, Undone
  <1> QED BY <1>1, <1>3, <1>4, <1>5, <1>6 DEF OutboxInv

LEMMA TypeNext == TypeOK /\ [Next]_vars => TypeOK'
  <1> SUFFICES ASSUME TypeOK, [Next]_vars PROVE TypeOK'
    OBVIOUS
  <1>1. ASSUME NEW p \in Producers, Enqueue(p) PROVE TypeOK'
    BY <1>1 DEF Enqueue, TypeOK, ticks, provider
  <1>2. ASSUME NEW p \in Producers, Commit(p) PROVE TypeOK'
    <2>1. KeyOf[p] \in Keys /\ insert[p] \in Row
      BY RowFacts, OutboxAssumption DEF OutboxAssumption, TypeOK
    <2>2. row' \in [Keys -> Row]
      BY <1>2, <2>1 DEF Commit, TypeOK
    <2> QED BY <1>2, <2>2 DEF Commit, TypeOK, ticks, provider
  <1>3. ASSUME NEW p \in Producers, Abort(p) PROVE TypeOK'
    BY <1>3 DEF Abort, TypeOK, ticks, provider
  <1>4. ASSUME NEW w \in Workers, Claim(w) PROVE TypeOK'
    BY <1>4, Claiming DEF Claim, TypeOK, producers, provider
  <1>5. ASSUME NEW w \in Workers, Send(w) PROVE TypeOK'
    BY <1>5 DEF Send, TypeOK, producers
  <1>6. ASSUME NEW w \in Workers, NEW k \in Keys, NEW r \in Row, Mark(w, k, r) PROVE TypeOK'
    <2>1. /\ draft' \in [Workers -> [Keys -> Row]]
          /\ current' \in [Workers -> SUBSET Keys] /\ outcome' \in [Workers -> Outcomes]
      BY <1>6, Marking
    <2> QED BY <1>6, <2>1 DEF Mark, TypeOK, producers, provider
  <1>7. ASSUME NEW w \in Workers, NEW k \in current[w]
        PROVE  k \in Keys /\ draft[w][k] \in Row /\ elapsed[w] \in Nat
    BY DEF TypeOK
  <1>8. ASSUME NEW w \in Workers, MarkSent(w) PROVE TypeOK'
    <2>1. PICK k \in current[w] :
             Mark(w, k, [draft[w][k] EXCEPT !.status = "sent", !.secret = FALSE])
      BY <1>8 DEF MarkSent
    <2>2. [draft[w][k] EXCEPT !.status = "sent", !.secret = FALSE] \in Row
      BY <1>7, MarkedRow
    <2> QED BY <1>6, <1>7, <2>1, <2>2
  <1>9. ASSUME NEW w \in Workers, MarkFailed(w) PROVE TypeOK'
    <2>1. PICK k \in current[w], s \in {"queued", "failed"} :
             Mark(w, k, [draft[w][k] EXCEPT !.status = s,
                            !.wait = Less(Backoff(draft[w][k].attempts), elapsed[w])])
      BY <1>9 DEF MarkFailed
    <2>2. [draft[w][k] EXCEPT !.status = s,
                            !.wait = Less(Backoff(draft[w][k].attempts), elapsed[w])] \in Row
      BY <1>7, MarkedRow
    <2> QED BY <1>6, <1>7, <2>1, <2>2
  <1>10. ASSUME NEW w \in Workers, CommitTick(w) PROVE TypeOK'
    <2>1. row' \in [Keys -> Row]
      BY <1>10 DEF CommitTick, TypeOK
    <2> QED BY <1>10, <2>1, Ending DEF CommitTick, TypeOK, producers, provider
  <1>11. ASSUME NEW w \in Workers, FailTick(w) PROVE TypeOK'
    <2>1. excused' \in [Keys -> Nat] /\ failures' \in Nat
      BY <1>11 DEF FailTick, TypeOK
    <2> QED BY <1>11, <2>1, Ending DEF FailTick, TypeOK, producers
  <1>12. ASSUME Tick PROVE TypeOK'
    <2>1. row' \in [Keys -> Row]
      BY <1>12, LaterFacts DEF Tick, TypeOK
    <2>2. \A w \in Workers, k \in Keys : Later(draft[w][k]) \in Row
      BY LaterFacts DEF TypeOK
    <2>3. draft' \in [Workers -> [Keys -> Row]]
      BY <1>12, <2>2 DEF Tick
    <2>4. elapsed' \in [Workers -> Nat]
      BY <1>12, OutboxAssumption DEF Tick, TypeOK, Least, OutboxAssumption
    <2> QED BY <1>12, <2>1, <2>3, <2>4 DEF Tick, TypeOK, producers, provider
  <1>13. CASE UNCHANGED vars
    BY <1>13 DEF vars, producers, ticks, provider, TypeOK
  <1> QED BY <1>1, <1>2, <1>3, <1>4, <1>5, <1>8, <1>9, <1>10, <1>11, <1>12, <1>13
          DEF Next, TickStep
-----------------------------------------------------------------------------
\* What is in the table and who has put it there, when a tick goes on: the rows there are
\* stay rows, and no row comes to be.
LEMMA ProducersKept ==
    ASSUME QueuedByCommit, ProducersRace, UNCHANGED <<pc, insert>>,
           \A k \in Keys : row'[k] = NoRow <=> row[k] = NoRow
    PROVE  QueuedByCommit' /\ ProducersRace'
  <1>1. \A p \in Producers : KeyOf[p] \in Keys
    BY OutboxAssumption DEF OutboxAssumption
  <1> QED BY <1>1 DEF QueuedByCommit, ProducersRace

\* A business transaction leaves the ticks alone, and the rows they have claimed.
LEMMA ProducersNext ==
    ASSUME TypeOK, QueuedByCommit, ProducersRace, NEW p \in Producers,
           Enqueue(p) \/ Commit(p) \/ Abort(p)
    PROVE  /\ QueuedByCommit' /\ ProducersRace'
           /\ \A k \in Keys : row'[k] = row[k] \/ (row[k] = NoRow /\ row'[k] = Fresh)
           /\ UNCHANGED <<ticks, provider, failures>>
  <1>0. \A q \in Producers : KeyOf[q] \in Keys
    BY OutboxAssumption DEF OutboxAssumption
  <1>1. CASE Enqueue(p)
    <2>1. /\ UNCHANGED <<row, ticks, provider, failures>>
          /\ pc[p] = "idle" /\ pc'[p] = "enqueued"
          /\ \A q \in Producers \ {p} : pc'[q] = pc[q] /\ insert'[q] = insert[q]
          /\ insert'[p] = IF row[KeyOf[p]] = NoRow THEN Fresh ELSE insert[p]
          /\ \A q \in Producers : KeyOf[q] = KeyOf[p] => insert[q] = NoRow
      BY <1>1 DEF Enqueue, TypeOK
    <2>2. QueuedByCommit'
      BY <2>1 DEF QueuedByCommit
    <2>3. ProducersRace'
      BY <2>1, RowFacts DEF ProducersRace
    <2> QED BY <2>1, <2>2, <2>3
  <1>2. CASE Commit(p)
    <2>1. /\ UNCHANGED <<ticks, provider, failures>>
          /\ pc[p] = "enqueued" /\ pc'[p] = "done"
          /\ \A q \in Producers \ {p} : pc'[q] = pc[q] /\ insert'[q] = insert[q]
          /\ insert'[p] = NoRow
      BY <1>2 DEF Commit, TypeOK
    <2>2. CASE insert[p] = NoRow
      <3>1. row' = row /\ row[KeyOf[p]] # NoRow
        BY <1>2, <2>1, <2>2 DEF Commit, ProducersRace
      <3> QED BY <1>0, <2>1, <3>1 DEF QueuedByCommit, ProducersRace
    <2>3. CASE insert[p] # NoRow
      <3>1. /\ row[KeyOf[p]] = NoRow /\ row'[KeyOf[p]] = Fresh
            /\ \A k \in Keys \ {KeyOf[p]} : row'[k] = row[k]
        BY <1>0, <1>2, <2>3 DEF Commit, ProducersRace, TypeOK
      <3>2. QueuedByCommit'
        <4> SUFFICES ASSUME NEW k \in Keys
                     PROVE  row'[k] # NoRow <=> \E q \in Producers : KeyOf[q] = k /\ pc'[q] = "done"
          BY DEF QueuedByCommit
        <4> QED BY <2>1, <3>1, RowFacts DEF QueuedByCommit
      <3>3. ProducersRace'
        <4>1. \A q \in Producers : insert'[q] # NoRow =>
                 q # p /\ insert[q] # NoRow /\ KeyOf[q] # KeyOf[p]
          BY <2>1, <2>3 DEF ProducersRace
        <4> QED BY <1>0, <2>1, <3>1, <4>1, RowFacts DEF ProducersRace
      <3> QED BY <2>1, <3>1, <3>2, <3>3
    <2> QED BY <2>2, <2>3
  <1>3. CASE Abort(p)
    <2>1. /\ UNCHANGED <<row, ticks, provider, failures>>
          /\ pc[p] = "enqueued" /\ pc'[p] = "aborted"
          /\ \A q \in Producers \ {p} : pc'[q] = pc[q] /\ insert'[q] = insert[q]
          /\ insert'[p] = NoRow
      BY <1>3 DEF Abort, TypeOK
    <2>2. QueuedByCommit'
      BY <2>1 DEF QueuedByCommit
    <2>3. ProducersRace'
      BY <2>1, RowFacts DEF ProducersRace
    <2> QED BY <2>1, <2>2, <2>3
  <1> QED BY <1>1, <1>2, <1>3
-----------------------------------------------------------------------------
TicksInv ==
    /\ TypeOK /\ RowsAreSettled /\ TicksApart /\ CopiesAreMarked
    /\ \A w \in Workers : BatchIsClaimed(w)

\* What a tick has claimed, while what it knows of those rows stays the same.
LEMMA BatchKept ==
    ASSUME NEW w \in Workers, BatchIsClaimed(w),
           batch'[w] = batch[w], queue'[w] = queue[w], current'[w] = current[w],
           outcome'[w] = outcome[w],
           \A k \in batch[w] : /\ row'[k].status = row[k].status
                               /\ row'[k].attempts = row[k].attempts
                               /\ draft'[w][k].status = draft[w][k].status
                               /\ draft'[w][k].attempts = draft[w][k].attempts
    PROVE  BatchIsClaimed(w)' /\ Undone(w)' = Undone(w)
  BY DEF BatchIsClaimed, Undone

\* Copies stay accounted for when nothing is sent and the marks say the same.
LEMMA CopiesKept ==
    ASSUME CopiesAreMarked, UNCHANGED <<accepted, excused, failures>>,
           \A k \in Keys : /\ row'[k].status = "sent" <=> row[k].status = "sent"
                           /\ row'[k].attempts = row[k].attempts,
           \A w \in Workers : /\ Undone(w)' = Undone(w)
                              /\ (batch[w] \ queue[w])' = batch[w] \ queue[w]
    PROVE  CopiesAreMarked'
  <1>1. \A k \in Keys : (Known(k)' <=> Known(k)) /\ (Out(k)' <=> Out(k))
    BY DEF Known, Out
  <1> QED BY <1>1 DEF CopiesAreMarked

\* The one tick that has claimed a row.
LEMMA OneHolder ==
    ASSUME TicksInv, NEW w \in Workers, NEW k \in batch[w]
    PROVE  /\ k \in Keys /\ row[k].status \in {"queued", "failed"}
           /\ \A v \in Workers \ {w} : k \notin batch[v]
           /\ Known(k) <=> k \in Undone(w)
           /\ Out(k) <=> k \notin queue[w]
  <1>1. k \in Keys /\ row[k].status \in {"queued", "failed"}
    BY DEF TicksInv, TypeOK, BatchIsClaimed
  <1>2. \A v \in Workers \ {w} : k \notin batch[v]
    BY DEF TicksInv, TicksApart
  <1> QED BY <1>1, <1>2 DEF Known, Out, Undone

LEMMA TicksProducer ==
    ASSUME TicksInv, TypeOK', UNCHANGED <<ticks, provider, failures>>,
           \A k \in Keys : row'[k] = row[k] \/ (row[k] = NoRow /\ row'[k] = Fresh)
    PROVE  TicksInv'
  <1>1. ASSUME NEW w \in Workers
        PROVE  BatchIsClaimed(w)' /\ Undone(w)' = Undone(w)
    <2>1. \A k \in batch[w] : row'[k] = row[k]
      BY OneHolder, RowFacts
    <2> QED BY <2>1, BatchKept DEF TicksInv, ticks
  <1>2. RowsAreSettled'
    BY RowFacts, OutboxAssumption DEF TicksInv, RowsAreSettled, OutboxAssumption
  <1>3. CopiesAreMarked'
    BY <1>1, RowFacts, CopiesKept DEF TicksInv, ticks, provider
  <1> QED BY <1>1, <1>2, <1>3 DEF TicksInv, TicksApart, ticks

LEMMA TicksClaim ==
    ASSUME TicksInv, TypeOK', NEW w \in Workers, Claim(w)
    PROVE  TicksInv'
  <1>0. TypeOK
    BY DEF TicksInv
  <1>1. PICK B \in SUBSET Keys :
              /\ \A k \in B : Due(k)
              /\ batch[w] = {} /\ batch'[w] = B /\ queue'[w] = B
              /\ \A k \in B : /\ draft'[w][k] \in Row /\ draft'[w][k].status = "sending"
                              /\ draft'[w][k].attempts = row[k].attempts + 1
              /\ \A v \in Workers \ {w} :
                    batch'[v] = batch[v] /\ queue'[v] = queue[v] /\ draft'[v] = draft[v]
    BY <1>0, Claiming
  <1>2. UNCHANGED <<row, current, outcome, accepted, excused, failures>>
    BY DEF Claim, provider
  <1>3. current[w] = {} /\ outcome[w] = "none" /\ queue[w] = {}
    BY <1>1 DEF TicksInv, BatchIsClaimed
  <1>4. ASSUME NEW v \in Workers PROVE BatchIsClaimed(v)' /\ Undone(v)' = Undone(v)
    <2>1. CASE v # w
      BY <1>1, <1>2, <2>1, BatchKept DEF TicksInv
    <2>2. CASE v = w
      BY <1>1, <1>2, <1>3, <2>2 DEF BatchIsClaimed, Undone, Due
    <2> QED BY <2>1, <2>2
  <1>5. TicksApart'
    BY <1>1 DEF TicksInv, TicksApart, Due, Locked
  <1>6. CopiesAreMarked'
    <2>1. \A v \in Workers : (batch[v] \ queue[v])' = batch[v] \ queue[v]
      BY <1>1, <1>3
    <2> QED BY <1>2, <1>4, <2>1, CopiesKept DEF TicksInv
  <1> QED BY <1>2, <1>4, <1>5, <1>6 DEF TicksInv, RowsAreSettled

LEMMA TicksSend ==
    ASSUME TicksInv, TypeOK', NEW w \in Workers, Send(w)
    PROVE  TicksInv'
  <1>1. PICK k \in queue[w], o \in Outcomes \ {"none"}, taken \in BOOLEAN :
          /\ o = "ok" => taken
          /\ o = "fatal" => ~taken
          /\ queue' = [queue EXCEPT ![w] = @ \ {k}]
          /\ current' = [current EXCEPT ![w] = {k}]
          /\ outcome' = [outcome EXCEPT ![w] = o]
          /\ accepted' = IF taken THEN [accepted EXCEPT ![k] = @ + 1] ELSE accepted
          /\ excused' = IF taken /\ o # "ok" THEN [excused EXCEPT ![k] = @ + 1]
                                             ELSE excused
    BY DEF Send
  <1>2. current[w] = {} /\ UNCHANGED <<row, batch, draft, failures>>
    BY DEF Send
  <1>3. k \in batch[w] /\ draft[w][k].status = "sending" /\ k \in Keys
    BY <1>1 DEF TicksInv, BatchIsClaimed, TypeOK
  <1>4. /\ queue'[w] = queue[w] \ {k} /\ current'[w] = {k} /\ outcome'[w] = o
        /\ \A v \in Workers \ {w} : /\ queue'[v] = queue[v] /\ current'[v] = current[v]
                                    /\ outcome'[v] = outcome[v]
    BY <1>1 DEF TicksInv, TypeOK
  <1>5. ASSUME NEW v \in Workers \ {w} PROVE BatchIsClaimed(v)' /\ Undone(v)' = Undone(v)
    BY <1>2, <1>4, BatchKept DEF TicksInv
  <1>6. BatchIsClaimed(w)'
    BY <1>1, <1>2, <1>3, <1>4 DEF TicksInv, BatchIsClaimed
  <1>7. Undone(w)' = IF o = "ok" THEN Undone(w) \cup {k} ELSE Undone(w)
    BY <1>2, <1>3, <1>4 DEF Undone
  <1>8. ~Known(k) /\ ~Out(k)
    BY <1>1, <1>2, <1>3, OneHolder DEF Undone
  <1>9. (Known(k)' <=> o = "ok") /\ Out(k)'
    <2>1. k \notin Undone(w) /\ \A v \in Workers : k \notin Undone(v)
      BY <1>8 DEF Known
    <2> QED BY <1>2, <1>3, <1>4, <1>5, <1>7, <1>8, <2>1 DEF Known, Out
  <1>10. ASSUME NEW l \in Keys \ {k} PROVE (Known(l)' <=> Known(l)) /\ (Out(l)' <=> Out(l))
    BY <1>2, <1>4, <1>5, <1>7 DEF Known, Out
  <1>11. CopiesAreMarked'
    <2> SUFFICES ASSUME NEW l \in Keys
                 PROVE  /\ accepted'[l] <= excused'[l] + (IF Known(l)' THEN 1 ELSE 0)
                        /\ accepted'[l] <= row'[l].attempts + failures'
                                              + (IF Out(l)' THEN 1 ELSE 0)
                        /\ Known(l)' => accepted'[l] > 0
      BY DEF CopiesAreMarked
    <2>1. /\ accepted[l] <= excused[l] + (IF Known(l) THEN 1 ELSE 0)
          /\ accepted[l] <= row[l].attempts + failures + (IF Out(l) THEN 1 ELSE 0)
          /\ Known(l) => accepted[l] > 0
          /\ accepted[l] \in Nat /\ excused[l] \in Nat /\ failures \in Nat
          /\ row[l].attempts \in Nat
      BY DEF TicksInv, CopiesAreMarked, TypeOK, Row
    <2>2. CASE l # k
      <3>1. accepted'[l] = accepted[l] /\ excused'[l] = excused[l]
        BY <1>1, <2>2 DEF TicksInv, TypeOK
      <3> QED BY <1>2, <1>10, <2>1, <2>2, <3>1
    <2>3. CASE l = k
      <3>1. /\ accepted'[k] = IF taken THEN accepted[k] + 1 ELSE accepted[k]
            /\ excused'[k] = IF taken /\ o # "ok" THEN excused[k] + 1 ELSE excused[k]
        BY <1>1, <1>3 DEF TicksInv, TypeOK
      <3> QED BY <1>1, <1>2, <1>8, <1>9, <2>1, <2>3, <3>1
    <2> QED BY <2>2, <2>3
  <1> QED BY <1>2, <1>5, <1>6, <1>11 DEF TicksInv, RowsAreSettled, TicksApart

LEMMA TicksMark ==
    ASSUME TicksInv, TypeOK', NEW w \in Workers, NEW k \in current[w], NEW r \in Row,
           Mark(w, k, r), r.attempts = draft[w][k].attempts,
           r.status \in {"sent", "queued", "failed"}, r.status = "sent" <=> outcome[w] = "ok"
    PROVE  TicksInv'
  <1>1. /\ k \in Keys /\ k \in batch[w] /\ k \notin queue[w] /\ \A l \in current[w] : l = k
        /\ draft[w][k].status = "sending"
    BY DEF TicksInv, TypeOK, BatchIsClaimed
  <1>2. /\ draft'[w][k] = r /\ \A l \in Keys \ {k} : draft'[w][l] = draft[w][l]
        /\ current'[w] = {} /\ outcome'[w] = "none"
        /\ \A v \in Workers \ {w} : /\ draft'[v] = draft[v]
                                    /\ current'[v] = current[v] /\ outcome'[v] = outcome[v]
    BY <1>1, Marking DEF TicksInv
  <1>3. UNCHANGED <<row, batch, queue, accepted, excused, failures>>
    BY DEF Mark, provider
  <1>4. ASSUME NEW v \in Workers \ {w} PROVE BatchIsClaimed(v)' /\ Undone(v)' = Undone(v)
    BY <1>2, <1>3, BatchKept DEF TicksInv
  <1>5. BatchIsClaimed(w)'
    <2>1. \A l \in batch[w] : l \in Keys
      BY DEF TicksInv, TypeOK
    <2> QED BY <1>1, <1>2, <1>3, <2>1 DEF TicksInv, BatchIsClaimed
  <1>6. Undone(w)' = Undone(w)
    <2>1. ASSUME NEW l \in batch[w] PROVE (l \in Undone(w)') <=> l \in Undone(w)
      <3>1. l \in Keys
        BY <2>1 DEF TicksInv, TypeOK
      <3>2. CASE l = k
        BY <1>1, <1>2, <1>3, <3>2 DEF Undone
      <3>3. CASE l # k
        BY <1>1, <1>2, <1>3, <3>1, <3>3 DEF Undone
      <3> QED BY <3>2, <3>3
    <2> QED BY <1>3, <2>1 DEF Undone
  <1>7. CopiesAreMarked'
    BY <1>3, <1>4, <1>6, CopiesKept DEF TicksInv
  <1> QED BY <1>3, <1>4, <1>5, <1>7 DEF TicksInv, RowsAreSettled, TicksApart

LEMMA TicksMarks ==
    ASSUME TicksInv, TypeOK', NEW w \in Workers, MarkSent(w) \/ MarkFailed(w)
    PROVE  TicksInv'
  <1>1. ASSUME NEW k \in current[w]
        PROVE  draft[w][k] \in Row /\ elapsed[w] \in Nat
    BY DEF TicksInv, TypeOK
  <1>2. CASE MarkSent(w)
    <2>1. PICK k \in current[w] :
             Mark(w, k, [draft[w][k] EXCEPT !.status = "sent", !.secret = FALSE])
      BY <1>2 DEF MarkSent
    <2> DEFINE r == [draft[w][k] EXCEPT !.status = "sent", !.secret = FALSE]
    <2>2. r \in Row /\ r.status = "sent" /\ r.attempts = draft[w][k].attempts
      BY <1>1, MarkedRow
    <2>3. outcome[w] = "ok" /\ Mark(w, k, r)
      BY <1>2, <2>1 DEF MarkSent
    <2> HIDE DEF r
    <2> QED BY <2>2, <2>3, TicksMark
  <1>3. CASE MarkFailed(w)
    <2>1. PICK k \in current[w], s \in {"queued", "failed"} :
             Mark(w, k, [draft[w][k] EXCEPT !.status = s,
                            !.wait = Less(Backoff(draft[w][k].attempts), elapsed[w])])
      BY <1>3 DEF MarkFailed
    <2> DEFINE r == [draft[w][k] EXCEPT !.status = s,
                            !.wait = Less(Backoff(draft[w][k].attempts), elapsed[w])]
    <2>2. r \in Row /\ r.status = s /\ r.attempts = draft[w][k].attempts
      <3>1. draft[w][k] \in Row /\ elapsed[w] \in Nat
        BY <1>1
      <3>2. Less(Backoff(draft[w][k].attempts), elapsed[w]) \in Nat
        BY <3>1, BackoffType DEF Row
      <3> QED BY <3>1, <3>2 DEF Row, Statuses
    <2>3. outcome[w] # "ok" /\ Mark(w, k, r)
      BY <1>3, <2>1 DEF MarkFailed
    <2> HIDE DEF r
    <2> QED BY <2>2, <2>3, TicksMark
  <1> QED BY <1>2, <1>3

LEMMA TicksCommit ==
    ASSUME TicksInv, TypeOK', NEW w \in Workers, CommitTick(w)
    PROVE  /\ TicksInv'
           /\ \A k \in Keys : row'[k] = NoRow <=> row[k] = NoRow
           /\ \A k \in Keys \ batch[w] : row'[k] = row[k]
           /\ \A k \in batch[w] : /\ row'[k] = draft[w][k]
                                  /\ row'[k].status \in {"sent", "queued", "failed"}
                                  /\ row'[k].status = "sent" <=> k \in Undone(w)
  <1>1. /\ batch'[w] = {} /\ queue'[w] = {} /\ current'[w] = {} /\ outcome'[w] = "none"
        /\ \A v \in Workers \ {w} :
                 /\ batch'[v] = batch[v] /\ queue'[v] = queue[v] /\ current'[v] = current[v]
                 /\ outcome'[v] = outcome[v] /\ draft'[v] = draft[v]
    BY Ending DEF TicksInv, CommitTick
  <1>2. /\ queue[w] = {} /\ current[w] = {} /\ UNCHANGED <<accepted, excused, failures>>
        /\ \A k \in Keys : row'[k] = IF k \in batch[w] THEN draft[w][k] ELSE row[k]
    BY DEF CommitTick, provider
  <1>3. ASSUME NEW k \in batch[w]
        PROVE  /\ k \in Keys /\ row'[k] = draft[w][k] /\ row'[k] \in Row
               /\ row'[k].attempts = row[k].attempts + 1 /\ row[k].attempts < MaxAttempts
               /\ row'[k].status \in {"sent", "queued", "failed"}
               /\ row'[k].status = "sent" <=> k \in Undone(w)
               /\ row[k].status # "none"
    <2>1. k \in Keys /\ row'[k] = draft[w][k] /\ row'[k] \in Row
      BY <1>2 DEF TicksInv, TypeOK
    <2>2. /\ draft[w][k].status \notin {"sending", "none"}
          /\ draft[w][k].attempts = row[k].attempts + 1 /\ row[k].attempts < MaxAttempts
          /\ row[k].status \in {"queued", "failed"}
      BY <1>2 DEF TicksInv, BatchIsClaimed
    <2> QED BY <1>2, <2>1, <2>2 DEF Row, Statuses, Undone
  <1>4. \A k \in Keys : row'[k] = NoRow <=> row[k] = NoRow
    BY <1>2, <1>3, RowFacts
  <1>5. RowsAreSettled'
    <2> SUFFICES ASSUME NEW k \in Keys
                 PROVE  /\ row'[k].status # "sending"
                        /\ row'[k].status = "none" => row'[k] = NoRow
                        /\ row'[k].attempts <= MaxAttempts
      BY DEF RowsAreSettled
    <2>1. row[k].attempts \in Nat /\ MaxAttempts \in Nat
      BY OutboxAssumption DEF TicksInv, TypeOK, Row, OutboxAssumption
    <2> QED BY <1>2, <1>3, <2>1 DEF TicksInv, RowsAreSettled
  <1>6. ASSUME NEW v \in Workers PROVE BatchIsClaimed(v)'
    <2>1. CASE v # w
      <3>1. \A k \in batch[v] : k \in Keys /\ row'[k] = row[k]
        BY <1>2, <2>1, OneHolder
      <3> QED BY <1>1, <2>1, <3>1, BatchKept DEF TicksInv
    <2>2. CASE v = w
      BY <1>1, <2>2 DEF BatchIsClaimed
    <2> QED BY <2>1, <2>2
  <1>7. TicksApart'
    BY <1>1 DEF TicksInv, TicksApart
  <1>8. ASSUME NEW v \in Workers \ {w} PROVE Undone(v)' = Undone(v)
    BY <1>1, <1>8 DEF Undone
  <1>9. Undone(w)' = {}
    BY <1>1 DEF Undone
  <1>10. ASSUME NEW k \in Keys
         PROVE  /\ Known(k)' <=> Known(k)
                /\ Out(k)' <=> Out(k) /\ k \notin batch[w]
    <2>1. CASE k \in batch[w]
      <3>1. \A v \in Workers \ {w} : k \notin batch[v]
        BY <2>1, OneHolder
      <3>2. Known(k)' <=> Known(k)
        BY <1>3, <1>8, <1>9, <2>1, <3>1, OneHolder DEF Known, Undone
      <3>3. ~Out(k)'
        BY <1>1, <3>1 DEF Out
      <3> QED BY <2>1, <3>2, <3>3
    <2>2. CASE k \notin batch[w]
      <3>1. row'[k] = row[k] /\ k \notin Undone(w)
        BY <1>2, <2>2 DEF Undone
      <3>2. Known(k)' <=> Known(k)
        BY <1>8, <1>9, <3>1 DEF Known
      <3>3. Out(k)' <=> Out(k)
        BY <1>1, <2>2 DEF Out
      <3> QED BY <2>2, <3>2, <3>3
    <2> QED BY <2>1, <2>2
  <1>11. CopiesAreMarked'
    <2> SUFFICES ASSUME NEW k \in Keys
                 PROVE  /\ accepted'[k] <= excused'[k] + (IF Known(k)' THEN 1 ELSE 0)
                        /\ accepted'[k] <= row'[k].attempts + failures'
                                              + (IF Out(k)' THEN 1 ELSE 0)
                        /\ Known(k)' => accepted'[k] > 0
      BY DEF CopiesAreMarked
    <2>1. /\ accepted[k] <= excused[k] + (IF Known(k) THEN 1 ELSE 0)
          /\ accepted[k] <= row[k].attempts + failures + (IF Out(k) THEN 1 ELSE 0)
          /\ Known(k) => accepted[k] > 0
          /\ accepted[k] \in Nat /\ failures \in Nat /\ row[k].attempts \in Nat
      BY DEF TicksInv, CopiesAreMarked, TypeOK, Row
    <2>2. row'[k].attempts = IF k \in batch[w] THEN row[k].attempts + 1 ELSE row[k].attempts
      BY <1>2, <1>3
    <2> QED BY <1>2, <1>10, <2>1, <2>2
  <1> QED BY <1>2, <1>3, <1>4, <1>5, <1>6, <1>7, <1>11 DEF TicksInv

LEMMA TicksFail ==
    ASSUME TicksInv, TypeOK', NEW w \in Workers, FailTick(w)
    PROVE  TicksInv'
  <1>1. /\ batch'[w] = {} /\ queue'[w] = {} /\ current'[w] = {} /\ outcome'[w] = "none"
        /\ \A v \in Workers \ {w} :
                 /\ batch'[v] = batch[v] /\ queue'[v] = queue[v] /\ current'[v] = current[v]
                 /\ outcome'[v] = outcome[v] /\ draft'[v] = draft[v]
    BY Ending DEF TicksInv, FailTick
  <1>2. /\ UNCHANGED <<row, accepted>> /\ failures' = failures + 1
        /\ \A k \in Keys : excused'[k] = IF k \in Undone(w) THEN excused[k] + 1 ELSE excused[k]
    BY DEF FailTick
  <1>3. ASSUME NEW v \in Workers PROVE BatchIsClaimed(v)'
    <2>1. CASE v # w
      BY <1>1, <1>2, <2>1, BatchKept DEF TicksInv
    <2>2. CASE v = w
      BY <1>1, <2>2 DEF BatchIsClaimed
    <2> QED BY <2>1, <2>2
  <1>4. TicksApart'
    BY <1>1 DEF TicksInv, TicksApart
  <1>5. ASSUME NEW v \in Workers \ {w} PROVE Undone(v)' = Undone(v)
    BY <1>1, <1>5 DEF Undone
  <1>6. Undone(w)' = {}
    BY <1>1 DEF Undone
  <1>7. ASSUME NEW k \in Keys
        PROVE  /\ Known(k)' => Known(k)
               /\ Known(k) => (Known(k)' \/ k \in Undone(w))
    BY <1>2, <1>5, <1>6 DEF Known
  <1>8. CopiesAreMarked'
    <2> SUFFICES ASSUME NEW k \in Keys
                 PROVE  /\ accepted'[k] <= excused'[k] + (IF Known(k)' THEN 1 ELSE 0)
                        /\ accepted'[k] <= row'[k].attempts + failures'
                                              + (IF Out(k)' THEN 1 ELSE 0)
                        /\ Known(k)' => accepted'[k] > 0
      BY DEF CopiesAreMarked
    <2>1. /\ accepted[k] <= excused[k] + (IF Known(k) THEN 1 ELSE 0)
          /\ accepted[k] <= row[k].attempts + failures + (IF Out(k) THEN 1 ELSE 0)
          /\ Known(k) => accepted[k] > 0
          /\ accepted[k] \in Nat /\ excused[k] \in Nat /\ failures \in Nat
          /\ row[k].attempts \in Nat
      BY DEF TicksInv, CopiesAreMarked, TypeOK, Row
    <2> QED BY <1>2, <1>7, <2>1
  <1> QED BY <1>2, <1>3, <1>4, <1>8 DEF TicksInv, RowsAreSettled

LEMMA TicksTick ==
    ASSUME TicksInv, TypeOK', Tick
    PROVE  /\ TicksInv'
           /\ \A k \in Keys : /\ row'[k] = NoRow <=> row[k] = NoRow
                              /\ row'[k].status = row[k].status
                              /\ row'[k].attempts = row[k].attempts
  <1>1. /\ \A k \in Keys : row'[k] = Later(row[k]) /\ row[k] \in Row
        /\ \A w \in Workers, k \in Keys :
              draft'[w][k] = Later(draft[w][k]) /\ draft[w][k] \in Row
        /\ UNCHANGED <<batch, queue, current, outcome, accepted, excused, failures>>
    BY DEF Tick, TicksInv, TypeOK, provider
  <1>2. \A k \in Keys : row'[k].status = row[k].status /\ row'[k].attempts = row[k].attempts
    BY <1>1, LaterFacts
  <1>3. \A w \in Workers, k \in Keys : /\ draft'[w][k].status = draft[w][k].status
                                       /\ draft'[w][k].attempts = draft[w][k].attempts
    BY <1>1, LaterFacts
  <1>4. ASSUME NEW w \in Workers PROVE BatchIsClaimed(w)' /\ Undone(w)' = Undone(w)
    <2>1. \A k \in batch[w] : k \in Keys
      BY DEF TicksInv, TypeOK
    <2> QED BY <1>1, <1>2, <1>3, <2>1, BatchKept DEF TicksInv
  <1>5. \A k \in Keys : row'[k] = NoRow <=> row[k] = NoRow
    BY <1>1, <1>2, LaterFacts, RowFacts DEF TicksInv, RowsAreSettled
  <1>6. RowsAreSettled'
    BY <1>2, <1>5 DEF TicksInv, RowsAreSettled
  <1>7. CopiesAreMarked'
    BY <1>1, <1>2, <1>4, CopiesKept DEF TicksInv
  <1> QED BY <1>1, <1>2, <1>4, <1>5, <1>6, <1>7 DEF TicksInv, TicksApart
-----------------------------------------------------------------------------
LEMMA OutboxNext == OutboxInv /\ [Next]_vars => OutboxInv'
  <1> SUFFICES ASSUME OutboxInv, [Next]_vars PROVE OutboxInv'
    OBVIOUS
  <1>1. TypeOK' /\ TicksInv
    BY TypeNext DEF OutboxInv, TicksInv
  <1>2. ASSUME NEW p \in Producers, Enqueue(p) \/ Commit(p) \/ Abort(p) PROVE OutboxInv'
    <2>1. /\ QueuedByCommit' /\ ProducersRace'
          /\ \A k \in Keys : row'[k] = row[k] \/ (row[k] = NoRow /\ row'[k] = Fresh)
          /\ UNCHANGED <<ticks, provider, failures>>
      BY <1>2, ProducersNext DEF OutboxInv
    <2> QED BY <1>1, <2>1, TicksProducer DEF OutboxInv, TicksInv
  <1>3. ASSUME TicksInv', UNCHANGED <<pc, insert>>,
               \A k \in Keys : row'[k] = NoRow <=> row[k] = NoRow
        PROVE  OutboxInv'
    BY <1>3, ProducersKept DEF OutboxInv, TicksInv
  <1>4. ASSUME NEW w \in Workers, Claim(w) PROVE OutboxInv'
    BY <1>1, <1>3, <1>4, TicksClaim DEF Claim, producers
  <1>5. ASSUME NEW w \in Workers, Send(w) PROVE OutboxInv'
    BY <1>1, <1>3, <1>5, TicksSend DEF Send, producers
  <1>6. ASSUME NEW w \in Workers, MarkSent(w) \/ MarkFailed(w) PROVE OutboxInv'
    <2>1. UNCHANGED <<row, pc, insert>>
      BY <1>6 DEF MarkSent, MarkFailed, Mark, producers
    <2> QED BY <1>1, <1>3, <1>6, <2>1, TicksMarks
  <1>7. ASSUME NEW w \in Workers, CommitTick(w) PROVE OutboxInv'
    BY <1>1, <1>3, <1>7, TicksCommit DEF CommitTick, producers
  <1>8. ASSUME NEW w \in Workers, FailTick(w) PROVE OutboxInv'
    BY <1>1, <1>3, <1>8, TicksFail DEF FailTick, producers
  <1>9. CASE Tick
    BY <1>1, <1>3, <1>9, TicksTick DEF Tick, producers
  <1>10. CASE UNCHANGED vars
    <2>1. /\ UNCHANGED <<row, pc, insert, batch, elapsed, queue, current, outcome, draft,
                         accepted, excused, failures>>
      BY <1>10 DEF vars, producers, ticks, provider
    <2> QED BY <2>1 DEF OutboxInv, TypeOK, QueuedByCommit, ProducersRace, RowsAreSettled,
                        TicksApart, CopiesAreMarked, BatchIsClaimed, Known, Out, Undone
  <1> QED BY <1>2, <1>4, <1>5, <1>6, <1>7, <1>8, <1>9, <1>10 DEF Next, TickStep

\* The outbox's inductive invariant: what the producers, the overlapping ticks and the
\* provider know of each message fits together after every step of any of them.
THEOREM OutboxInvariant == Spec => []OutboxInv
  BY OutboxInit, OutboxNext, PTL DEF Spec

\* A row is there exactly when a transaction that enqueued it has committed, however the
\* transactions that share a key interleave (enqueue's ON CONFLICT DO NOTHING).
THEOREM QueuedByCommitAlways == Spec => []QueuedByCommit
  <1>1. OutboxInv => QueuedByCommit
    BY DEF OutboxInv
  <1> QED BY <1>1, OutboxInvariant, PTL

LEMMA CopiesFollow == OutboxInv => CopiesAreAccounted
  <1> SUFFICES ASSUME OutboxInv PROVE CopiesAreAccounted
    OBVIOUS
  <1>1. ASSUME NEW k \in Keys
        PROVE  accepted[k] <= 1 + excused[k] /\ accepted[k] <= MaxAttempts + failures
    <2>1. /\ accepted[k] <= excused[k] + (IF Known(k) THEN 1 ELSE 0)
          /\ accepted[k] <= row[k].attempts + failures + (IF Out(k) THEN 1 ELSE 0)
          /\ accepted[k] \in Nat /\ excused[k] \in Nat /\ failures \in Nat
          /\ row[k].attempts \in Nat /\ row[k].attempts <= MaxAttempts
      BY DEF OutboxInv, CopiesAreMarked, RowsAreSettled, TypeOK, Row
    <2>2. Out(k) => row[k].attempts < MaxAttempts
      BY DEF Out, OutboxInv, BatchIsClaimed
    <2> QED BY <2>1, <2>2, OutboxAssumption DEF OutboxAssumption
  <1> QED BY <1>1 DEF CopiesAreAccounted, CopiesAreExplained, CopiesAreBounded, OutboxInv

\* What the provider takes of a message, in ticks that overlap, lose answers and roll back:
\* every copy but one has its reason, and there are at most as many as attempts and
\* rolled-back ticks.
THEOREM CopiesAreAccountedAlways == Spec => []CopiesAreAccounted
  BY CopiesFollow, OutboxInvariant, PTL
-----------------------------------------------------------------------------
\* What the rows say of their messages to those who rely on the promise.
LEMMA OutcomeFacts ==
    ASSUME NEW k \in Keys
    PROVE  /\ row[k].status = "none" => Outcome(k) = "none"
           /\ row[k].status = "sent" => Outcome(k) = "sent"
           /\ row[k].status \notin {"none", "sent", "failed"} => Outcome(k) = "pending"
           /\ row[k].status = "failed" => Outcome(k) = IF row[k].attempts >= MaxAttempts
                                                       THEN "dead" ELSE "pending"
  BY DEF Outcome

LEMMA OutcomeKept ==
    ASSUME NEW k \in Keys, row'[k].status = row[k].status, row'[k].attempts = row[k].attempts
    PROVE  Outcome(k)' = Outcome(k)
  BY DEF Outcome

\* Every step of the outbox is a step of the promise or none.
LEMMA PromiseInit == Init => Promised!Init
  BY RowFacts DEF Init, Promised!Init, NoRows, Outcome

LEMMA PromiseNext == OutboxInv /\ OutboxInv' /\ [Next]_vars => [Promised!Next]_(Promised!promise)
  <1> SUFFICES ASSUME OutboxInv, OutboxInv', [Next]_vars
               PROVE  [Promised!Next]_(Promised!promise)
    OBVIOUS
  <1>1. TypeOK' /\ TicksInv
    BY DEF OutboxInv, TicksInv
  <1>2. ASSUME UNCHANGED accepted, \A k \in Keys : Outcome(k)' = Outcome(k)
        PROVE  UNCHANGED Promised!promise
    BY <1>2 DEF Promised!promise
  <1>3. ASSUME NEW p \in Producers, Commit(p) PROVE [Promised!Next]_(Promised!promise)
    <2>1. UNCHANGED accepted /\ KeyOf[p] \in Keys
      BY <1>3, OutboxAssumption DEF Commit, provider, OutboxAssumption
    <2>2. CASE insert[p] = NoRow
      BY <1>2, <1>3, <2>1, <2>2 DEF Commit, Outcome
    <2>3. CASE insert[p] # NoRow
      <3>1. /\ row[KeyOf[p]] = NoRow /\ row'[KeyOf[p]] = Fresh
            /\ \A k \in Keys \ {KeyOf[p]} : row'[k] = row[k]
        BY <1>3, <2>1, <2>3 DEF Commit, OutboxInv, ProducersRace, TypeOK
      <3>2. Outcome(KeyOf[p]) = "none" /\ Outcome(KeyOf[p])' = "pending"
        BY <3>1, RowFacts DEF Outcome
      <3>3. \A k \in Keys \ {KeyOf[p]} : Outcome(k)' = Outcome(k)
        BY <3>1 DEF Outcome
      <3>4. Promised!Promise({KeyOf[p]})
        BY <2>1, <3>2, <3>3 DEF Promised!Promise
      <3> QED BY <2>1, <3>4 DEF Promised!Next
    <2> QED BY <2>2, <2>3
  <1>4. ASSUME NEW w \in Workers, Send(w) PROVE [Promised!Next]_(Promised!promise)
    <2>1. PICK k \in queue[w], taken \in BOOLEAN :
             accepted' = IF taken THEN [accepted EXCEPT ![k] = @ + 1] ELSE accepted
      BY <1>4 DEF Send
    <2>2. UNCHANGED row
      BY <1>4 DEF Send
    <2>3. \A l \in Keys : Outcome(l)' = Outcome(l)
      BY <2>2 DEF Outcome
    <2>4. CASE ~taken
      BY <1>2, <2>1, <2>3, <2>4
    <2>5. CASE taken
      <3>1. k \in Keys /\ row[k].status \in {"queued", "failed"} /\ row[k].attempts < MaxAttempts
        BY DEF OutboxInv, TypeOK, BatchIsClaimed
      <3>2. Outcome(k) = "pending"
        BY <3>1, OutboxAssumption DEF Outcome, OutboxAssumption, OutboxInv, TypeOK, Row
      <3>3. Promised!Deliver(k)
        BY <2>1, <2>3, <2>5, <3>1, <3>2 DEF Promised!Deliver, Promised!Pending
      <3> QED BY <3>1, <3>3 DEF Promised!Next
    <2> QED BY <2>4, <2>5
  <1>5. ASSUME NEW w \in Workers, CommitTick(w) PROVE [Promised!Next]_(Promised!promise)
    <2> DEFINE sent == {k \in batch[w] : draft[w][k].status = "sent"}
               dead == {k \in batch[w] : Outcome(k)' = "dead"}
    <2>1. /\ UNCHANGED accepted
          /\ \A k \in Keys \ batch[w] : row'[k] = row[k]
          /\ \A k \in batch[w] : /\ row'[k] = draft[w][k]
                                 /\ row'[k].status \in {"sent", "queued", "failed"}
      BY <1>1, <1>5, TicksCommit DEF CommitTick, provider
    <2>2. ASSUME NEW k \in batch[w]
          PROVE  /\ k \in Keys /\ Outcome(k) = "pending"
                 /\ Outcome(k)' \in {"sent", "dead", "pending"}
                 /\ Outcome(k)' = "sent" <=> k \in sent
                 /\ k \in sent => accepted[k] > 0
      <3>1. /\ k \in Keys /\ row[k].status \in {"queued", "failed"}
            /\ row[k].attempts < MaxAttempts
        BY DEF OutboxInv, TypeOK, BatchIsClaimed
      <3>2. Outcome(k) = "pending"
        BY <3>1, OutboxAssumption DEF Outcome, OutboxAssumption, OutboxInv, TypeOK, Row
      <3>3. Outcome(k)' \in {"sent", "dead", "pending"} /\ (Outcome(k)' = "sent" <=> k \in sent)
        BY <2>1 DEF Outcome
      <3>4. k \in sent => Known(k)
        BY DEF Known, Undone
      <3> QED BY <3>1, <3>2, <3>3, <3>4 DEF OutboxInv, CopiesAreMarked
    <2>3. \A k \in Keys \ batch[w] : Outcome(k)' = Outcome(k)
      BY <2>1 DEF Outcome
    <2>4. sent \in SUBSET Keys /\ dead \in SUBSET Keys /\ sent \cap dead = {}
      BY <2>2
    <2>5. \A k \in Keys : Outcome(k)' = IF k \in sent THEN "sent"
                                        ELSE IF k \in dead THEN "dead" ELSE Outcome(k)
      BY <2>2, <2>3
    <2>6. Promised!Settle(sent, dead)
      BY <2>1, <2>2, <2>4, <2>5 DEF Promised!Settle, Promised!Pending
    <2> QED BY <2>4, <2>6 DEF Promised!Next
  <1>6. CASE Tick
    BY <1>1, <1>2, <1>6, TicksTick, OutcomeKept DEF Tick, provider
  <1>7. ASSUME UNCHANGED <<row, accepted>> PROVE [Promised!Next]_(Promised!promise)
    BY <1>2, <1>7 DEF Outcome
  <1>8. ASSUME NEW p \in Producers, Enqueue(p) \/ Abort(p)
        PROVE  [Promised!Next]_(Promised!promise)
    BY <1>7, <1>8 DEF Enqueue, Abort, provider
  <1>9. ASSUME NEW w \in Workers, Claim(w) \/ MarkSent(w) \/ MarkFailed(w) \/ FailTick(w)
        PROVE  [Promised!Next]_(Promised!promise)
    BY <1>7, <1>9 DEF Claim, MarkSent, MarkFailed, Mark, FailTick, provider
  <1>10. CASE UNCHANGED vars
    BY <1>7, <1>10 DEF vars, provider
  <1> QED BY <1>3, <1>4, <1>5, <1>6, <1>8, <1>9, <1>10 DEF Next, TickStep

\* The outbox implements what it promises those who enqueue: a message is pending until
\* it is sent or out of attempts, is never handed over after that, and is marked as sent
\* only if the provider took it (worker.js's tick and repo.js's claim and marks).
THEOREM KeepsPromiseAlways == Spec => KeepsPromise
  BY OutboxInvariant, PromiseInit, PromiseNext, PTL DEF Spec, KeepsPromise, Promised!Spec
=============================================================================
