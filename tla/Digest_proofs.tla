---------------------------- MODULE Digest_proofs ----------------------------
(***************************************************************************)
(* Theorems about the digest pipeline, for every set of events, recipients *)
(* and overlapping ticks.                                                  *)
(***************************************************************************)
EXTENDS Digest, FiniteSetTheorems, TLAPS

(***************************************************************************)
(* Helpers.                                                                *)
(***************************************************************************)

\* A schedule row written by upsertSchedule is a schedule, and is never the
\* value that stands for "no row".
LEMMA DebounceType ==
    ASSUME NEW row \in Schedule, NEW t \in Nat
    PROVE  /\ Debounce(row, t) \in Schedule
           /\ Debounce(row, t) # NoSched
  <1>1. /\ Window \in Nat /\ Cap \in Nat /\ Window > 0 /\ Cap > 0
        /\ row.due \in Nat /\ row.oldest \in Nat
    BY DigestAssumption DEF DigestAssumption, Schedule
  <1>2. Earliest(t + Window, row.oldest + Cap) \in Nat
    BY <1>1 DEF Earliest
  <1>3. Earliest(t + Window, row.oldest + Cap) > 0
    BY <1>1 DEF Earliest
  <1>4. CASE row = NoSched
    BY <1>1, <1>4 DEF Debounce, Schedule, NoSched
  <1>5. CASE row # NoSched
    BY <1>1, <1>2, <1>3, <1>5 DEF Debounce, Schedule, NoSched
  <1> QED BY <1>4, <1>5

\* An order of a set of recipients is a sequence of recipients.
LEMMA OrdersType ==
    ASSUME NEW S \in SUBSET Recipients, NEW s \in Orders(S)
    PROVE  s \in Seq(Recipients)
  <1>1. IsFiniteSet(S)
    BY FS_Subset, DigestAssumption DEF DigestAssumption
  <1>2. Cardinality(S) \in Nat
    BY <1>1, FS_CardinalityType
  <1>3. s \in [1..Cardinality(S) -> Recipients]
    BY DEF Orders
  <1> QED BY <1>2, <1>3

\* No row is the empty schedule; the table without rows is well typed.
LEMMA EmptyTables ==
    /\ NoSched \in Schedule
    /\ NoItems \in [Events -> [Recipients -> Row]]
  BY DEF NoSched, Schedule, NoItems, Row

\* Writing one row version keeps the tables of uncommitted rows well typed.
LEMMA NestedUpdate ==
    ASSUME NEW W \in [Events -> [Events -> [Recipients -> Row]]],
           NEW e \in Events, NEW o \in Events, NEW r \in Recipients, NEW v \in Row
    PROVE  [W EXCEPT ![e][o][r] = v] \in [Events -> [Events -> [Recipients -> Row]]]
  <1>1. [W[e][o] EXCEPT ![r] = v] \in [Recipients -> Row]
    OBVIOUS
  <1>2. [W[e] EXCEPT ![o] = [W[e][o] EXCEPT ![r] = v]] \in [Events -> [Recipients -> Row]]
    BY <1>1
  <1> QED BY <1>2

(***************************************************************************)
(* Type correctness.                                                       *)
(***************************************************************************)

LEMMA InitType == Init => TypeOK
  <1> SUFFICES ASSUME Init PROVE TypeOK
    OBVIOUS
  <1>1. pc \in [Events -> PcStates] /\ now \in Nat /\ failures \in Nat
    BY DEF Init, PcStates
  <1>2. /\ sched \in [Recipients -> Schedule]
        /\ items \in [Events -> [Recipients -> Row]]
        /\ wItem \in [Events -> [Events -> [Recipients -> Row]]]
        /\ wSched \in [Events -> [Recipients -> Schedule]]
    BY EmptyTables DEF Init
  <1>3. /\ todo \in [Events -> Seq(Recipients)]
        /\ \A e \in Events : pc[e] \in {"write", "schedule"} => todo[e] # <<>>
    BY DEF Init
  <1>4. /\ active \subseteq Recipients
        /\ at \in [Events -> Nat]
        /\ target \in [Events -> Events]
        /\ read \in [Events -> Row]
    BY DEF Init, Row
  <1>5. /\ claims \in [Workers -> SUBSET Recipients]
        /\ left \in [Workers -> SUBSET Recipients]
        /\ cur \in [Workers -> SUBSET Recipients]
        /\ loaded \in [Workers -> SUBSET Recipients]
        /\ drained \in [Workers -> SUBSET (Events \X Recipients)]
    BY DEF Init
  <1>6. /\ sent \in [Recipients -> SUBSET SUBSET Row]
        /\ dropped \in [Recipients -> Row]
        /\ recorded \in [Recipients -> Row]
        /\ opened \in [Recipients -> Row]
    BY DEF Init, Row
  <1> QED BY <1>1, <1>2, <1>3, <1>4, <1>5, <1>6 DEF TypeOK

\* What a transaction leaves behind when it ends is well typed.
LEMMA ForgetType ==
    ASSUME TypeOK, NEW e \in Events, Forget(e)
    PROVE  /\ wItem' \in [Events -> [Events -> [Recipients -> Row]]]
           /\ wSched' \in [Events -> [Recipients -> Schedule]]
           /\ todo' \in [Events -> Seq(Recipients)]
           /\ target' \in [Events -> Events]
           /\ read' \in [Events -> Row]
  <1>1. wItem' \in [Events -> [Events -> [Recipients -> Row]]]
    BY EmptyTables DEF TypeOK, Forget
  <1>2. wSched' \in [Events -> [Recipients -> Schedule]]
    BY EmptyTables DEF TypeOK, Forget
  <1>3. todo' \in [Events -> Seq(Recipients)]
    BY DEF TypeOK, Forget
  <1>4. target' \in [Events -> Events] /\ read' \in [Events -> Row]
    BY DEF TypeOK, Forget, Row
  <1> QED BY <1>1, <1>2, <1>3, <1>4

LEMMA EndTickType ==
    ASSUME TypeOK, NEW w \in Workers, EndTick(w)
    PROVE  /\ claims' \in [Workers -> SUBSET Recipients]
           /\ left' \in [Workers -> SUBSET Recipients]
           /\ cur' \in [Workers -> SUBSET Recipients]
           /\ loaded' \in [Workers -> SUBSET Recipients]
           /\ drained' \in [Workers -> SUBSET (Events \X Recipients)]
  BY DEF TypeOK, EndTick

\* The statements of a business transaction preserve the types.
LEMMA BusinessType ==
    ASSUME TypeOK, NEW e \in Events,
           Begin(e) \/ BusinessStep(e) \/ Fail(e)
    PROVE  TypeOK'
  <1>1. CASE Begin(e)
    <2>1. PICK s \in Orders(Audience[e] \cap active) : todo' = [todo EXCEPT ![e] = s]
      BY <1>1 DEF Begin
    <2>2. s \in Seq(Recipients)
      BY <2>1, OrdersType DEF TypeOK
    <2>3. todo' \in [Events -> Seq(Recipients)]
      BY <2>1, <2>2 DEF TypeOK
    <2>4. pc' \in [Events -> PcStates] /\ at' \in [Events -> Nat]
      BY <1>1 DEF TypeOK, Begin, PcStates
    <2> QED BY <1>1, <2>3, <2>4 DEF TypeOK, Begin, tick, mail, history
  <1>2. CASE FindCoalescable(e)
    <2>1. todo[e] \in Seq(Recipients) /\ todo[e] # <<>>
      BY <1>2 DEF TypeOK, FindCoalescable
    <2>2. Head(todo[e]) \in Recipients
      BY <2>1
    <2>3. \A o \in Newest(Coalescable(e, Head(todo[e]))) :
              o \in Events /\ items[o][Head(todo[e])] \in Row
      BY <2>2 DEF TypeOK, Newest, Coalescable, PendingRows
    <2>4. target' \in [Events -> Events] /\ read' \in [Events -> Row]
      <3>1. CASE target' = [target EXCEPT ![e] = e] /\ read' = [read EXCEPT ![e] = {}]
        BY <3>1 DEF TypeOK, Row
      <3>2. CASE \E o \in Newest(Coalescable(e, Head(todo[e]))) :
                    /\ target' = [target EXCEPT ![e] = o]
                    /\ read' = [read EXCEPT ![e] = items[o][Head(todo[e])]]
        BY <2>3, <3>2 DEF TypeOK
      <3> QED BY <1>2, <3>1, <3>2 DEF FindCoalescable
    <2>5. pc' \in [Events -> PcStates]
      BY <1>2 DEF TypeOK, FindCoalescable, PcStates
    <2> QED BY <1>2, <2>4, <2>5 DEF TypeOK, FindCoalescable, tick, mail, history
  <1>3. CASE InsertItem(e)
    <2>1. wItem' \in [Events -> [Events -> [Recipients -> Row]]]
      <3>1. Head(todo[e]) \in Recipients
        BY <1>3 DEF TypeOK, InsertItem
      <3>2. {e} \in Row
        BY DEF Row
      <3> QED BY <1>3, <3>1, <3>2, NestedUpdate DEF TypeOK, InsertItem
    <2>2. pc' \in [Events -> PcStates]
      BY <1>3 DEF TypeOK, InsertItem, PcStates
    <2> QED BY <1>3, <2>1, <2>2 DEF TypeOK, InsertItem, tick, mail, history
  <1>4. CASE UpdateCoalesced(e)
    <2>1. target[e] \in Events /\ read[e] \cup {e} \in Row
      BY DEF TypeOK, Row
    <2>2. wItem' \in [Events -> [Events -> [Recipients -> Row]]]
      <3>1. Head(todo[e]) \in Recipients
        BY <1>4 DEF TypeOK, UpdateCoalesced
      <3> QED BY <1>4, <2>1, <3>1, NestedUpdate DEF TypeOK, UpdateCoalesced
    <2>3. pc' \in [Events -> PcStates]
      BY <1>4 DEF TypeOK, UpdateCoalesced, PcStates
    <2> QED BY <1>4, <2>2, <2>3 DEF TypeOK, UpdateCoalesced, tick, mail, history
  <1>5. CASE UpsertSchedule(e)
    <2>1. \A r \in Recipients : Debounce(sched[r], at[e]) \in Schedule
      BY DebounceType DEF TypeOK
    <2>2. wSched' \in [Events -> [Recipients -> Schedule]]
      BY <1>5, <2>1 DEF TypeOK, UpsertSchedule
    <2>3. todo' \in [Events -> Seq(Recipients)]
      BY <1>5 DEF TypeOK, UpsertSchedule
    <2>4. pc' \in [Events -> PcStates]
      BY <1>5 DEF TypeOK, UpsertSchedule, PcStates
    <2> QED BY <1>5, <2>2, <2>3, <2>4 DEF TypeOK, UpsertSchedule, tick, mail, history
  <1>6. CASE Commit(e)
    <2>1. items' \in [Events -> [Recipients -> Row]] /\ sched' \in [Recipients -> Schedule]
      BY <1>6 DEF TypeOK, Commit, ItemsAfter, SchedAfter
    <2>2. recorded' \in [Recipients -> Row] /\ opened' \in [Recipients -> Row]
      BY <1>6 DEF TypeOK, Commit, Row
    <2>3. pc' \in [Events -> PcStates]
      BY <1>6 DEF TypeOK, Commit, PcStates
    <2>4. Forget(e)
      BY <1>6 DEF Commit
    <2>5. \A f \in Events : pc'[f] \in {"write", "schedule"} => todo'[f] # <<>>
      BY <1>6, <2>4 DEF TypeOK, Commit, Forget
    <2> QED BY <1>6, <2>1, <2>2, <2>3, <2>4, <2>5, ForgetType
            DEF TypeOK, Commit, tick, mail
  <1>7. ASSUME Rollback(e), failures' \in Nat
        PROVE  TypeOK'
    <2>1. pc' \in [Events -> PcStates]
      BY <1>7 DEF TypeOK, Rollback, PcStates
    <2>2. Forget(e)
      BY <1>7 DEF Rollback
    <2>3. \A f \in Events : pc'[f] \in {"write", "schedule"} => todo'[f] # <<>>
      BY <1>7, <2>2 DEF TypeOK, Rollback, Forget
    <2> QED BY <1>7, <2>1, <2>2, <2>3, ForgetType
            DEF TypeOK, Rollback, tick, mail, history
  <1>8. CASE Fail(e)
    BY <1>7, <1>8 DEF Fail, TypeOK
  <1>9. CASE DeadlockVictim(e)
    BY <1>7, <1>9 DEF DeadlockVictim, TypeOK
  <1> QED BY <1>1, <1>2, <1>3, <1>4, <1>5, <1>6, <1>8, <1>9 DEF BusinessStep

\* The statements of a tick preserve the types.
LEMMA TickType ==
    ASSUME TypeOK, NEW w \in Workers, TickStep(w) \/ FailTick(w)
    PROVE  TypeOK'
  <1>1. CASE Claim(w)
    <2>1. PICK B \in Batches : /\ claims' = [claims EXCEPT ![w] = B]
                               /\ left' = [left EXCEPT ![w] = B]
      BY <1>1 DEF Claim
    <2>2. B \in SUBSET Recipients
      BY <2>1 DEF Batches, Claimable
    <2>3. /\ claims' \in [Workers -> SUBSET Recipients]
          /\ left' \in [Workers -> SUBSET Recipients]
      BY <2>1, <2>2 DEF TypeOK
    <2> QED BY <1>1, <2>3 DEF TypeOK, Claim, business, mail, history
  <1>2. CASE LoadRecipient(w)
    <2>1. PICK r \in left[w] :
              /\ cur' = [cur EXCEPT ![w] = {r}]
              /\ left' = [left EXCEPT ![w] = @ \ {r}]
              /\ loaded' = [loaded EXCEPT ![w] = IF r \in active THEN @ \cup {r} ELSE @]
      BY <1>2 DEF LoadRecipient
    <2>2. r \in Recipients
      BY <2>1 DEF TypeOK
    <2>3. /\ cur' \in [Workers -> SUBSET Recipients]
          /\ left' \in [Workers -> SUBSET Recipients]
          /\ loaded' \in [Workers -> SUBSET Recipients]
      BY <2>1, <2>2 DEF TypeOK
    <2> QED BY <1>2, <2>3 DEF TypeOK, LoadRecipient, business, mail, history
  <1>3. CASE DrainItems(w)
    <2> DEFINE D == UNION {{<<o, r>> : o \in PendingRows(r)} : r \in cur[w]}
    <2>1. D \in SUBSET (Events \X Recipients)
      BY DEF TypeOK, PendingRows
    <2>2. drained' = [drained EXCEPT ![w] = @ \cup D]
      BY <1>3 DEF DrainItems
    <2> HIDE DEF D
    <2>3. drained' \in [Workers -> SUBSET (Events \X Recipients)]
      BY <2>1, <2>2 DEF TypeOK
    <2>4. cur' \in [Workers -> SUBSET Recipients]
      BY <1>3 DEF TypeOK, DrainItems
    <2> QED BY <1>3, <2>3, <2>4 DEF TypeOK, DrainItems, business, mail, history
  <1>4. CASE CommitTick(w)
    <2>1. \A r \in Recipients : DrainedRows(w, r) \in SUBSET Row
      <3> TAKE r \in Recipients
      <3>1. \A o \in Events : items[o][r] \in Row
        BY DEF TypeOK
      <3> QED BY <3>1 DEF DrainedRows
    <2>2. \A r \in Recipients : UNION DrainedRows(w, r) \in Row
      <3> TAKE r \in Recipients
      <3>1. \A x \in UNION DrainedRows(w, r) : x \in Events
        BY <2>1 DEF Row
      <3> QED BY <3>1 DEF Row
    <2>3. items' \in [Events -> [Recipients -> Row]]
      BY <1>4 DEF TypeOK, CommitTick, Row
    <2>4. sched' \in [Recipients -> Schedule]
      BY <1>4, EmptyTables DEF TypeOK, CommitTick
    <2>5. sent' \in [Recipients -> SUBSET SUBSET Row]
      BY <1>4, <2>1 DEF TypeOK, CommitTick
    <2>6. dropped' \in [Recipients -> Row]
      <3>1. \A r \in Recipients : dropped[r] \cup UNION DrainedRows(w, r) \in Row
        BY <2>2 DEF TypeOK, Row
      <3> QED BY <1>4, <3>1 DEF TypeOK, CommitTick
    <2>7. EndTick(w)
      BY <1>4 DEF CommitTick
    <2> QED BY <1>4, <2>3, <2>4, <2>5, <2>6, <2>7, EndTickType
            DEF TypeOK, CommitTick, business, history
  <1>5. ASSUME RollbackTick(w), failures' \in Nat
        PROVE  TypeOK'
    BY <1>5, EndTickType DEF TypeOK, RollbackTick, business, mail, history
  <1>6. CASE FailTick(w)
    BY <1>5, <1>6 DEF FailTick, TypeOK
  <1>7. CASE DeadlockVictimTick(w)
    BY <1>5, <1>7 DEF DeadlockVictimTick, TypeOK
  <1> QED BY <1>1, <1>2, <1>3, <1>4, <1>6, <1>7 DEF TickStep

LEMMA StepType == TypeOK /\ [Next]_vars => TypeOK'
  <1> SUFFICES ASSUME TypeOK, [Next]_vars PROVE TypeOK'
    OBVIOUS
  <1>1. CASE \E e \in Events : Begin(e) \/ BusinessStep(e) \/ Fail(e)
    BY <1>1, BusinessType
  <1>2. CASE \E w \in Workers : TickStep(w) \/ FailTick(w)
    BY <1>2, TickType
  <1>3. CASE \E r \in Recipients : SetActive(r)
    BY <1>3 DEF TypeOK, SetActive, business, tick, mail, history
  <1>4. CASE Tick
    BY <1>4 DEF TypeOK, Tick, business, tick, mail, history
  <1>5. CASE UNCHANGED vars
    BY <1>5 DEF TypeOK, vars, business, tick, mail, history
  <1> QED BY <1>1, <1>2, <1>3, <1>4, <1>5 DEF Next

\* Every variable keeps its type: rows stand for sets of events, schedules
\* carry two times, whatever the interleaving of recorders and ticks.
THEOREM TypeCorrect == Spec => []TypeOK
  BY InitType, StepType, PTL DEF Spec

(***************************************************************************)
(* No committed row is without a schedule.                                 *)
(***************************************************************************)

LEMMA InitScheduling == Init => SchedulingInv
  <1> SUFFICES ASSUME Init PROVE SchedulingInv
    OBVIOUS
  <1>1. TypeOK
    BY InitType
  <1>2. PendingIsScheduled
    BY DEF Init, PendingIsScheduled, PendingRows, NoItems
  <1>3. WritersHoldSchedule
    BY DEF Init, WritersHoldSchedule, NoItems
  <1>4. ClaimsExcludeWriters
    BY DEF Init, ClaimsExcludeWriters
  <1>5. ClaimsAreDrained
    BY DEF Init, ClaimsAreDrained
  <1> QED BY <1>1, <1>2, <1>3, <1>4, <1>5 DEF SchedulingInv

\* A statement that leaves rows and schedules alone, committed or not, and
\* every tick where it was, preserves the invariant if it keeps the place of
\* the transactions that still have a schedule to upsert.
LEMMA QuietScheduling ==
    ASSUME SchedulingInv, TypeOK',
           UNCHANGED <<items, sched, wItem, wSched, claims, left, cur, drained>>,
           \A f \in Events : pc[f] = "schedule" => pc'[f] = pc[f] /\ todo'[f] = todo[f]
    PROVE  SchedulingInv'
  <1>1. PendingIsScheduled'
    BY DEF SchedulingInv, PendingIsScheduled, PendingRows
  <1>2. WritersHoldSchedule'
    BY DEF SchedulingInv, WritersHoldSchedule
  <1>3. ClaimsExcludeWriters'
    BY DEF SchedulingInv, ClaimsExcludeWriters
  <1>4. ClaimsAreDrained'
    BY DEF SchedulingInv, ClaimsAreDrained, PendingRows
  <1> QED BY <1>1, <1>2, <1>3, <1>4 DEF SchedulingInv

LEMMA BusinessScheduling ==
    ASSUME SchedulingInv, TypeOK', NEW e \in Events,
           Begin(e) \/ BusinessStep(e) \/ Fail(e)
    PROVE  SchedulingInv'
  <1> USE DEF SchedulingInv
  <1>1. CASE Begin(e)
    BY <1>1, QuietScheduling DEF Begin, tick, TypeOK
  <1>2. CASE FindCoalescable(e)
    BY <1>2, QuietScheduling DEF FindCoalescable, tick, TypeOK
  <1>3. ASSUME NEW o \in Events, NEW v,
               pc[e] = "write", todo[e] \in Seq(Recipients), todo[e] # <<>>,
               wItem' = [wItem EXCEPT ![e][o][Head(todo[e])] = v],
               pc' = [pc EXCEPT ![e] = "schedule"],
               UNCHANGED <<items, sched, todo, wSched, tick>>
        PROVE  SchedulingInv'
    <2>1. PendingIsScheduled' /\ ClaimsExcludeWriters' /\ ClaimsAreDrained'
      BY <1>3 DEF PendingIsScheduled, ClaimsExcludeWriters, ClaimsAreDrained,
                  PendingRows, tick
    <2>2. WritersHoldSchedule'
      <3> SUFFICES ASSUME NEW f \in Events, NEW p \in Events, NEW r \in Recipients,
                          wItem'[f][p][r] # {}
                   PROVE  \/ wSched'[f][r] # NoSched
                          \/ pc'[f] = "schedule" /\ r = Head(todo'[f])
        BY DEF WritersHoldSchedule
      <3>1. CASE f = e /\ r = Head(todo[e])
        BY <1>3, <3>1 DEF TypeOK
      <3>2. CASE ~(f = e /\ r = Head(todo[e]))
        <4>1. wItem'[f][p][r] = wItem[f][p][r]
          BY <1>3, <3>2 DEF TypeOK
        <4>2. pc[e] # "schedule"
          BY <1>3
        <4>3. \/ wSched[f][r] # NoSched
              \/ pc[f] = "schedule" /\ r = Head(todo[f])
          BY <4>1 DEF WritersHoldSchedule
        <4> QED BY <1>3, <4>2, <4>3 DEF TypeOK
      <3> QED BY <3>1, <3>2
    <2> QED BY <2>1, <2>2
  <1>4. CASE InsertItem(e)
    BY <1>3, <1>4 DEF InsertItem, TypeOK
  <1>5. CASE UpdateCoalesced(e)
    <2>1. CASE items[target[e]][Head(todo[e])] = {}
      <3>1. wItem' = wItem
        BY <1>5, <2>1 DEF UpdateCoalesced
      <3>2. WritersHoldSchedule'
        BY <1>5, <3>1 DEF UpdateCoalesced, WritersHoldSchedule, TypeOK
      <3> QED BY <1>5, <3>1, <3>2
              DEF UpdateCoalesced, PendingIsScheduled, ClaimsExcludeWriters,
                  ClaimsAreDrained, PendingRows, tick
    <2>2. CASE items[target[e]][Head(todo[e])] # {}
      <3>1. target[e] \in Events
        BY DEF TypeOK
      <3> QED BY <1>3, <1>5, <2>2, <3>1 DEF UpdateCoalesced, TypeOK
    <2> QED BY <2>1, <2>2
  <1>6. CASE UpsertSchedule(e)
    <2> DEFINE r0 == Head(todo[e])
    <2>1. r0 \in Recipients
      BY <1>6 DEF UpsertSchedule, TypeOK
    <2>2. wSched' = [wSched EXCEPT ![e][r0] = Debounce(sched[r0], at[e])]
      BY <1>6 DEF UpsertSchedule
    <2>3. Debounce(sched[r0], at[e]) # NoSched
      BY <2>1, DebounceType DEF TypeOK
    <2>4. \A w \in Workers : r0 \notin claims[w]
      <3>1. WaitsForBusiness(e) = SchedHolders(r0) \ {e}
        BY <1>6 DEF UpsertSchedule, WaitsForBusiness
      <3>2. SchedHolders(r0) \subseteq {e}
        BY <1>6, <3>1 DEF UpsertSchedule
      <3>3. e \notin Workers
        BY DigestAssumption DEF DigestAssumption
      <3> QED BY <3>2, <3>3 DEF SchedHolders
    <2>5. PendingIsScheduled' /\ ClaimsAreDrained'
      BY <1>6 DEF UpsertSchedule, PendingIsScheduled, ClaimsAreDrained, PendingRows, tick
    <2>6. ClaimsExcludeWriters'
      BY <1>6, <2>1, <2>2, <2>4 DEF UpsertSchedule, ClaimsExcludeWriters, TypeOK, tick
    <2>7. WritersHoldSchedule'
      BY <1>6, <2>1, <2>2, <2>3 DEF UpsertSchedule, WritersHoldSchedule, TypeOK
    <2> QED BY <2>5, <2>6, <2>7
  <1>7. CASE Commit(e)
    <2>1. Forget(e) /\ UNCHANGED <<claims, left, cur, drained>>
      BY <1>7 DEF Commit, tick
    <2>2. \A o \in Events : \A r \in Recipients :
              wItem[e][o][r] # {} => wSched[e][r] # NoSched
      BY <1>7 DEF Commit, WritersHoldSchedule
    <2>3. \A o \in Events : \A r \in Recipients :
              items'[o][r] # {} => items[o][r] # {} \/ wSched[e][r] # NoSched
      BY <1>7, <2>2 DEF Commit, ItemsAfter
    <2>4. PendingIsScheduled'
      BY <1>7, <2>3 DEF Commit, SchedAfter, PendingIsScheduled, PendingRows
    <2>5. WritersHoldSchedule'
      BY <1>7, <2>1, EmptyTables DEF Commit, Forget, WritersHoldSchedule, TypeOK, NoItems
    <2>6. ClaimsExcludeWriters'
      BY <2>1 DEF Forget, ClaimsExcludeWriters, TypeOK
    <2>7. ClaimsAreDrained'
      <3>1. \A w \in Workers : \A r \in claims[w] : \A o \in Events :
                items'[o][r] # {} => items[o][r] # {}
        <4> SUFFICES ASSUME NEW w \in Workers, NEW r \in claims[w], NEW o \in Events,
                            items'[o][r] # {}
                     PROVE  items[o][r] # {}
          OBVIOUS
        <4>1. r \in Recipients
          BY DEF TypeOK
        <4>2. wSched[e][r] = NoSched
          BY DEF ClaimsExcludeWriters
        <4> QED BY <2>3, <4>1, <4>2
      <3> QED BY <2>1, <3>1 DEF ClaimsAreDrained, PendingRows
    <2> QED BY <2>4, <2>5, <2>6, <2>7
  <1>8. ASSUME Rollback(e) PROVE SchedulingInv'
    <2>1. Forget(e) /\ UNCHANGED <<items, sched, claims, left, cur, drained>>
      BY <1>8 DEF Rollback, tick
    <2>2. PendingIsScheduled' /\ ClaimsAreDrained'
      BY <2>1 DEF PendingIsScheduled, ClaimsAreDrained, PendingRows
    <2>3. WritersHoldSchedule'
      BY <1>8, <2>1 DEF Rollback, Forget, WritersHoldSchedule, TypeOK, NoItems
    <2>4. ClaimsExcludeWriters'
      BY <2>1 DEF Forget, ClaimsExcludeWriters, TypeOK
    <2> QED BY <2>2, <2>3, <2>4
  <1>9. CASE Fail(e)
    BY <1>8, <1>9 DEF Fail
  <1>10. CASE DeadlockVictim(e)
    BY <1>8, <1>10 DEF DeadlockVictim
  <1> QED BY <1>1, <1>2, <1>4, <1>5, <1>6, <1>7, <1>9, <1>10 DEF BusinessStep

LEMMA TickScheduling ==
    ASSUME SchedulingInv, TypeOK', NEW w \in Workers, TickStep(w) \/ FailTick(w)
    PROVE  SchedulingInv'
  <1> USE DEF SchedulingInv
  <1>1. CASE Claim(w)
    <2>1. PICK B \in Batches : /\ claims' = [claims EXCEPT ![w] = B]
                               /\ left' = [left EXCEPT ![w] = B]
      BY <1>1 DEF Claim
    <2>2. B \subseteq Recipients /\ \A r \in B, e \in Events : wSched[e][r] = NoSched
      BY <2>1 DEF Batches, Claimable, SchedHolders
    <2>3. PendingIsScheduled' /\ WritersHoldSchedule'
      BY <1>1 DEF Claim, PendingIsScheduled, WritersHoldSchedule, PendingRows, business
    <2>4. ClaimsExcludeWriters'
      BY <1>1, <2>1, <2>2 DEF Claim, ClaimsExcludeWriters, TypeOK, business
    <2>5. ClaimsAreDrained'
      BY <1>1, <2>1 DEF Claim, ClaimsAreDrained, Ticking, TypeOK, PendingRows
    <2> QED BY <2>3, <2>4, <2>5
  <1>2. CASE LoadRecipient(w)
    <2>1. PICK r \in left[w] : /\ cur' = [cur EXCEPT ![w] = {r}]
                               /\ left' = [left EXCEPT ![w] = @ \ {r}]
      BY <1>2 DEF LoadRecipient
    <2>2. PendingIsScheduled' /\ WritersHoldSchedule' /\ ClaimsExcludeWriters'
      BY <1>2 DEF LoadRecipient, PendingIsScheduled, WritersHoldSchedule,
                  ClaimsExcludeWriters, PendingRows, business
    <2>3. cur[w] = {}
      BY <1>2 DEF LoadRecipient
    <2>4. ClaimsAreDrained'
      BY <1>2, <2>1, <2>3 DEF LoadRecipient, ClaimsAreDrained, PendingRows, TypeOK
    <2> QED BY <2>2, <2>4
  <1>3. CASE DrainItems(w)
    <2> DEFINE D == UNION {{<<o, r>> : o \in PendingRows(r)} : r \in cur[w]}
    <2>1. \A r \in cur[w] : \A o \in PendingRows(r) : <<o, r>> \in D
      OBVIOUS
    <2>2. drained' = [drained EXCEPT ![w] = @ \cup D]
      BY <1>3 DEF DrainItems
    <2> HIDE DEF D
    <2>3. PendingIsScheduled' /\ WritersHoldSchedule' /\ ClaimsExcludeWriters'
      BY <1>3 DEF DrainItems, PendingIsScheduled, WritersHoldSchedule,
                  ClaimsExcludeWriters, PendingRows, business
    <2>4. cur' = [cur EXCEPT ![w] = {}] /\ UNCHANGED <<items, claims, left>>
      BY <1>3 DEF DrainItems
    <2>5. ClaimsAreDrained'
      BY <2>1, <2>2, <2>4 DEF ClaimsAreDrained, PendingRows, TypeOK
    <2> QED BY <2>3, <2>5
  <1>4. CASE CommitTick(w)
    <2>1. \A r \in claims[w] : \A o \in Events : items[o][r] # {} => <<o, r>> \in drained[w]
      BY <1>4 DEF CommitTick, ClaimsAreDrained, PendingRows
    <2>2. \A o \in Events : \A r \in Recipients :
              items'[o][r] # {} => items[o][r] # {} /\ r \notin claims[w]
      BY <1>4, <2>1 DEF CommitTick
    <2>3. PendingIsScheduled'
      BY <1>4, <2>2 DEF CommitTick, PendingIsScheduled, PendingRows
    <2>4. WritersHoldSchedule'
      BY <1>4 DEF CommitTick, WritersHoldSchedule, business
    <2>5. EndTick(w) /\ wSched' = wSched
      BY <1>4 DEF CommitTick, business
    <2>6. ClaimsExcludeWriters'
      BY <2>5 DEF EndTick, ClaimsExcludeWriters, TypeOK
    <2>7. ClaimsAreDrained'
      <3> SUFFICES ASSUME NEW v \in Workers
                   PROVE  /\ left'[v] \cup cur'[v] \subseteq claims'[v]
                          /\ \A r \in claims'[v] \ (left'[v] \cup cur'[v]) :
                                \A o \in PendingRows(r)' : <<o, r>> \in drained'[v]
        BY DEF ClaimsAreDrained
      <3>1. CASE v = w
        BY <2>5, <3>1 DEF EndTick, TypeOK
      <3>2. CASE v # w
        <4>1. /\ left'[v] = left[v] /\ cur'[v] = cur[v]
              /\ claims'[v] = claims[v] /\ drained'[v] = drained[v]
          BY <2>5, <3>2 DEF EndTick, TypeOK
        <4>2. \A r \in claims[v] : PendingRows(r)' \subseteq PendingRows(r)
          BY <2>2 DEF PendingRows, TypeOK
        <4> QED BY <4>1, <4>2 DEF ClaimsAreDrained
      <3> QED BY <3>1, <3>2
    <2> QED BY <2>3, <2>4, <2>6, <2>7
  <1>5. ASSUME RollbackTick(w) PROVE SchedulingInv'
    <2>1. EndTick(w) /\ UNCHANGED <<items, sched, business>>
      BY <1>5 DEF RollbackTick
    <2>2. PendingIsScheduled' /\ WritersHoldSchedule'
      BY <2>1 DEF PendingIsScheduled, WritersHoldSchedule, PendingRows, business
    <2>3. ClaimsExcludeWriters'
      BY <2>1 DEF EndTick, ClaimsExcludeWriters, TypeOK, business
    <2>4. ClaimsAreDrained'
      BY <2>1 DEF EndTick, ClaimsAreDrained, PendingRows, TypeOK
    <2> QED BY <2>2, <2>3, <2>4
  <1>6. CASE FailTick(w)
    BY <1>5, <1>6 DEF FailTick
  <1>7. CASE DeadlockVictimTick(w)
    BY <1>5, <1>7 DEF DeadlockVictimTick
  <1> QED BY <1>1, <1>2, <1>3, <1>4, <1>6, <1>7 DEF TickStep

LEMMA StepScheduling == SchedulingInv /\ [Next]_vars => SchedulingInv'
  <1> SUFFICES ASSUME SchedulingInv, [Next]_vars PROVE SchedulingInv'
    OBVIOUS
  <1>0. TypeOK'
    BY StepType DEF SchedulingInv
  <1>1. CASE \E e \in Events : Begin(e) \/ BusinessStep(e) \/ Fail(e)
    BY <1>0, <1>1, BusinessScheduling
  <1>2. CASE \E w \in Workers : TickStep(w) \/ FailTick(w)
    BY <1>0, <1>2, TickScheduling
  <1>3. CASE \E r \in Recipients : SetActive(r)
    BY <1>0, <1>3, QuietScheduling DEF SetActive, business, tick
  <1>4. CASE Tick
    BY <1>0, <1>4, QuietScheduling DEF Tick, business, tick
  <1>5. CASE UNCHANGED vars
    BY <1>0, <1>5, QuietScheduling DEF vars, business, tick
  <1> QED BY <1>1, <1>2, <1>3, <1>4, <1>5 DEF Next

\* Every committed pending row has a schedule row: no interleaving of
\* recorders, ticks, rollbacks and deadlock victims strands an item.
THEOREM PendingScheduled == Spec => []PendingIsScheduled
  <1>1. Spec => []SchedulingInv
    BY InitScheduling, StepScheduling, PTL DEF Spec
  <1>2. SchedulingInv => PendingIsScheduled
    BY DEF SchedulingInv
  <1> QED BY <1>1, <1>2, PTL

(***************************************************************************)
(* The hard cap.                                                           *)
(***************************************************************************)

\* Whatever the times, upsertSchedule keeps the age of the oldest item of a row
\* it finds, and never schedules later than the cap allows.
LEMMA DebounceCaps ==
    ASSUME NEW row \in Schedule, NEW t \in Nat
    PROVE  /\ Debounce(row, t).oldest = IF row = NoSched THEN t ELSE row.oldest
           /\ Debounce(row, t).due <= Debounce(row, t).oldest + Cap
  <1>1. /\ Window \in Nat /\ Cap \in Nat /\ Window <= Cap
        /\ row.due \in Nat /\ row.oldest \in Nat
    BY DigestAssumption DEF DigestAssumption, Schedule
  <1>2. CASE row = NoSched
    BY <1>1, <1>2 DEF Debounce
  <1>3. CASE row # NoSched
    BY <1>1, <1>3 DEF Debounce, Earliest
  <1> QED BY <1>2, <1>3

LEMMA InitCap == Init => CapInv
  <1> SUFFICES ASSUME Init PROVE CapInv
    OBVIOUS
  <1>1. SchedulingInv
    BY InitScheduling
  <1>2. RowsAreHeld /\ SchedulesAreHeld /\ DrainsAreHeld /\ ClockStands
    BY DEF Init, RowsAreHeld, SchedulesAreHeld, DrainsAreHeld, ClockStands, NoItems, Open
  <1>3. SchedulesAreCapped
    BY DEF Init, SchedulesAreCapped
  <1>4. \A o \in Events, r \in Recipients : items[o][r] = {}
    BY DEF Init, NoItems
  <1> QED BY <1>1, <1>2, <1>3, <1>4 DEF CapInv

\* A statement of e that leaves what it has written, and the committed tables, alone.
LEMMA QuietCap ==
    ASSUME CapInv, SchedulingInv', NEW e \in Events,
           UNCHANGED <<items, sched, wItem, wSched, now, claims, drained>>,
           \A f \in Events \ {e} : pc'[f] = pc[f] /\ at'[f] = at[f],
           pc[e] # "done", Open(e)', at'[e] = now,
           Open(e) => at'[e] = at[e]
    PROVE  CapInv'
  <1> USE DEF CapInv
  <1>1. RowsAreHeld'
    BY DEF RowsAreHeld, Open
  <1>2. SchedulesAreHeld'
    BY DEF SchedulesAreHeld, Open
  <1>3. DrainsAreHeld' /\ ClockStands'
    BY DEF DrainsAreHeld, ClockStands, Open
  <1>4. SchedulesAreCapped'
    BY DEF SchedulesAreCapped, PendingRows
  <1> QED BY <1>1, <1>2, <1>3, <1>4

LEMMA BusinessCap ==
    ASSUME CapInv, SchedulingInv', NEW e \in Events,
           Begin(e) \/ BusinessStep(e) \/ Fail(e)
    PROVE  CapInv'
  <1>0. TypeOK /\ TypeOK' /\ SchedulingInv
    BY DEF SchedulingInv, CapInv
  <1>1. CASE Begin(e)
    <2>1. /\ pc' = [pc EXCEPT ![e] = "find"] /\ at' = [at EXCEPT ![e] = now]
          /\ pc[e] = "idle"
      BY <1>1 DEF Begin
    <2>2. UNCHANGED <<items, sched, wItem, wSched, now, claims, drained>>
      BY <1>1 DEF Begin, tick
    <2>3. /\ \A f \in Events \ {e} : pc'[f] = pc[f] /\ at'[f] = at[f]
          /\ pc'[e] = "find" /\ at'[e] = now
      BY <1>0, <2>1 DEF TypeOK
    <2> QED BY <2>1, <2>2, <2>3, QuietCap DEF Open
  <1>2. CASE FindCoalescable(e)
    <2>1. pc[e] = "find" /\ pc' = [pc EXCEPT ![e] = "write"]
      BY <1>2 DEF FindCoalescable
    <2> QED BY <1>0, <1>2, <2>1, QuietCap
            DEF FindCoalescable, tick, TypeOK, Open, CapInv, ClockStands
  <1>3. ASSUME NEW o \in Events, NEW r \in Recipients, NEW v,
               pc[e] = "write", o # e => items[o][r] # {} /\ RowHolders(o, r) \ {e} = {},
               wItem' = [wItem EXCEPT ![e][o][r] = v],
               pc' = [pc EXCEPT ![e] = "schedule"],
               UNCHANGED <<now, at, items, sched, wSched, tick>>
        PROVE  CapInv'
    <2>0. \A f, p \in Events, q \in Recipients :
              wItem'[f][p][q] = IF f = e /\ p = o /\ q = r THEN v ELSE wItem[f][p][q]
      BY <1>0, <1>3 DEF TypeOK
    <2>1. RowsAreHeld'
      BY <1>0, <1>3, <2>0 DEF CapInv, RowsAreHeld, TypeOK, Open
    <2>2. SchedulesAreHeld'
      BY <1>0, <1>3 DEF CapInv, SchedulesAreHeld, TypeOK, Open
    <2>3. ClockStands'
      BY <1>0, <1>3 DEF CapInv, ClockStands, TypeOK, Open
    <2>6. DrainsAreHeld'
      <3>1. \A w \in Workers : o = e \/ <<o, r>> \notin drained[w]
        <4>1. \A w \in Workers : w # e
          BY DigestAssumption DEF DigestAssumption
        <4> QED BY <1>3, <4>1 DEF RowHolders
      <3> SUFFICES ASSUME NEW w \in Workers, NEW p \in Events, NEW q \in Recipients,
                          <<p, q>> \in drained'[w]
                   PROVE  /\ q \in claims'[w]
                          /\ \A f \in Events : p = f \/ wItem'[f][p][q] = {}
        BY DEF DrainsAreHeld
      <3>2. <<p, q>> \in drained[w] /\ claims' = claims
        BY <1>3 DEF tick
      <3>3. q \in claims[w] /\ \A f \in Events : p = f \/ wItem[f][p][q] = {}
        BY <3>2 DEF CapInv, DrainsAreHeld
      <3>4. ~(p = o /\ q = r) \/ o = e
        BY <3>1, <3>2
      <3> QED BY <2>0, <3>2, <3>3, <3>4
    <2>4. SchedulesAreCapped'
      BY <1>3 DEF CapInv, SchedulesAreCapped, PendingRows
    <2>5. \A p \in Events, q \in Recipients : items'[p][q] # {} => pc'[p] = "done"
      BY <1>0, <1>3 DEF CapInv, TypeOK
    <2> QED BY <2>1, <2>2, <2>3, <2>4, <2>5, <2>6 DEF CapInv
  <1>4. CASE InsertItem(e)
    <2>1. Head(todo[e]) \in Recipients
      BY <1>0, <1>4 DEF InsertItem, TypeOK
    <2> QED BY <1>3, <1>4, <2>1 DEF InsertItem
  <1>5. CASE UpdateCoalesced(e)
    <2>1. Head(todo[e]) \in Recipients /\ target[e] \in Events
      BY <1>0, <1>5 DEF UpdateCoalesced, TypeOK
    <2>2. CASE items[target[e]][Head(todo[e])] = {}
      <3>1. pc[e] = "write" /\ pc' = [pc EXCEPT ![e] = "schedule"] /\ wItem' = wItem
        BY <1>5, <2>2 DEF UpdateCoalesced
      <3> QED BY <1>0, <1>5, <3>1, QuietCap
              DEF UpdateCoalesced, tick, TypeOK, Open, CapInv, ClockStands
    <2>3. CASE items[target[e]][Head(todo[e])] # {}
      <3>1. RowHolders(target[e], Head(todo[e])) \ {e} = {}
        BY <1>5 DEF UpdateCoalesced, WaitsForBusiness
      <3> QED BY <1>3, <1>5, <2>1, <2>3, <3>1 DEF UpdateCoalesced
    <2> QED BY <2>2, <2>3
  <1>6. CASE UpsertSchedule(e)
    <2> DEFINE r0 == Head(todo[e])
    <2>1. r0 \in Recipients
      BY <1>0, <1>6 DEF UpsertSchedule, TypeOK
    <2>2. /\ wSched' = [wSched EXCEPT ![e][r0] = Debounce(sched[r0], at[e])]
          /\ pc[e] = "schedule" /\ pc' = [pc EXCEPT ![e] = "find"]
          /\ UNCHANGED <<now, at, items, sched, wItem, tick>>
      BY <1>6 DEF UpsertSchedule
    <2>3. \A f \in Events \ {e} : wSched[f][r0] = NoSched
      BY <1>6 DEF UpsertSchedule, WaitsForBusiness, SchedHolders
    <2> HIDE DEF r0
    <2>4. SchedulesAreHeld'
      <3> SUFFICES ASSUME NEW f \in Events, NEW q \in Recipients, wSched'[f][q] # NoSched
                   PROVE  /\ Open(f)'
                          /\ wSched'[f][q] = Debounce(sched'[q], at'[f])
                          /\ \A g \in Events \ {f} : wSched'[g][q] = NoSched
        BY DEF SchedulesAreHeld
      <3>1. CASE f = e /\ q = r0
        BY <1>0, <2>1, <2>2, <2>3, <3>1 DEF TypeOK, Open
      <3>2. CASE ~(f = e /\ q = r0)
        <4>1. wSched[f][q] # NoSched /\ wSched'[f][q] = wSched[f][q]
          BY <1>0, <2>2, <3>2 DEF TypeOK
        <4>2. q # r0
          BY <2>3, <3>2, <4>1
        <4> QED BY <1>0, <2>2, <4>1, <4>2 DEF CapInv, SchedulesAreHeld, TypeOK, Open
      <3> QED BY <3>1, <3>2
    <2>5. RowsAreHeld'
      BY <1>0, <2>2 DEF CapInv, RowsAreHeld, TypeOK, Open
    <2>6. DrainsAreHeld' /\ ClockStands'
      BY <1>0, <2>2 DEF CapInv, DrainsAreHeld, ClockStands, TypeOK, Open, tick
    <2>7. SchedulesAreCapped'
      BY <2>2 DEF CapInv, SchedulesAreCapped, PendingRows
    <2>8. \A p \in Events, q \in Recipients : items'[p][q] # {} => pc'[p] = "done"
      BY <1>0, <2>2 DEF CapInv, TypeOK
    <2> QED BY <2>4, <2>5, <2>6, <2>7, <2>8 DEF CapInv
  <1>7. ASSUME Forget(e), Open(e),
               pc' = [pc EXCEPT ![e] = "done"] \/ pc' = [pc EXCEPT ![e] = "aborted"],
               UNCHANGED <<now, at, tick>>
        PROVE  /\ ClockStands' /\ DrainsAreHeld'
               /\ \A f \in Events, o \in Events, r \in Recipients :
                     wItem'[f][o][r] # {} => wItem'[f][o][r] = wItem[f][o][r] /\ f # e /\ Open(f)'
               /\ \A f \in Events, r \in Recipients :
                     wSched'[f][r] # NoSched => wSched'[f][r] = wSched[f][r] /\ f # e /\ Open(f)'
               /\ \A f \in Events, r \in Recipients :
                     wSched[f][r] = NoSched => wSched'[f][r] = NoSched
    <2>1. ClockStands'
      BY <1>0, <1>7 DEF CapInv, ClockStands, TypeOK, Open
    <2>2. \A f \in Events, o \in Events, r \in Recipients :
              wItem'[f][o][r] # {} => wItem'[f][o][r] = wItem[f][o][r] /\ f # e
      BY <1>0, <1>7 DEF Forget, TypeOK, NoItems
    <2>3. \A f \in Events, r \in Recipients :
              wSched'[f][r] # NoSched => wSched'[f][r] = wSched[f][r] /\ f # e
      BY <1>0, <1>7 DEF Forget, TypeOK
    <2>4. \A f \in Events \ {e} : Open(f)' <=> Open(f)
      BY <1>0, <1>7 DEF Open, TypeOK
    <2>5. \A f \in Events, r \in Recipients : wSched[f][r] = NoSched => wSched'[f][r] = NoSched
      BY <2>3
    <2>6. DrainsAreHeld'
      BY <1>7, <2>2 DEF CapInv, DrainsAreHeld, tick
    <2>7. \A f \in Events, o \in Events, r \in Recipients : wItem'[f][o][r] # {} => Open(f)'
      BY <2>2, <2>4 DEF CapInv, RowsAreHeld
    <2> QED BY <2>1, <2>2, <2>3, <2>4, <2>5, <2>6, <2>7 DEF CapInv, SchedulesAreHeld
  <1>8. CASE Commit(e)
    <2>1. /\ Forget(e) /\ Open(e) /\ pc' = [pc EXCEPT ![e] = "done"]
          /\ UNCHANGED <<now, at, tick>>
      BY <1>8 DEF Commit, Open
    <2>2. \A o \in Events, r \in Recipients :
              items'[o][r] = IF wItem[e][o][r] # {} THEN wItem[e][o][r] ELSE items[o][r]
      BY <1>8 DEF Commit, ItemsAfter
    <2>3. \A r \in Recipients :
              sched'[r] = IF wSched[e][r] # NoSched THEN wSched[e][r] ELSE sched[r]
      BY <1>8 DEF Commit, SchedAfter
    <2>4. RowsAreHeld'
      BY <1>7, <2>1, <2>2 DEF CapInv, RowsAreHeld, tick
    <2>5. SchedulesAreHeld'
      <3> SUFFICES ASSUME NEW f \in Events, NEW r \in Recipients, wSched'[f][r] # NoSched
                   PROVE  /\ Open(f)'
                          /\ wSched'[f][r] = Debounce(sched'[r], at'[f])
                          /\ \A g \in Events \ {f} : wSched'[g][r] = NoSched
        BY DEF SchedulesAreHeld
      <3>1. wSched'[f][r] = wSched[f][r] /\ f # e /\ Open(f)'
        BY <1>7, <2>1
      <3>2. /\ wSched[f][r] = Debounce(sched[r], at[f])
            /\ \A g \in Events \ {f} : wSched[g][r] = NoSched
        BY <3>1 DEF CapInv, SchedulesAreHeld
      <3> QED BY <1>7, <2>1, <2>3, <3>1, <3>2
    <2>6. \A o \in Events, r \in Recipients : items'[o][r] # {} => pc'[o] = "done"
      <3>1. pc'[e] = "done" /\ \A o \in Events \ {e} : pc'[o] = pc[o]
        BY <1>0, <2>1 DEF TypeOK
      <3>2. \A o \in Events, r \in Recipients : items'[o][r] # {} => o = e \/ items[o][r] # {}
        BY <2>2 DEF CapInv, RowsAreHeld
      <3> QED BY <3>1, <3>2 DEF CapInv
    <2>7. SchedulesAreCapped'
      <3> SUFFICES ASSUME NEW r \in Recipients, sched'[r] # NoSched
                   PROVE  /\ sched'[r].oldest <= now /\ sched'[r].due <= sched'[r].oldest + Cap
                          /\ \A o \in Events : items'[o][r] # {} => sched'[r].oldest <= at[o]
        BY <2>1 DEF SchedulesAreCapped, PendingRows
      <3>1. CASE wSched[e][r] = NoSched
        <4>1. \A o \in Events : items'[o][r] = items[o][r]
          BY <1>0, <1>8, <2>2, <3>1 DEF SchedulingInv, WritersHoldSchedule, Commit
        <4> QED BY <2>3, <3>1, <4>1 DEF CapInv, SchedulesAreCapped, PendingRows
      <3>2. CASE wSched[e][r] # NoSched
        <4>1. sched'[r] = Debounce(sched[r], now) /\ now \in Nat /\ at[e] = now
          BY <1>0, <2>1, <2>3, <3>2 DEF CapInv, SchedulesAreHeld, ClockStands, TypeOK
        <4>2. /\ sched'[r].oldest = IF sched[r] = NoSched THEN now ELSE sched[r].oldest
              /\ sched'[r].due <= sched'[r].oldest + Cap
          BY <1>0, <4>1, DebounceCaps DEF TypeOK
        <4>3. sched'[r].oldest <= now
          BY <4>1, <4>2 DEF CapInv, SchedulesAreCapped
        <4>4. ASSUME NEW o \in Events, items'[o][r] # {}
              PROVE  sched'[r].oldest <= at[o]
          <5>1. CASE items[o][r] # {}
            <6>1. sched[r] # NoSched
              BY <1>0, <5>1 DEF SchedulingInv, PendingIsScheduled, PendingRows
            <6> QED BY <4>2, <5>1, <6>1 DEF CapInv, SchedulesAreCapped, PendingRows
          <5>2. CASE items[o][r] = {}
            <6>1. o = e
              BY <2>2, <4>4, <5>2 DEF CapInv, RowsAreHeld
            <6> QED BY <4>1, <4>3, <6>1
          <5> QED BY <5>1, <5>2
        <4> QED BY <4>2, <4>3, <4>4
      <3> QED BY <3>1, <3>2
    <2> QED BY <1>7, <2>1, <2>4, <2>5, <2>6, <2>7 DEF CapInv
  <1>9. ASSUME Rollback(e) PROVE CapInv'
    <2>1. /\ Forget(e) /\ Open(e) /\ pc' = [pc EXCEPT ![e] = "aborted"]
          /\ UNCHANGED <<now, at, items, sched, tick>>
      BY <1>9 DEF Rollback
    <2>2. RowsAreHeld' /\ SchedulesAreHeld'
      BY <1>7, <2>1 DEF CapInv, RowsAreHeld, SchedulesAreHeld, tick
    <2>3. SchedulesAreCapped'
      BY <2>1 DEF CapInv, SchedulesAreCapped, PendingRows
    <2>4. \A p \in Events, q \in Recipients : items'[p][q] # {} => pc'[p] = "done"
      BY <1>0, <2>1 DEF CapInv, TypeOK, Open
    <2> QED BY <1>7, <2>1, <2>2, <2>3, <2>4 DEF CapInv
  <1>10. CASE Fail(e)
    BY <1>9, <1>10 DEF Fail
  <1>11. CASE DeadlockVictim(e)
    BY <1>9, <1>11 DEF DeadlockVictim
  <1> QED BY <1>1, <1>2, <1>4, <1>5, <1>6, <1>8, <1>10, <1>11 DEF BusinessStep

LEMMA TickCap ==
    ASSUME CapInv, SchedulingInv', NEW w \in Workers, TickStep(w) \/ FailTick(w)
    PROVE  CapInv'
  <1>0. TypeOK /\ TypeOK' /\ SchedulingInv
    BY DEF SchedulingInv, CapInv
  <1>1. UNCHANGED <<now, pc, at, wItem, wSched>>
    BY DEF TickStep, FailTick, Claim, LoadRecipient, DrainItems, CommitTick,
           DeadlockVictimTick, RollbackTick, business
  <1>2. ClockStands'
    BY <1>1 DEF CapInv, ClockStands, Open
  <1>3. ASSUME UNCHANGED <<items, sched>> PROVE SchedulesAreHeld' /\ SchedulesAreCapped'
    BY <1>1, <1>3 DEF CapInv, SchedulesAreHeld, SchedulesAreCapped, PendingRows, Open
  <1>4. ASSUME UNCHANGED <<items, sched, drained>>,
               \A v \in Workers : claims[v] \subseteq claims'[v]
        PROVE  CapInv'
    BY <1>1, <1>2, <1>3, <1>4 DEF CapInv, RowsAreHeld, DrainsAreHeld, Open
  <1>5. CASE Claim(w)
    <2>1. \A v \in Workers : claims[v] \subseteq claims'[v]
      BY <1>0, <1>5 DEF Claim, Ticking, TypeOK
    <2> QED BY <1>4, <1>5, <2>1 DEF Claim
  <1>6. CASE LoadRecipient(w)
    BY <1>4, <1>6 DEF LoadRecipient
  <1>7. CASE DrainItems(w)
    <2> DEFINE D == UNION {{<<o, r>> : o \in PendingRows(r)} : r \in cur[w]}
    <2>1. /\ \A d \in D : d[2] \in cur[w]
          /\ \A o \in Events, r \in Recipients :
                <<o, r>> \in D => r \in cur[w] /\ o \in PendingRows(r)
      OBVIOUS
    <2>2. drained' = [drained EXCEPT ![w] = @ \cup D] /\ UNCHANGED <<items, sched, claims>>
      BY <1>7 DEF DrainItems
    <2> HIDE DEF D
    <2>3. \A e, o \in Events, r \in Recipients : <<o, r>> \in D => wItem[e][o][r] = {}
      <3> SUFFICES ASSUME NEW e \in Events, NEW o \in Events, NEW r \in Recipients,
                          <<o, r>> \in D
                   PROVE  wItem[e][o][r] = {}
        OBVIOUS
      <3>1. RowHolders(o, r) \ {w} = {}
        BY <1>7, <2>1 DEF DrainItems, WaitsForTick
      <3>2. e # w
        BY DigestAssumption DEF DigestAssumption
      <3> QED BY <3>1, <3>2 DEF RowHolders
    <2>4. RowsAreHeld'
      BY <1>1, <2>2 DEF CapInv, RowsAreHeld, Open
    <2>5. DrainsAreHeld'
      <3> SUFFICES ASSUME NEW v \in Workers, NEW o \in Events, NEW r \in Recipients,
                          <<o, r>> \in drained'[v]
                   PROVE  /\ r \in claims'[v]
                          /\ \A f \in Events : o = f \/ wItem'[f][o][r] = {}
        BY DEF DrainsAreHeld
      <3>1. CASE <<o, r>> \in drained[v]
        BY <1>1, <2>2, <3>1 DEF CapInv, DrainsAreHeld
      <3>2. CASE <<o, r>> \notin drained[v]
        <4>1. v = w /\ <<o, r>> \in D
          BY <1>0, <2>2, <3>2 DEF TypeOK
        <4>2. r \in cur[w] /\ cur[w] \subseteq claims[w]
          BY <1>0, <2>1, <4>1 DEF SchedulingInv, ClaimsAreDrained
        <4> QED BY <1>1, <2>2, <2>3, <4>1, <4>2
      <3> QED BY <3>1, <3>2
    <2> QED BY <1>1, <1>2, <1>3, <2>2, <2>4, <2>5 DEF CapInv
  <1>8. ASSUME EndTick(w)
        PROVE  /\ DrainsAreHeld'
               /\ \A v \in Workers : drained'[v] \subseteq drained[v]
    <2>1. \A v \in Workers : /\ drained'[v] \subseteq drained[v]
                             /\ drained'[v] # {} => claims'[v] = claims[v]
      BY <1>0, <1>8 DEF EndTick, TypeOK
    <2> QED BY <1>1, <2>1 DEF CapInv, DrainsAreHeld
  <1>9. CASE CommitTick(w)
    <2>1. /\ EndTick(w)
          /\ \A o \in Events, r \in Recipients :
                items'[o][r] = IF <<o, r>> \in drained[w] THEN {} ELSE items[o][r]
          /\ \A r \in Recipients : sched'[r] = IF r \in claims[w] THEN NoSched ELSE sched[r]
      BY <1>9 DEF CommitTick
    <2>2. RowsAreHeld'
      <3> SUFFICES ASSUME NEW e \in Events, NEW o \in Events, NEW r \in Recipients,
                          wItem'[e][o][r] # {}
                   PROVE  Open(e)' /\ (o = e \/ items'[o][r] # {})
        BY DEF RowsAreHeld
      <3>1. wItem[e][o][r] # {} /\ Open(e)'
        BY <1>1 DEF CapInv, RowsAreHeld, Open
      <3>2. o = e \/ items[o][r] # {}
        BY <3>1 DEF CapInv, RowsAreHeld
      <3>3. o = e \/ <<o, r>> \notin drained[w]
        BY <3>1 DEF CapInv, DrainsAreHeld
      <3> QED BY <2>1, <3>1, <3>2, <3>3
    <2>3. SchedulesAreHeld'
      <3>1. \A e \in Events, r \in Recipients : wSched[e][r] # NoSched => sched'[r] = sched[r]
        BY <1>0, <2>1 DEF SchedulingInv, ClaimsExcludeWriters
      <3> QED BY <1>1, <3>1 DEF CapInv, SchedulesAreHeld, Open
    <2>4. SchedulesAreCapped'
      BY <1>1, <2>1 DEF CapInv, SchedulesAreCapped, PendingRows
    <2>5. \A o \in Events, r \in Recipients : items'[o][r] # {} => pc'[o] = "done"
      BY <1>1, <2>1 DEF CapInv
    <2> QED BY <1>2, <1>8, <2>1, <2>2, <2>3, <2>4, <2>5 DEF CapInv
  <1>10. ASSUME RollbackTick(w) PROVE CapInv'
    <2>1. EndTick(w) /\ UNCHANGED <<items, sched>>
      BY <1>10 DEF RollbackTick
    <2>2. RowsAreHeld'
      BY <1>1, <2>1 DEF CapInv, RowsAreHeld, Open
    <2> QED BY <1>1, <1>2, <1>3, <1>8, <2>1, <2>2 DEF CapInv
  <1>11. CASE FailTick(w)
    BY <1>10, <1>11 DEF FailTick
  <1>12. CASE DeadlockVictimTick(w)
    BY <1>10, <1>12 DEF DeadlockVictimTick
  <1> QED BY <1>5, <1>6, <1>7, <1>9, <1>11, <1>12 DEF TickStep

LEMMA StepCap == CapInv /\ [Next]_vars => CapInv'
  <1> SUFFICES ASSUME CapInv, [Next]_vars PROVE CapInv'
    OBVIOUS
  <1>0. SchedulingInv /\ SchedulingInv' /\ TypeOK
    BY StepScheduling DEF CapInv, SchedulingInv
  <1>1. CASE \E e \in Events : Begin(e) \/ BusinessStep(e) \/ Fail(e)
    BY <1>0, <1>1, BusinessCap
  <1>2. CASE \E w \in Workers : TickStep(w) \/ FailTick(w)
    BY <1>0, <1>2, TickCap
  <1>3. ASSUME UNCHANGED <<items, sched, pc, at, wItem, wSched, claims, drained>>,
               now' = now \/ (now' = now + 1 /\ \A e \in Events : ~Open(e))
        PROVE  CapInv'
    <2>1. RowsAreHeld' /\ SchedulesAreHeld' /\ DrainsAreHeld' /\ ClockStands'
      BY <1>3 DEF CapInv, RowsAreHeld, SchedulesAreHeld, DrainsAreHeld, ClockStands, Open
    <2>2. SchedulesAreCapped'
      <3>1. \A r \in Recipients : sched[r].oldest \in Nat /\ now \in Nat
        BY <1>0 DEF TypeOK, Schedule
      <3> QED BY <1>3, <3>1 DEF CapInv, SchedulesAreCapped, PendingRows
    <2> QED BY <1>0, <1>3, <2>1, <2>2 DEF CapInv
  <1>4. CASE \E r \in Recipients : SetActive(r)
    BY <1>3, <1>4 DEF SetActive, business, tick
  <1>5. CASE Tick
    BY <1>3, <1>5 DEF Tick, business, tick, Transactions
  <1>6. CASE UNCHANGED vars
    BY <1>3, <1>6 DEF vars, business, tick
  <1> QED BY <1>1, <1>2, <1>4, <1>5, <1>6 DEF Next

\* No pending row is scheduled later than Cap after it was recorded, however many
\* events push the idle timer of its recipient (upsertSchedule of digest/repo.js).
THEOREM HardCapAlways == Spec => []HardCap
  <1>1. Spec => []CapInv
    BY InitCap, StepCap, PTL DEF Spec
  <1>2. CapInv => HardCap
    <2> SUFFICES ASSUME CapInv, NEW r \in Recipients, NEW o \in PendingRows(r)
                 PROVE  sched[r].due <= at[o] + Cap
      BY DEF HardCap
    <2>1. /\ sched[r].due \in Nat /\ sched[r].oldest \in Nat /\ at[o] \in Nat
          /\ Cap \in Nat /\ sched[r] # NoSched
      BY DigestAssumption
         DEF CapInv, SchedulingInv, TypeOK, PendingRows, Schedule, DigestAssumption,
             PendingIsScheduled
    <2>2. sched[r].due <= sched[r].oldest + Cap /\ sched[r].oldest <= at[o]
      BY <2>1 DEF CapInv, SchedulesAreCapped
    <2> QED BY <2>1, <2>2
  <1> QED BY <1>1, <1>2, PTL

(***************************************************************************)
(* Told once, and lost for a reason only.                                  *)
(***************************************************************************)

LEMMA InitStory == Init => StoryInv
  <1> SUFFICES ASSUME Init PROVE StoryInv
    OBVIOUS
  <1>1. CapInv
    BY InitCap
  <1>2. /\ \A o \in Events, r \in Recipients : items[o][r] = {}
        /\ \A e, o \in Events, r \in Recipients : wItem[e][o][r] = {}
        /\ \A e \in Events : pc[e] = "idle"
        /\ \A r \in Recipients : sent[r] = {} /\ dropped[r] = {}
        /\ \A r \in Recipients : recorded[r] = {} /\ opened[r] = {}
        /\ \A e \in Events, r \in Recipients : wSched[e][r] = NoSched
    BY DEF Init, NoItems
  <1>3. TodoIsAhead
    BY <1>2 DEF Init, TodoIsAhead
  <1>4. \A e, o \in Events, r \in Recipients : Version(e, o, r) = {}
    BY <1>2 DEF Version, Reads
  <1>5. RowsFit
    BY <1>2, <1>4 DEF RowsFit, RowFits, VersionFits
  <1>6. OneHome
    BY <1>2, <1>4 DEF OneHome, Lives
  <1>7. RecordsAreKept
    BY <1>2 DEF RecordsAreKept, NoteIsKept, RecordIsKept, Noted
  <1>8. ToldOnce
    BY <1>2 DEF ToldOnce, Pending, Announced
  <1> QED BY <1>1, <1>3, <1>5, <1>6, <1>7, <1>8 DEF StoryInv

\* Only who is at work has a version of a row; what has been told was committed.
LEMMA StoryFacts ==
    ASSUME StoryInv
    PROVE  /\ CapInv /\ TypeOK
           /\ \A e, o \in Events, r \in Recipients : Version(e, o, r) # {} => Open(e)
           /\ \A r \in Recipients : \A x \in Told(r) : x \in Events => pc[x] = "done"
  <1>1. CapInv /\ TypeOK
    BY DEF StoryInv, CapInv, SchedulingInv
  <1>2. \A e, o \in Events, r \in Recipients : Version(e, o, r) # {} => Open(e)
    BY <1>1 DEF Version, Reads, CapInv, RowsAreHeld, Open
  <1>3. \A r \in Recipients : \A x \in Told(r) : x \in Events => pc[x] = "done"
    BY DEF StoryInv, ToldOnce, Told
  <1> QED BY <1>1, <1>2, <1>3

\* A step that commits nothing keeps what is said of committed rows, of what was
\* told and of what was recorded.
LEMMA CommitsNothing ==
    ASSUME StoryInv, UNCHANGED <<items, mail, history>>,
           \A x \in Events : pc[x] = "done" <=> pc'[x] = "done",
           \A x \in Events : pc[x] = "done" => at'[x] = at[x]
    PROVE  /\ \A r \in Recipients : Told(r)' = Told(r) /\ Pending(r)' = Pending(r)
           /\ \A o \in Events, r \in Recipients : RowFits(o, r)'
           /\ \A e \in Events, r \in Recipients : RecordIsKept(e, r)'
           /\ ToldOnce'
  <1>1. \A r \in Recipients : /\ Told(r)' = Told(r) /\ Pending(r)' = Pending(r)
                              /\ Announced(r)' = Announced(r)
    BY DEF Told, Announced, Pending, mail
  <1>2. \A o \in Events, r \in Recipients : RowFits(o, r)'
    <2> TAKE o \in Events, r \in Recipients
    <2>1. RowFits(o, r)
      BY DEF StoryInv, RowsFit
    <2>2. items[o][r] \subseteq Events
      BY StoryFacts DEF TypeOK, Row
    <2> QED BY <2>1, <2>2 DEF RowFits, Done
  <1>3. \A e \in Events, r \in Recipients : RecordIsKept(e, r)'
    <2> TAKE e \in Events, r \in Recipients
    <2>1. RecordIsKept(e, r)
      BY DEF StoryInv, RecordsAreKept
    <2>2. e \in recorded[r] \cup opened[r] => pc'[e] = "done" /\ at'[e] = at[e]
      BY <2>1 DEF RecordIsKept
    <2>3. \A o \in Events : e \in recorded[r] /\ Explains(o, e, r) => Explains(o, e, r)'
      BY <1>1, <2>2 DEF Explains
    <2> QED BY <1>1, <2>1, <2>2, <2>3 DEF RecordIsKept, history
  <1>4. ToldOnce'
    BY <1>1 DEF StoryInv, ToldOnce, mail
  <1> QED BY <1>1, <1>2, <1>3, <1>4

\* What e makes of a row is in order while the row, and what has been told, stay.
LEMMA VersionKept ==
    ASSUME StoryInv, NEW e \in Events, NEW o \in Events, NEW r \in Recipients,
           Version(e, o, r)' = Version(e, o, r), items'[o][r] = items[o][r],
           Told(r) \subseteq Told(r)', Version(e, o, r) # {} => now' = now,
           \A x \in Events : pc[x] = "done" => pc'[x] = "done",
           \A x \in Events : at[x] = now => at'[x] = now
    PROVE  VersionFits(e, o, r)'
  <1>1. VersionFits(e, o, r)
    BY DEF StoryInv, RowsFit
  <1>2. Version(e, o, r) \subseteq Events
    BY StoryFacts DEF Version, TypeOK, Row
  <1> QED BY <1>1, <1>2 DEF VersionFits, Done

\* If no version begins to exist, homes stay what they were.
LEMMA HomesKept ==
    ASSUME StoryInv, UNCHANGED <<items, mail>>,
           \A e, o \in Events, r \in Recipients :
               Version(e, o, r)' = Version(e, o, r) \/ Version(e, o, r)' = {}
    PROVE  OneHome'
  <1>1. \A x, o \in Events, r \in Recipients : Lives(x, o, r)' => Lives(x, o, r)
    BY DEF Lives
  <1>2. \A r \in Recipients : Told(r)' = Told(r)
    BY DEF Told, Announced, mail
  <1> QED BY <1>1, <1>2 DEF StoryInv, OneHome

\* All of it, for a step that commits nothing and makes no version of a row.
LEMMA QuietStory ==
    ASSUME StoryInv, CapInv', TodoIsAhead', UNCHANGED <<items, mail, history>>,
           \A x \in Events : pc[x] = "done" <=> pc'[x] = "done",
           \A x \in Events : pc[x] = "done" => at'[x] = at[x],
           \A x \in Events : at[x] = now => at'[x] = now,
           now' = now \/ \A e \in Events : ~Open(e),
           \A e, o \in Events, r \in Recipients :
               Version(e, o, r)' = Version(e, o, r) \/ Version(e, o, r)' = {},
           \A e \in Events, r \in Recipients : NoteIsKept(e, r)'
    PROVE  StoryInv'
  <1>1. /\ \A r \in Recipients : Told(r)' = Told(r)
        /\ \A o \in Events, r \in Recipients : RowFits(o, r)'
        /\ \A e \in Events, r \in Recipients : RecordIsKept(e, r)'
        /\ ToldOnce'
    BY CommitsNothing
  <1>2. OneHome'
    BY HomesKept
  <1>3. \A e, o \in Events, r \in Recipients : VersionFits(e, o, r)'
    <2> TAKE e, o \in Events, r \in Recipients
    <2>1. CASE Version(e, o, r)' = {}
      BY <2>1 DEF VersionFits
    <2>2. CASE Version(e, o, r)' = Version(e, o, r)
      <3>1. Version(e, o, r) # {} => now' = now
        BY StoryFacts
      <3> QED BY <1>1, <2>2, <3>1, VersionKept
    <2> QED BY <2>1, <2>2
  <1> QED BY <1>1, <1>2, <1>3 DEF StoryInv, RowsFit, RecordsAreKept

\* A tick, or anybody, that leaves the business transactions alone.
LEMMA BusinessRests ==
    ASSUME StoryInv, CapInv', UNCHANGED <<items, mail, history, business>>,
           now' = now \/ \A e \in Events : ~Open(e)
    PROVE  StoryInv'
  <1>1. UNCHANGED <<pc, at, todo, target, read, wItem, wSched>>
    BY DEF business
  <1>2. TodoIsAhead'
    BY <1>1 DEF StoryInv, TodoIsAhead
  <1>3. \A e, o \in Events, r \in Recipients : Version(e, o, r)' = Version(e, o, r)
    BY <1>1 DEF Version, Reads
  <1>4. \A e \in Events, r \in Recipients : NoteIsKept(e, r)'
    <2>1. \A r \in Recipients : Told(r)' = Told(r)
      BY DEF Told, Announced, mail
    <2> QED BY <1>1, <2>1 DEF StoryInv, RecordsAreKept, NoteIsKept, Noted
  <1> QED BY <1>1, <1>2, <1>3, <1>4, QuietStory

(***************************************************************************)
(* The statements of a business transaction, before it ends.               *)
(***************************************************************************)

\* What a statement of e does not touch.
Others(e) ==
    \A f \in Events \ {e} :
        /\ pc'[f] = pc[f] /\ at'[f] = at[f] /\ todo'[f] = todo[f]
        /\ target'[f] = target[f] /\ read'[f] = read[f]
        /\ wItem'[f] = wItem[f] /\ wSched'[f] = wSched[f]

\* The rest of a list of recipients.
LEMMA TailFacts ==
    ASSUME NEW s \in Seq(Recipients), s # <<>>
    PROVE  /\ Head(s) = s[1] /\ Head(s) \in Recipients /\ 1 \in DOMAIN s
           /\ \A i \in DOMAIN s : i \in Nat /\ i >= 1 /\ s[i] \in Recipients
           /\ \A i \in DOMAIN Tail(s) :
                 i \in Nat /\ i >= 1 /\ i + 1 \in DOMAIN s /\ Tail(s)[i] = s[i + 1]
  <1>1. Len(s) \in Nat /\ Len(s) >= 1 /\ DOMAIN s = 1 .. Len(s)
    OBVIOUS
  <1>2. Len(Tail(s)) = Len(s) - 1 /\ DOMAIN Tail(s) = 1 .. (Len(s) - 1)
    BY <1>1
  <1>3. \A i \in 1 .. (Len(s) - 1) : Tail(s)[i] = s[i + 1]
    BY <1>1
  <1>4. \A i \in 1 .. Len(s) : s[i] \in Recipients
    BY <1>1
  <1> QED BY <1>1, <1>2, <1>3, <1>4

\* The recipient a transaction is about to write for has no row of it yet.
LEMMA NothingWritten ==
    ASSUME StoryInv, NEW e \in Events, pc[e] \in {"find", "write"}, todo[e] # <<>>
    PROVE  /\ Head(todo[e]) \in Recipients
           /\ \A o \in Events : wItem[e][o][Head(todo[e])] = {}
  <1>1. todo[e] \in Seq(Recipients)
    BY StoryFacts DEF TypeOK
  <1>2. Head(todo[e]) = todo[e][1] /\ Head(todo[e]) \in Recipients /\ 1 \in DOMAIN todo[e]
    BY <1>1, TailFacts
  <1> QED BY <1>2 DEF StoryInv, TodoIsAhead

\* An open transaction whose event is in none of its own versions of the rows of a
\* recipient is in no row of that recipient, nor told.
LEMMA NotYetAlive ==
    ASSUME StoryInv, NEW e \in Events, NEW r \in Recipients, Open(e),
           \A o \in Events : e \notin Version(e, o, r)
    PROVE  /\ \A o \in Events : ~Lives(e, o, r)
           /\ e \notin Told(r)
  <1>1. pc[e] # "done"
    BY DEF Open
  <1>2. \A o \in Events : e \notin items[o][r]
    BY <1>1 DEF StoryInv, RowsFit, RowFits, Done
  <1>3. \A f, o \in Events : e \notin Version(f, o, r)
    BY <1>1 DEF StoryInv, RowsFit, VersionFits, Done
  <1>4. e \notin Told(r)
    BY <1>1, StoryFacts
  <1> QED BY <1>2, <1>3, <1>4 DEF Lives

\* A first version of a row gives the event of who makes it its home.
LEMMA HomeFound ==
    ASSUME StoryInv, UNCHANGED <<items, mail>>,
           NEW e \in Events, NEW h \in Events, NEW q \in Recipients, Open(e),
           \A o \in Events : e \notin Version(e, o, q),
           \A x \in Version(e, h, q)' : x = e \/ x \in items[h][q],
           \A f, o \in Events, r \in Recipients :
               \/ Version(f, o, r)' = Version(f, o, r)
               \/ f = e /\ o = h /\ r = q
    PROVE  OneHome'
  <1>1. \A x, o \in Events, r \in Recipients :
            Lives(x, o, r)' => Lives(x, o, r) \/ (x = e /\ o = h /\ r = q)
    BY DEF Lives
  <1>2. \A r \in Recipients : Told(r)' = Told(r)
    BY DEF Told, Announced, mail
  <1>3. e \notin Told(q) /\ \A o \in Events : ~Lives(e, o, q)
    BY NotYetAlive
  <1> QED BY <1>1, <1>2, <1>3 DEF StoryInv, OneHome

LEMMA TodoOfOne ==
    ASSUME StoryInv, NEW e \in Events, Others(e),
           \A i, j \in DOMAIN todo'[e] : todo'[e][i] = todo'[e][j] => i = j,
           \A i \in DOMAIN todo'[e] : i > 1 \/ pc'[e] # "schedule" =>
               \A o \in Events : wItem'[e][o][todo'[e][i]] = {}
    PROVE  TodoIsAhead'
  <1> SUFFICES ASSUME NEW f \in Events, f # e
               PROVE  /\ \A i, j \in DOMAIN todo'[f] : todo'[f][i] = todo'[f][j] => i = j
                      /\ \A i \in DOMAIN todo'[f] : i > 1 \/ pc'[f] # "schedule" =>
                            \A o \in Events : wItem'[f][o][todo'[f][i]] = {}
    BY DEF TodoIsAhead
  <1>1. todo'[f] = todo[f] /\ pc'[f] = pc[f] /\ wItem'[f] = wItem[f]
    BY DEF Others
  <1> QED BY <1>1 DEF StoryInv, TodoIsAhead

LEMMA StoryBegin ==
    ASSUME StoryInv, CapInv', NEW e \in Events, Begin(e)
    PROVE  StoryInv'
  <1>1. TypeOK /\ CapInv
    BY StoryFacts
  <1>2. PICK s \in Orders(Audience[e] \cap active) : todo' = [todo EXCEPT ![e] = s]
    BY DEF Begin
  <1>3. s \in Seq(Recipients) /\ \A i, j \in DOMAIN s : s[i] = s[j] => i = j
    BY <1>1, <1>2, OrdersType DEF TypeOK, Orders
  <1>4. /\ pc[e] = "idle" /\ pc' = [pc EXCEPT ![e] = "find"] /\ at' = [at EXCEPT ![e] = now]
        /\ UNCHANGED <<now, items, target, read, wItem, wSched, mail, history>>
    BY DEF Begin
  <1>5. Others(e) /\ pc'[e] = "find" /\ at'[e] = now /\ todo'[e] = s
    BY <1>1, <1>2, <1>4 DEF Others, TypeOK
  <1>6. \A o \in Events, r \in Recipients : wItem[e][o][r] = {}
    BY <1>1, <1>4 DEF CapInv, RowsAreHeld, Open
  <1>7. \A r \in Recipients : wSched[e][r] = NoSched
    BY <1>1, <1>4 DEF CapInv, SchedulesAreHeld, Open
  <1>8. TodoIsAhead'
    <2>1. \A i \in DOMAIN s : s[i] \in Recipients
      BY <1>3
    <2>2. \A i \in DOMAIN todo'[e], o \in Events : wItem'[e][o][todo'[e][i]] = {}
      BY <1>4, <1>5, <1>6, <2>1
    <2> QED BY <1>3, <1>5, <2>2, TodoOfOne
  <1>9. \A f, o \in Events, r \in Recipients : Version(f, o, r)' = Version(f, o, r)
    BY <1>4, <1>5 DEF Version, Reads, Others
  <1>10. \A f \in Events, r \in Recipients : NoteIsKept(f, r)'
    <2>1. \A r \in Recipients : Told(r)' = Told(r)
      BY <1>4 DEF Told, Announced, mail
    <2> QED BY <1>4, <1>5, <1>7, <2>1
            DEF StoryInv, RecordsAreKept, NoteIsKept, Noted, Others
  <1> QED BY <1>4, <1>5, <1>8, <1>9, <1>10, QuietStory DEF Others

LEMMA StoryUpsert ==
    ASSUME StoryInv, CapInv', NEW e \in Events, UpsertSchedule(e)
    PROVE  StoryInv'
  <1> DEFINE r0 == Head(todo[e])
  <1>1. TypeOK /\ CapInv
    BY StoryFacts
  <1>2. /\ pc[e] = "schedule" /\ pc' = [pc EXCEPT ![e] = "find"]
        /\ todo' = [todo EXCEPT ![e] = Tail(@)]
        /\ wSched' = [wSched EXCEPT ![e][r0] = Debounce(sched[r0], at[e])]
        /\ UNCHANGED <<now, at, items, target, read, wItem, mail, history>>
    BY DEF UpsertSchedule
  <1>3. todo[e] \in Seq(Recipients) /\ todo[e] # <<>>
    BY <1>1, <1>2 DEF TypeOK
  <1>4. Others(e) /\ pc'[e] = "find" /\ todo'[e] = Tail(todo[e])
    BY <1>1, <1>2 DEF Others, TypeOK
  <1>5. TodoIsAhead'
    <2>1. \A i \in DOMAIN todo'[e] :
              i \in Nat /\ i + 1 \in DOMAIN todo[e] /\ i + 1 > 1 /\ todo'[e][i] = todo[e][i + 1]
      BY <1>3, <1>4, TailFacts
    <2>2. \A i, j \in DOMAIN todo'[e] : todo'[e][i] = todo'[e][j] => i = j
      <3> TAKE i, j \in DOMAIN todo'[e]
      <3> HAVE todo'[e][i] = todo'[e][j]
      <3>1. i + 1 = j + 1
        BY <2>1 DEF StoryInv, TodoIsAhead
      <3> QED BY <2>1, <3>1
    <2>3. \A i \in DOMAIN todo'[e] : \A o \in Events : wItem[e][o][todo'[e][i]] = {}
      BY <2>1 DEF StoryInv, TodoIsAhead
    <2> QED BY <1>2, <1>4, <2>2, <2>3, TodoOfOne
  <1>6. \A f, o \in Events, r \in Recipients : Version(f, o, r)' = Version(f, o, r)
    BY <1>2, <1>4 DEF Version, Reads, Others
  <1>7. \A f \in Events, r \in Recipients : NoteIsKept(f, r)'
    <2>1. \A r \in Recipients : Told(r)' = Told(r)
      BY <1>2 DEF Told, Announced, mail
    <2>2. \A r \in Recipients : wSched'[e][r] # NoSched => r = r0 \/ wSched[e][r] # NoSched
      BY <1>1, <1>2 DEF TypeOK
    <2>3. \A f \in Events, r \in Recipients : Noted(f, r)' => Noted(f, r)
      BY <1>2, <1>4, <2>2 DEF Noted, Others
    <2> QED BY <1>2, <2>1, <2>3 DEF StoryInv, RecordsAreKept, NoteIsKept
  <1> QED BY <1>2, <1>4, <1>5, <1>6, <1>7, QuietStory DEF Others

LEMMA StoryRollback ==
    ASSUME StoryInv, CapInv', NEW e \in Events, Rollback(e)
    PROVE  StoryInv'
  <1>1. TypeOK /\ CapInv
    BY StoryFacts
  <1>2. /\ Open(e) /\ pc' = [pc EXCEPT ![e] = "aborted"] /\ Forget(e)
        /\ UNCHANGED <<now, at, items, mail, history>>
    BY DEF Rollback
  <1>3. /\ Others(e) /\ pc'[e] = "aborted" /\ todo'[e] = <<>>
        /\ wItem'[e] = NoItems /\ wSched'[e] = [r \in Recipients |-> NoSched]
    BY <1>1, <1>2 DEF Others, TypeOK, Forget
  <1>4. TodoIsAhead'
    BY <1>3, TodoOfOne
  <1>5. \A f, o \in Events, r \in Recipients :
            Version(f, o, r)' = Version(f, o, r) \/ Version(f, o, r)' = {}
    <2>1. \A o \in Events, r \in Recipients : Version(e, o, r)' = {}
      BY <1>3 DEF Version, Reads, NoItems
    <2>2. \A f \in Events \ {e}, o \in Events, r \in Recipients :
              Version(f, o, r)' = Version(f, o, r)
      BY <1>3 DEF Version, Reads, Others
    <2> QED BY <2>1, <2>2
  <1>6. \A f \in Events, r \in Recipients : NoteIsKept(f, r)'
    <2>1. \A r \in Recipients : Told(r)' = Told(r)
      BY <1>2 DEF Told, Announced, mail
    <2> QED BY <1>3, <2>1 DEF StoryInv, RecordsAreKept, NoteIsKept, Noted, Others
  <1> QED BY <1>2, <1>3, <1>4, <1>5, <1>6, QuietStory DEF Others, Open

\* A statement of e that writes the row (h, q), from a version it may have read, and
\* goes on to the schedule.
LEMMA TodoWritten ==
    ASSUME StoryInv, NEW e \in Events, NEW h \in Events, NEW V,
           pc[e] = "write", todo[e] # <<>>, pc'[e] = "schedule", todo' = todo, Others(e),
           wItem' = [wItem EXCEPT ![e][h][Head(todo[e])] = V] \/ wItem' = wItem
    PROVE  TodoIsAhead'
  <1>1. todo[e] \in Seq(Recipients) /\ TypeOK
    BY StoryFacts DEF TypeOK
  <1>2. /\ Head(todo[e]) = todo[e][1] /\ 1 \in DOMAIN todo[e]
        /\ \A i \in DOMAIN todo[e] : todo[e][i] \in Recipients /\ i \in Nat
    BY <1>1, TailFacts
  <1>3. \A i \in DOMAIN todo[e] : i > 1 => todo[e][i] # Head(todo[e])
    BY <1>2 DEF StoryInv, TodoIsAhead
  <1>4. \A i \in DOMAIN todo[e] : i > 1 => \A o \in Events : wItem[e][o][todo[e][i]] = {}
    BY DEF StoryInv, TodoIsAhead
  <1>5. \A i \in DOMAIN todo[e] : i > 1 => \A o \in Events : wItem'[e][o][todo[e][i]] = {}
    <2> SUFFICES ASSUME NEW i \in DOMAIN todo[e], i > 1, NEW o \in Events
                 PROVE  wItem'[e][o][todo[e][i]] = {}
      OBVIOUS
    <2>1. wItem[e][o][todo[e][i]] = {} /\ todo[e][i] # Head(todo[e]) /\ todo[e][i] \in Recipients
      BY <1>2, <1>3, <1>4
    <2>2. CASE wItem' = [wItem EXCEPT ![e][h][Head(todo[e])] = V]
      BY <1>1, <2>1, <2>2 DEF TypeOK
    <2> QED BY <2>1, <2>2
  <1>6. \A i, j \in DOMAIN todo[e] : todo[e][i] = todo[e][j] => i = j
    BY DEF StoryInv, TodoIsAhead
  <1> QED BY <1>5, <1>6, TodoOfOne

\* A version that is made, and what must be true of it.
LEMMA VersionMade ==
    ASSUME NEW e \in Events, NEW h \in Events, NEW q \in Recipients, NEW V,
           Version(e, h, q)' = V, Fits(h, V), e \in V,
           \A x \in V \ {e} : pc'[x] = "done",
           IF items'[h][q] # {}
           THEN \A x \in Events : (x \in V <=> x \in items'[h][q]) \/ at'[x] = now'
           ELSE V = {e} \/ h \in Told(q)'
    PROVE  VersionFits(e, h, q)'
  BY DEF VersionFits, Done, Fits

LEMMA StoryFind ==
    ASSUME StoryInv, CapInv', NEW e \in Events, FindCoalescable(e)
    PROVE  StoryInv'
  <1>1. TypeOK /\ CapInv
    BY StoryFacts
  <1>a. PICK r0 : r0 = Head(todo[e])
    OBVIOUS
  <1>2. /\ pc[e] = "find" /\ todo[e] # <<>> /\ pc' = [pc EXCEPT ![e] = "write"]
        /\ UNCHANGED <<now, at, todo, items, wItem, wSched, mail, history>>
    BY DEF FindCoalescable
  <1>3. Open(e) /\ at[e] = now
    BY <1>1, <1>2 DEF CapInv, ClockStands, Open
  <1>4. /\ pc'[e] = "write" /\ \A f \in Events \ {e} : pc'[f] = pc[f]
    BY <1>1, <1>2 DEF TypeOK
  <1>5. r0 \in Recipients /\ \A o \in Events : wItem[e][o][r0] = {}
    BY <1>a, <1>2, NothingWritten
  <1>6. TodoIsAhead'
    BY <1>2, <1>4 DEF StoryInv, TodoIsAhead
  <1>7. \A f \in Events, r \in Recipients : NoteIsKept(f, r)'
    <2>1. \A r \in Recipients : Told(r)' = Told(r)
      BY <1>2 DEF Told, Announced, mail
    <2> QED BY <1>2, <1>4, <2>1 DEF StoryInv, RecordsAreKept, NoteIsKept, Noted
  <1>8. \A o \in Events, r \in Recipients : Version(e, o, r) = wItem[e][o][r]
    BY <1>2 DEF Version, Reads
  <1>9. CASE target' = [target EXCEPT ![e] = e] /\ read' = [read EXCEPT ![e] = {}]
    <2>1. target'[e] = e /\ \A f \in Events \ {e} : target'[f] = target[f] /\ read'[f] = read[f]
      BY <1>1, <1>9 DEF TypeOK
    <2>2. \A f, o \in Events, r \in Recipients : Version(f, o, r)' = Version(f, o, r)
      BY <1>2, <1>4, <2>1 DEF Version, Reads
    <2> QED BY <1>2, <1>4, <1>6, <1>7, <2>2, QuietStory
  <1>10. ASSUME NEW h \in Newest(Coalescable(e, r0)),
                target' = [target EXCEPT ![e] = h], read' = [read EXCEPT ![e] = items[h][r0]]
         PROVE  StoryInv'
    <2>1. h \in Events /\ items[h][r0] # {} /\ SameKey(h, e)
      BY <1>10 DEF Newest, Coalescable, PendingRows, SameKey
    <2>2. /\ target'[e] = h /\ read'[e] = items[h][r0]
          /\ \A f \in Events \ {e} : target'[f] = target[f] /\ read'[f] = read[f]
      BY <1>1, <1>10, <2>1 DEF TypeOK
    <2>3. /\ Fits(h, items[h][r0]) /\ Done(items[h][r0]) /\ h # e
      BY <1>2, <1>5, <2>1 DEF StoryInv, RowsFit, RowFits, Fits, Done
    <2>4. Version(e, h, r0)' = items[h][r0] \cup {e}
      BY <1>a, <1>2, <1>4, <2>2, <2>3 DEF Version, Reads
    <2>5. \A f, o \in Events, r \in Recipients :
              Version(f, o, r)' = Version(f, o, r) \/ (f = e /\ o = h /\ r = r0)
      <3> TAKE f, o \in Events, r \in Recipients
      <3>1. CASE f = e
        BY <1>a, <1>2, <1>4, <1>8, <2>2, <3>1 DEF Version, Reads
      <3>2. CASE f # e
        BY <1>2, <1>4, <2>2, <3>2 DEF Version, Reads
      <3> QED BY <3>1, <3>2
    <2>6. VersionFits(e, h, r0)'
      <3> DEFINE V == items[h][r0] \cup {e}
      <3>1. Fits(h, V)
        BY <2>1, <2>3 DEF Fits
      <3>2. \A x \in V \ {e} : pc'[x] = "done"
        <4>1. items[h][r0] \subseteq Events
          BY <1>1, <1>5, <2>1 DEF TypeOK, Row
        <4> QED BY <1>4, <2>3, <4>1 DEF Done
      <3>3. \A x \in Events : (x \in V <=> x \in items'[h][r0]) \/ at'[x] = now'
        BY <1>2, <1>3
      <3>4. items'[h][r0] # {}
        BY <1>2, <2>1
      <3> HIDE DEF V
      <3> QED BY <1>5, <2>1, <2>4, <3>1, <3>2, <3>3, <3>4, VersionMade DEF V
    <2>7. /\ \A r \in Recipients : Told(r)' = Told(r)
          /\ \A o \in Events, r \in Recipients : RowFits(o, r)'
          /\ \A f \in Events, r \in Recipients : RecordIsKept(f, r)'
          /\ ToldOnce'
      BY <1>2, <1>4, CommitsNothing
    <2>8. \A f, o \in Events, r \in Recipients : VersionFits(f, o, r)'
      <3> TAKE f, o \in Events, r \in Recipients
      <3>1. CASE f = e /\ o = h /\ r = r0
        BY <2>6, <3>1
      <3>2. CASE ~(f = e /\ o = h /\ r = r0)
        BY <1>2, <1>4, <2>5, <2>7, <3>2, VersionKept
      <3> QED BY <3>1, <3>2
    <2>9. OneHome'
      BY <1>2, <1>3, <1>5, <1>8, <2>1, <2>4, <2>5, HomeFound
    <2> QED BY <1>6, <1>7, <2>7, <2>8, <2>9 DEF StoryInv, RowsFit, RecordsAreKept
  <1> QED BY <1>a, <1>9, <1>10 DEF FindCoalescable

LEMMA StoryInsert ==
    ASSUME StoryInv, CapInv', NEW e \in Events, InsertItem(e)
    PROVE  StoryInv'
  <1>1. TypeOK /\ CapInv
    BY StoryFacts
  <1>a. PICK r0 : r0 = Head(todo[e])
    OBVIOUS
  <1>2. /\ pc[e] = "write" /\ target[e] = e /\ pc' = [pc EXCEPT ![e] = "schedule"]
        /\ wItem' = [wItem EXCEPT ![e][e][r0] = {e}]
        /\ UNCHANGED <<now, at, todo, items, target, read, wSched, mail, history>>
    BY <1>a DEF InsertItem
  <1>3. Open(e) /\ at[e] = now /\ todo[e] # <<>>
    BY <1>1, <1>2 DEF CapInv, ClockStands, Open, TypeOK
  <1>4. r0 \in Recipients /\ \A o \in Events : wItem[e][o][r0] = {}
    BY <1>a, <1>2, <1>3, NothingWritten
  <1>5. TodoIsAhead'
    <2>1. Others(e) /\ pc'[e] = "schedule"
      BY <1>1, <1>2 DEF Others, TypeOK
    <2> QED BY <1>a, <1>2, <1>3, <2>1, TodoWritten
  <1>6. /\ pc'[e] = "schedule" /\ \A f \in Events \ {e} : pc'[f] = pc[f]
        /\ \A f, o \in Events, r \in Recipients :
              wItem'[f][o][r] = IF f = e /\ o = e /\ r = r0 THEN {e} ELSE wItem[f][o][r]
    BY <1>1, <1>2 DEF TypeOK
  <1>7. \A f, o \in Events, r \in Recipients :
            Version(f, o, r)' = IF f = e /\ o = e /\ r = r0 THEN {e} ELSE Version(f, o, r)
    <2> TAKE f, o \in Events, r \in Recipients
    <2>1. CASE f = e
      <3>1. Version(e, o, r)' = wItem'[e][o][r]
        BY <1>6 DEF Version, Reads
      <3>2. Version(e, o, r) = wItem[e][o][r]
        BY <1>2 DEF Version, Reads
      <3>3. wItem'[e][o][r] = IF o = e /\ r = r0 THEN {e} ELSE wItem[e][o][r]
        BY <1>6
      <3> QED BY <2>1, <3>1, <3>2, <3>3
    <2>2. CASE f # e
      BY <1>2, <1>6, <2>2 DEF Version, Reads
    <2> QED BY <2>1, <2>2
  <1>8. \A o \in Events : Version(e, o, r0) = {}
    BY <1>2, <1>4 DEF Version, Reads
  <1>9. /\ \A r \in Recipients : Told(r)' = Told(r)
        /\ \A o \in Events, r \in Recipients : RowFits(o, r)'
        /\ \A f \in Events, r \in Recipients : RecordIsKept(f, r)'
        /\ ToldOnce'
    BY <1>2, <1>6, CommitsNothing
  <1>10. VersionFits(e, e, r0)'
    <2>1. items[e][r0] = {}
      BY <1>1, <1>2, <1>4 DEF CapInv
    <2>2. Version(e, e, r0)' = {e}
      BY <1>4, <1>7
    <2> QED BY <1>2, <1>4, <2>1, <2>2, VersionMade DEF Fits
  <1>11. \A f, o \in Events, r \in Recipients : VersionFits(f, o, r)'
    <2> TAKE f, o \in Events, r \in Recipients
    <2>1. CASE f = e /\ o = e /\ r = r0
      BY <1>10, <2>1
    <2>2. CASE ~(f = e /\ o = e /\ r = r0)
      BY <1>2, <1>6, <1>7, <1>9, <2>2, VersionKept
    <2> QED BY <2>1, <2>2
  <1>12. OneHome'
    BY <1>2, <1>3, <1>4, <1>7, <1>8, HomeFound
  <1>13. \A f \in Events, r \in Recipients : NoteIsKept(f, r)'
    <2> TAKE f \in Events, r \in Recipients
    <2>1. CASE f = e /\ r = r0
      BY <1>4, <1>6, <2>1 DEF NoteIsKept
    <2>2. CASE ~(f = e /\ r = r0)
      <3>1. Noted(f, r)' => Noted(f, r)
        BY <1>a, <1>2, <1>6, <2>2 DEF Noted
      <3>2. \A o \in Events : f \in wItem[f][o][r] => f \in wItem'[f][o][r]
        BY <1>6, <2>2
      <3> QED BY <1>9, <3>1, <3>2 DEF StoryInv, RecordsAreKept, NoteIsKept
    <2> QED BY <2>1, <2>2
  <1> QED BY <1>5, <1>9, <1>11, <1>12, <1>13 DEF StoryInv, RowsFit, RecordsAreKept

LEMMA StoryUpdate ==
    ASSUME StoryInv, CapInv', NEW e \in Events, UpdateCoalesced(e)
    PROVE  StoryInv'
  <1>1. TypeOK /\ CapInv
    BY StoryFacts
  <1>a. PICK r0, h : r0 = Head(todo[e]) /\ h = target[e]
    OBVIOUS
  <1>2. /\ pc[e] = "write" /\ h # e /\ pc' = [pc EXCEPT ![e] = "schedule"]
        /\ wItem' = IF items[h][r0] = {} THEN wItem
                    ELSE [wItem EXCEPT ![e][h][r0] = read[e] \cup {e}]
        /\ UNCHANGED <<now, at, todo, items, target, read, wSched, mail, history>>
    BY <1>a DEF UpdateCoalesced
  <1>3. Open(e) /\ todo[e] # <<>> /\ h \in Events
    BY <1>a, <1>1, <1>2 DEF Open, TypeOK
  <1>4. r0 \in Recipients /\ \A o \in Events : wItem[e][o][r0] = {}
    BY <1>a, <1>2, <1>3, NothingWritten
  <1>5. TodoIsAhead'
    <2>1. Others(e) /\ pc'[e] = "schedule"
      BY <1>1, <1>2 DEF Others, TypeOK
    <2> QED BY <1>a, <1>2, <1>3, <2>1, TodoWritten
  <1>6. Version(e, h, r0) = read[e] \cup {e}
    BY <1>a, <1>2 DEF Version, Reads
  <1>7. \A o \in Events, r \in Recipients :
            ~(o = h /\ r = r0) => Version(e, o, r) = wItem[e][o][r]
    BY <1>a DEF Version, Reads
  <1>8. VersionFits(e, h, r0)
    BY <1>3, <1>4 DEF StoryInv, RowsFit
  <1>9. Noted(e, r0)' /\ \A f \in Events, r \in Recipients :
            Noted(f, r)' => Noted(f, r) \/ (f = e /\ r = r0)
    BY <1>a, <1>1, <1>2 DEF Noted, TypeOK
  <1>10. /\ pc'[e] = "schedule" /\ \A f \in Events \ {e} : pc'[f] = pc[f]
         /\ \A f, o \in Events, r \in Recipients :
               wItem'[f][o][r] = IF f = e /\ o = h /\ r = r0 /\ items[h][r0] # {}
                                 THEN read[e] \cup {e} ELSE wItem[f][o][r]
    BY <1>1, <1>2 DEF TypeOK
  <1>11. \A f, o \in Events, r \in Recipients :
             Version(f, o, r)' = Version(f, o, r) \/ Version(f, o, r)' = {}
    <2> TAKE f, o \in Events, r \in Recipients
    <2>1. CASE f = e
      <3>1. Version(f, o, r)' = wItem'[e][o][r]
        BY <1>10, <2>1 DEF Version, Reads
      <3>2. CASE o = h /\ r = r0
        <4>1. wItem'[e][o][r] = IF items[h][r0] # {} THEN read[e] \cup {e} ELSE wItem[e][o][r]
          BY <1>10, <3>2
        <4>2. wItem[e][o][r] = {}
          BY <1>4, <3>2
        <4> QED BY <1>6, <2>1, <3>1, <3>2, <4>1, <4>2
      <3>3. CASE ~(o = h /\ r = r0)
        <4>1. wItem'[e][o][r] = wItem[e][o][r]
          BY <1>10, <3>3
        <4> QED BY <1>7, <2>1, <3>1, <3>3, <4>1
      <3> QED BY <3>2, <3>3
    <2>2. CASE f # e
      BY <1>2, <1>10, <2>2 DEF Version, Reads
    <2> QED BY <2>1, <2>2
  <1>12. \A f \in Events, r \in Recipients : NoteIsKept(f, r)'
    <2> TAKE f \in Events, r \in Recipients
    <2>0. Told(r)' = Told(r)
      BY <1>2 DEF Told, Announced, mail
    <2>1. CASE f = e /\ r = r0
      <3>1. CASE items[h][r0] = {}
        <4>1. h \in Told(r0) /\ SameKey(h, e)
          BY <1>2, <1>6, <1>8, <3>1 DEF VersionFits, Fits
        <4> QED BY <1>2, <1>3, <2>0, <2>1, <4>1 DEF NoteIsKept
      <3>2. CASE items[h][r0] # {}
        BY <1>3, <1>4, <1>10, <2>1, <3>2 DEF NoteIsKept
      <3> QED BY <3>1, <3>2
    <2>2. CASE ~(f = e /\ r = r0)
      <3>1. \A o \in Events : f \in wItem[f][o][r] => f \in wItem'[f][o][r]
        BY <1>10, <2>2
      <3> QED BY <1>9, <2>0, <2>2, <3>1 DEF StoryInv, RecordsAreKept, NoteIsKept
    <2> QED BY <2>1, <2>2
  <1> QED BY <1>2, <1>3, <1>5, <1>10, <1>11, <1>12, QuietStory DEF Open

(***************************************************************************)
(* The two commits.                                                        *)
(***************************************************************************)

\* What is committed and what is told are apart because an event has one home.
LEMMA ApartByHome ==
    ASSUME TypeOK', OneHome', RowsFit'
    PROVE  /\ \A r \in Recipients : Pending(r)' \cap Told(r)' = {}
           /\ \A r \in Recipients : \A o, p \in Events :
                 o # p => items'[o][r] \cap items'[p][r] = {}
           /\ \A r \in Recipients : \A x \in Pending(r)' : pc'[x] = "done"
  <1>1. ASSUME NEW r \in Recipients, NEW o \in Events, NEW x \in items'[o][r]
        PROVE  /\ x \in Events /\ Lives(x, o, r)'
               /\ x \notin Told(r)' /\ pc'[x] = "done"
               /\ \A p \in Events : x \in items'[p][r] => o = p
    <2>1. x \in Events
      BY DEF TypeOK, Row
    <2>2. \A p \in Events : x \in items'[p][r] => Lives(x, p, r)'
      BY DEF Lives
    <2>3. pc'[x] = "done"
      BY <1>1 DEF RowsFit, RowFits, Done
    <2> QED BY <1>1, <2>1, <2>2, <2>3 DEF OneHome
  <1>2. \A r \in Recipients : Pending(r)' \cap Told(r)' = {}
    BY <1>1 DEF Pending
  <1>3. \A r \in Recipients : \A x \in Pending(r)' : pc'[x] = "done"
    BY <1>1 DEF Pending
  <1> QED BY <1>1, <1>2, <1>3

LEMMA StoryCommit ==
    ASSUME StoryInv, CapInv', NEW e \in Events, Commit(e)
    PROVE  StoryInv'
  <1>1. TypeOK /\ CapInv /\ TypeOK'
    BY StoryFacts DEF CapInv, SchedulingInv
  <1>2. /\ pc[e] = "find" /\ Forget(e) /\ pc' = [pc EXCEPT ![e] = "done"]
        /\ UNCHANGED <<now, at, mail>>
        /\ \A o \in Events, r \in Recipients :
              items'[o][r] = IF wItem[e][o][r] # {} THEN wItem[e][o][r] ELSE items[o][r]
    BY DEF Commit, ItemsAfter
  <1>h. \A r \in Recipients : \A x :
            /\ x \in recorded'[r] <=> x \in recorded[r] \/ (x = e /\ wSched[e][r] # NoSched)
            /\ x \in opened'[r] <=> x \in opened[r] \/ (x = e /\ wItem[e][e][r] # {})
    BY DEF Commit
  <1>3. /\ Others(e) /\ pc'[e] = "done" /\ todo'[e] = <<>>
        /\ wItem'[e] = NoItems /\ wSched'[e] = [r \in Recipients |-> NoSched]
    BY <1>1, <1>2 DEF Others, TypeOK, Forget
  <1>4. Open(e) /\ at[e] = now
    BY <1>1, <1>2 DEF CapInv, ClockStands, Open
  <1>5. \A r \in Recipients : Told(r)' = Told(r)
    BY <1>2 DEF Told, Announced, mail
  <1>6. TodoIsAhead'
    BY <1>3, TodoOfOne
  <1>7. \A o \in Events, r \in Recipients : Version(e, o, r) = wItem[e][o][r]
    BY <1>2 DEF Version, Reads
  <1>8. /\ \A o \in Events, r \in Recipients : Version(e, o, r)' = {}
        /\ \A f \in Events \ {e}, o \in Events, r \in Recipients :
              Version(f, o, r)' = Version(f, o, r)
    <2>1. \A o \in Events, r \in Recipients : Version(e, o, r)' = {}
      BY <1>3 DEF Version, Reads, NoItems
    <2>2. \A f \in Events \ {e}, o \in Events, r \in Recipients :
              Version(f, o, r)' = Version(f, o, r)
      BY <1>3 DEF Version, Reads, Others
    <2> QED BY <2>1, <2>2
  <1>9. \A r \in Recipients : items[e][r] = {} /\ e \notin Told(r)
    BY <1>1, <1>2, StoryFacts DEF CapInv
  <1>10. \A r \in Recipients : wItem[e][e][r] # {} => wItem[e][e][r] = {e}
    BY <1>7, <1>9 DEF StoryInv, RowsFit, VersionFits
  <1>11. \A f \in Events \ {e}, r \in Recipients : Version(f, e, r) = {}
    BY <1>2 DEF StoryInv, RowsFit, VersionFits, Fits, Done
  <1>12. \A o \in Events, r \in Recipients : wItem[e][o][r] # {} => o = e \/ items[o][r] # {}
    BY <1>1 DEF CapInv, RowsAreHeld
  <1>13. \A o \in Events, r \in Recipients : RowFits(o, r)'
    <2> SUFFICES ASSUME NEW o \in Events, NEW r \in Recipients, items'[o][r] # {}
                 PROVE  Fits(o, items'[o][r]) /\ \A x \in items'[o][r] : pc'[x] = "done"
      BY DEF RowFits, Fits, Done
    <2>0. \A x \in Events : pc[x] = "done" \/ x = e => pc'[x] = "done"
      BY <1>2, <1>3 DEF Others
    <2>1. items'[o][r] \subseteq Events
      BY <1>1 DEF TypeOK, Row
    <2>2. CASE wItem[e][o][r] # {}
      BY <1>2, <1>7, <2>0, <2>1, <2>2 DEF StoryInv, RowsFit, VersionFits, Done
    <2>3. CASE wItem[e][o][r] = {}
      BY <1>2, <2>0, <2>1, <2>3 DEF StoryInv, RowsFit, RowFits, Done
    <2> QED BY <2>2, <2>3
  <1>14. \A f, o \in Events, r \in Recipients : VersionFits(f, o, r)'
    <2> TAKE f, o \in Events, r \in Recipients
    <2>1. CASE Version(f, o, r)' = {}
      BY <2>1 DEF VersionFits
    <2>2. CASE Version(f, o, r)' # {}
      <3>1. f # e /\ Version(f, o, r)' = Version(f, o, r) /\ o # e
        BY <1>8, <1>11, <2>2
      <3>2. CASE wItem[e][o][r] = {}
        <4>1. items'[o][r] = items[o][r]
          BY <1>2, <3>2
        <4>2. \A x \in Events : pc[x] = "done" => pc'[x] = "done"
          BY <1>3 DEF Others
        <4> QED BY <1>2, <1>5, <3>1, <4>1, <4>2, VersionKept
      <3>3. CASE wItem[e][o][r] # {}
        <4> DEFINE V == Version(f, o, r)
        <4>1. items[o][r] # {} /\ items'[o][r] = wItem[e][o][r]
          BY <1>2, <1>12, <3>1, <3>3
        <4>2. \A x \in Events : (x \in wItem[e][o][r] <=> x \in items[o][r]) \/ at[x] = now
          <5>1. VersionFits(e, o, r) /\ Version(e, o, r) = wItem[e][o][r]
            BY <1>7 DEF StoryInv, RowsFit
          <5> QED BY <5>1, <3>3, <4>1 DEF VersionFits
        <4>3. /\ Fits(o, V) /\ f \in V /\ Done(V \ {f})
              /\ \A x \in Events : (x \in V <=> x \in items[o][r]) \/ at[x] = now
          BY <2>2, <3>1, <4>1 DEF StoryInv, RowsFit, VersionFits
        <4>4. \A x \in V \ {f} : pc'[x] = "done"
          <5>1. V \subseteq Events
            BY <1>1 DEF Version, TypeOK, Row
          <5> QED BY <1>3, <4>3, <5>1 DEF Done, Others
        <4>5. \A x \in Events : (x \in V <=> x \in items'[o][r]) \/ at'[x] = now'
          BY <1>2, <4>1, <4>2, <4>3
        <4> HIDE DEF V
        <4>6. Version(f, o, r)' = V
          BY <3>1 DEF V
        <4> QED BY <3>3, <4>1, <4>3, <4>4, <4>5, <4>6, VersionMade
      <3> QED BY <3>2, <3>3
    <2> QED BY <2>1, <2>2
  <1>15. OneHome'
    <2>1. \A x, o \in Events, r \in Recipients : Lives(x, o, r)' => Lives(x, o, r)
      BY <1>2, <1>7, <1>8 DEF Lives
    <2>2. ASSUME NEW x \in Events, NEW o \in Events, NEW r \in Recipients,
                 Lives(x, o, r)', x \in Told(r)
          PROVE  items'[o][r] = {}
      <3>1. items[o][r] = {}
        BY <2>1, <2>2 DEF StoryInv, OneHome
      <3>2. CASE wItem[e][o][r] = {}
        BY <1>2, <3>1, <3>2
      <3>3. CASE wItem[e][o][r] # {}
        <4>1. o = e /\ items'[o][r] = {e}
          BY <1>2, <1>10, <1>12, <3>1, <3>3
        <4>2. x = e
          BY <1>8, <1>11, <2>2, <4>1 DEF Lives
        <4> QED BY <1>9, <2>2, <4>2
      <3> QED BY <3>2, <3>3
    <2> QED BY <1>5, <2>1, <2>2 DEF StoryInv, OneHome
  <1>16. ToldOnce'
    <2>1. RowsFit'
      BY <1>13, <1>14 DEF RowsFit
    <2>2. /\ \A r \in Recipients : Pending(r)' \cap Told(r)' = {}
          /\ \A r \in Recipients : \A o, p \in Events :
                o # p => items'[o][r] \cap items'[p][r] = {}
          /\ \A r \in Recipients : \A x \in Pending(r)' : pc'[x] = "done"
      BY <1>1, <1>15, <2>1, ApartByHome
    <2>3. \A f \in Events : pc'[f] # "done" => pc[f] # "done"
      BY <1>3 DEF Others
    <2> QED BY <1>2, <1>5, <2>2, <2>3 DEF StoryInv, ToldOnce, Told, Announced, mail
  <1>17. \A f \in Events, r \in Recipients : NoteIsKept(f, r)'
    <2> TAKE f \in Events, r \in Recipients
    <2>1. CASE f = e
      BY <1>3, <2>1 DEF NoteIsKept, Noted
    <2>2. CASE f # e
      BY <1>3, <1>5, <2>2 DEF StoryInv, RecordsAreKept, NoteIsKept, Noted, Others
    <2> QED BY <2>1, <2>2
  <1>18. \A x \in Events, r \in Recipients : RecordIsKept(x, r)'
    <2> TAKE x \in Events, r \in Recipients
    <2>1. RecordIsKept(x, r)
      BY DEF StoryInv, RecordsAreKept
    <2>2. x \in recorded'[r] \cup opened'[r] => x = e \/ x \in recorded[r] \cup opened[r]
      BY <1>h
    <2>3. x \in recorded[r] \cup opened[r] => x # e /\ pc[x] = "done"
      BY <1>2, <2>1 DEF RecordIsKept
    <2>4. x \in recorded'[r] \cup opened'[r] => pc'[x] = "done"
      BY <1>3, <2>2, <2>3 DEF Others
    <2>5. x \in opened'[r] => x \in items'[x][r] \cup Told(r)'
      <3> HAVE x \in opened'[r]
      <3>1. CASE x = e
        BY <1>2, <1>h, <1>10, <2>3, <3>1
      <3>2. CASE x # e
        <4>1. x \in items[x][r] \cup Told(r)
          BY <1>h, <2>1, <3>2 DEF RecordIsKept
        <4>2. CASE wItem[e][x][r] # {}
          <5>1. x \in wItem[e][x][r]
            <6>1. VersionFits(e, x, r) /\ Version(e, x, r) = wItem[e][x][r]
              BY <1>7 DEF StoryInv, RowsFit
            <6> QED BY <4>2, <6>1 DEF VersionFits, Fits
          <5> QED BY <1>2, <4>2, <5>1
        <4>3. CASE wItem[e][x][r] = {}
          BY <1>2, <1>5, <4>1, <4>3
        <4> QED BY <4>2, <4>3
      <3> QED BY <3>1, <3>2
    <2>6. ASSUME x \in recorded'[r], x \notin Pending(r)' \cup Told(r)
          PROVE  \E o \in Events \ {x} : Explains(o, x, r)'
      <3>0. \A o \in Events : x \notin items'[o][r]
        BY <2>6 DEF Pending
      <3>1. \A o \in Events \ {e} : pc[o] = "done" => pc'[o] = "done" /\ at'[o] = at[o]
        BY <1>2, <1>3 DEF Others
      <3>2. CASE x = e
        <4>1. Noted(e, r)
          BY <1>h, <2>3, <2>6, <3>2 DEF Noted
        <4>2. PICK o \in Events \ {e} : SameKey(o, e) /\ o \in Told(r)
          BY <1>2, <3>0, <3>2, <4>1 DEF StoryInv, RecordsAreKept, NoteIsKept
        <4>3. pc[o] = "done"
          BY <4>2, StoryFacts
        <4> QED BY <1>5, <3>1, <3>2, <4>2, <4>3 DEF Explains
      <3>3. CASE x # e /\ x \notin Pending(r)
        <4>1. PICK o \in Events \ {x} : Explains(o, x, r)
          BY <1>5, <1>h, <2>1, <2>6, <3>3 DEF RecordIsKept
        <4>2. o # e
          BY <1>2, <4>1 DEF Explains
        <4> QED BY <1>2, <1>5, <3>1, <4>1, <4>2 DEF Explains
      <3>4. CASE x # e /\ x \in Pending(r)
        <4>1. PICK o \in Events : x \in items[o][r]
          BY <3>4 DEF Pending
        <4>2. wItem[e][o][r] # {} /\ x \notin wItem[e][o][r] /\ o # e
          BY <1>2, <1>9, <3>0, <4>1
        <4>3. /\ Fits(o, wItem[e][o][r]) /\ e \in wItem[e][o][r]
              /\ \A y \in Events : (y \in wItem[e][o][r] <=> y \in items[o][r]) \/ at[y] = now
          <5>1. VersionFits(e, o, r) /\ Version(e, o, r) = wItem[e][o][r]
            BY <1>7 DEF StoryInv, RowsFit
          <5> QED BY <5>1, <4>1, <4>2 DEF VersionFits
        <4>4. Fits(o, items[o][r])
          BY <4>1 DEF StoryInv, RowsFit, RowFits
        <4>5. SameKey(o, e) /\ SameKey(o, x) /\ at[x] = now
          BY <4>1, <4>2, <4>3, <4>4 DEF Fits
        <4>6. Explains(e, x, r)'
          BY <1>2, <1>3, <1>4, <4>5 DEF Explains, SameKey
        <4> QED BY <3>4, <4>6
      <3> QED BY <3>2, <3>3, <3>4
    <2> QED BY <1>5, <2>4, <2>5, <2>6 DEF RecordIsKept
  <1> QED BY <1>6, <1>13, <1>14, <1>15, <1>16, <1>17, <1>18
          DEF StoryInv, RowsFit, RecordsAreKept

\* What a tick tells of a recipient when it commits: what it has drained, and all of it.
LEMMA TickTells ==
    ASSUME StoryInv, NEW w \in Workers, CommitTick(w), NEW r \in Recipients
    PROVE  /\ Announced(r)' = IF r \in loaded[w] THEN Announced(r) \cup UNION DrainedRows(w, r)
                              ELSE Announced(r)
           /\ dropped'[r] = IF r \in claims[w] \ loaded[w]
                            THEN dropped[r] \cup UNION DrainedRows(w, r) ELSE dropped[r]
           /\ \A x \in UNION DrainedRows(w, r) : \E o \in Events :
                 <<o, r>> \in drained[w] /\ x \in items[o][r]
           /\ \A o \in Events : <<o, r>> \in drained[w] =>
                 r \in claims[w] /\ items[o][r] \subseteq UNION DrainedRows(w, r)
  <1>1. TypeOK /\ CapInv
    BY StoryFacts
  <1>2. sent'[r] = IF r \in loaded[w] /\ DrainedRows(w, r) # {}
                   THEN sent[r] \cup {DrainedRows(w, r)} ELSE sent[r]
    BY DEF CommitTick
  <1>3. dropped'[r] = IF r \in claims[w] \ loaded[w]
                      THEN dropped[r] \cup UNION DrainedRows(w, r) ELSE dropped[r]
    BY DEF CommitTick
  <1>4. Announced(r)' = IF r \in loaded[w] THEN Announced(r) \cup UNION DrainedRows(w, r)
                        ELSE Announced(r)
    <2> DEFINE D == DrainedRows(w, r)
    <2> HIDE DEF D
    <2>1. sent'[r] = IF r \in loaded[w] /\ D # {} THEN sent[r] \cup {D} ELSE sent[r]
      BY <1>2 DEF D
    <2>2. UNION {UNION d : d \in sent[r] \cup {D}}
          = (UNION {UNION d : d \in sent[r]}) \cup (UNION D)
      <3> DEFINE A == {UNION d : d \in sent[r]}
      <3>1. {UNION d : d \in sent[r] \cup {D}} = A \cup {UNION D}
        OBVIOUS
      <3> HIDE DEF A
      <3>2. UNION (A \cup {UNION D}) = (UNION A) \cup (UNION D)
        OBVIOUS
      <3> QED BY <3>1, <3>2 DEF A
    <2>3. Announced(r)' = IF r \in loaded[w] THEN Announced(r) \cup UNION D ELSE Announced(r)
      BY <2>1, <2>2 DEF Announced
    <2> QED BY <2>3 DEF D
  <1>5. \A x \in UNION DrainedRows(w, r) : \E o \in Events :
            <<o, r>> \in drained[w] /\ x \in items[o][r]
    BY DEF DrainedRows
  <1>6. \A o \in Events : <<o, r>> \in drained[w] =>
            r \in claims[w] /\ items[o][r] \subseteq UNION DrainedRows(w, r)
    BY <1>1 DEF CapInv, DrainsAreHeld, DrainedRows
  <1> QED BY <1>3, <1>4, <1>5, <1>6

LEMMA StoryCommitTick ==
    ASSUME StoryInv, CapInv', NEW w \in Workers, CommitTick(w)
    PROVE  StoryInv'
  <1>1. TypeOK /\ CapInv /\ TypeOK'
    BY StoryFacts DEF CapInv, SchedulingInv
  <1>2. /\ UNCHANGED <<now, pc, at, todo, target, read, wItem, wSched, recorded, opened>>
        /\ \A o \in Events, r \in Recipients :
              items'[o][r] = IF <<o, r>> \in drained[w] THEN {} ELSE items[o][r]
    BY DEF CommitTick, business, history
  <1>3. \A o \in Events, r \in Recipients : items'[o][r] # {} => items'[o][r] = items[o][r]
    BY <1>2
  <1>4. ASSUME NEW r \in Recipients
        PROVE  /\ Told(r) \subseteq Told(r)'
               /\ \A x \in Told(r)' : \/ x \in Told(r)
                                      \/ \E o \in Events : /\ <<o, r>> \in drained[w]
                                                           /\ x \in items[o][r]
               /\ \A o \in Events : items'[o][r] # items[o][r] => items[o][r] \subseteq Told(r)'
    <2> DEFINE U == UNION DrainedRows(w, r)
    <2>1. /\ Announced(r)' = IF r \in loaded[w] THEN Announced(r) \cup U ELSE Announced(r)
          /\ dropped'[r] = IF r \in claims[w] \ loaded[w] THEN dropped[r] \cup U ELSE dropped[r]
          /\ \A x \in U : \E o \in Events : <<o, r>> \in drained[w] /\ x \in items[o][r]
          /\ \A o \in Events :
                <<o, r>> \in drained[w] => r \in claims[w] /\ items[o][r] \subseteq U
      BY TickTells
    <2> HIDE DEF U
    <2>2. Told(r)' = Announced(r)' \cup dropped'[r] /\ Told(r) = Announced(r) \cup dropped[r]
      BY DEF Told
    <2>3. Told(r) \subseteq Told(r)' /\ Told(r)' \subseteq Told(r) \cup U
      BY <2>1, <2>2
    <2>4. \A o \in Events : <<o, r>> \in drained[w] => items[o][r] \subseteq Told(r)'
      BY <2>1, <2>2
    <2>5. \A o \in Events : items'[o][r] # items[o][r] => <<o, r>> \in drained[w]
      BY <1>2
    <2> QED BY <2>1, <2>3, <2>4, <2>5
  <1>5. TodoIsAhead'
    BY <1>2 DEF StoryInv, TodoIsAhead
  <1>6. \A e, o \in Events, r \in Recipients : Version(e, o, r)' = Version(e, o, r)
    BY <1>2 DEF Version, Reads
  <1>7. \A o \in Events, r \in Recipients : RowFits(o, r)'
    BY <1>2, <1>3 DEF StoryInv, RowsFit, RowFits, Done
  <1>8. \A e, o \in Events, r \in Recipients : VersionFits(e, o, r)'
    <2> TAKE e, o \in Events, r \in Recipients
    <2>1. CASE items'[o][r] = items[o][r]
      BY <1>2, <1>4, <1>6, <2>1, VersionKept
    <2>2. CASE items'[o][r] # items[o][r]
      <3> DEFINE V == Version(e, o, r)
      <3>1. items'[o][r] = {} /\ items[o][r] # {} /\ o \in Told(r)'
        <4>1. items'[o][r] = {} /\ items[o][r] # {}
          BY <1>2, <2>2
        <4>2. o \in items[o][r]
          BY <4>1 DEF StoryInv, RowsFit, RowFits, Fits
        <4> QED BY <1>4, <2>2, <4>1, <4>2
      <3>2. CASE V = {}
        BY <1>6, <3>2 DEF VersionFits
      <3>3. CASE V # {}
        <4>1. Fits(o, V) /\ e \in V /\ \A x \in V \ {e} : pc'[x] = "done"
          BY <1>2, <3>3 DEF StoryInv, RowsFit, VersionFits, Done
        <4>2. Version(e, o, r)' = V
          BY <1>6
        <4> HIDE DEF V
        <4> QED BY <3>1, <4>1, <4>2, VersionMade
      <3> QED BY <3>2, <3>3
    <2> QED BY <2>1, <2>2
  <1>9. OneHome'
    <2>1. \A x, o \in Events, r \in Recipients : Lives(x, o, r)' => Lives(x, o, r)
      BY <1>3, <1>6 DEF Lives
    <2>2. ASSUME NEW x \in Events, NEW o \in Events, NEW r \in Recipients,
                 Lives(x, o, r)', x \in Told(r)'
          PROVE  items'[o][r] = {}
      <3>1. Lives(x, o, r)
        BY <2>1, <2>2
      <3>2. CASE x \in Told(r)
        BY <1>3, <3>1, <3>2 DEF StoryInv, OneHome
      <3>3. CASE x \notin Told(r)
        <4>1. PICK p \in Events : <<p, r>> \in drained[w] /\ x \in items[p][r]
          BY <1>4, <2>2, <3>3
        <4>2. Lives(x, p, r)
          BY <4>1 DEF Lives
        <4>3. o = p
          BY <3>1, <4>2 DEF StoryInv, OneHome
        <4> QED BY <1>2, <4>1, <4>3
      <3> QED BY <3>2, <3>3
    <2> QED BY <2>1, <2>2 DEF StoryInv, OneHome
  <1>10. \A e \in Events, r \in Recipients : NoteIsKept(e, r)'
    BY <1>2, <1>4 DEF StoryInv, RecordsAreKept, NoteIsKept, Noted
  <1>11. \A x \in Events, r \in Recipients : RecordIsKept(x, r)'
    <2> TAKE x \in Events, r \in Recipients
    <2>1. RecordIsKept(x, r)
      BY DEF StoryInv, RecordsAreKept
    <2>2. \A o \in Events : x \in items[o][r] => x \in items'[o][r] \/ x \in Told(r)'
      BY <1>4
    <2>3. x \in Pending(r) \cup Told(r) => x \in Pending(r)' \cup Told(r)'
      BY <1>4, <2>2 DEF Pending
    <2>4. \A o \in Events : Explains(o, x, r) => Explains(o, x, r)'
      BY <1>2, <1>4 DEF Explains
    <2>5. x \in recorded'[r] \cup opened'[r] => pc'[x] = "done"
      BY <1>2, <2>1 DEF RecordIsKept
    <2>6. x \in opened'[r] => x \in items'[x][r] \cup Told(r)'
      BY <1>2, <1>4, <2>1, <2>2 DEF RecordIsKept
    <2>7. x \in recorded'[r] \ (Pending(r)' \cup Told(r)') =>
             \E o \in Events \ {x} : Explains(o, x, r)'
      BY <1>2, <2>1, <2>3, <2>4 DEF RecordIsKept
    <2> QED BY <2>5, <2>6, <2>7 DEF RecordIsKept
  <1>12. RowsFit'
    BY <1>7, <1>8 DEF RowsFit
  <1>13. ToldOnce'
    <2>1. /\ \A r \in Recipients : Pending(r)' \cap Told(r)' = {}
          /\ \A r \in Recipients : \A o, p \in Events :
                o # p => items'[o][r] \cap items'[p][r] = {}
          /\ \A r \in Recipients : \A x \in Pending(r)' : pc'[x] = "done"
      BY <1>1, <1>9, <1>12, ApartByHome
    <2>2. ASSUME NEW r \in Recipients
          PROVE  /\ Announced(r)' \cap dropped'[r] = {}
                 /\ \A c, d \in sent'[r] : c # d => (UNION c) \cap (UNION d) = {}
                 /\ \A d \in sent'[r] : \A a, b \in d : a # b => a \cap b = {}
      <3> DEFINE D == DrainedRows(w, r)
      <3>1. /\ Announced(r)' = IF r \in loaded[w] THEN Announced(r) \cup UNION D ELSE Announced(r)
            /\ dropped'[r] = IF r \in claims[w] \ loaded[w] THEN dropped[r] \cup UNION D
                             ELSE dropped[r]
            /\ \A x \in UNION D : x \in Pending(r)
        <4>1. \A x \in UNION D : \E o \in Events : <<o, r>> \in drained[w] /\ x \in items[o][r]
          BY TickTells
        <4>2. \A x \in UNION D : x \in Pending(r)
          BY <4>1 DEF Pending
        <4>3. /\ Announced(r)' = IF r \in loaded[w] THEN Announced(r) \cup UNION D
                                 ELSE Announced(r)
              /\ dropped'[r] = IF r \in claims[w] \ loaded[w] THEN dropped[r] \cup UNION D
                               ELSE dropped[r]
          BY TickTells
        <4> QED BY <4>2, <4>3
      <3>2. sent'[r] = sent[r] \/ sent'[r] = sent[r] \cup {D}
        BY DEF CommitTick
      <3>3. /\ Pending(r) \cap Announced(r) = {} /\ Pending(r) \cap dropped[r] = {}
            /\ Announced(r) \cap dropped[r] = {}
            /\ \A c, d \in sent[r] : c # d => (UNION c) \cap (UNION d) = {}
            /\ \A d \in sent[r] : \A a, b \in d : a # b => a \cap b = {}
        BY DEF StoryInv, ToldOnce
      <3>4. \A a, b \in D : a # b => a \cap b = {}
        <4> TAKE a, b \in D
        <4>1. PICK o \in Events : a = items[o][r]
          BY DEF DrainedRows
        <4>2. PICK p \in Events : b = items[p][r]
          BY DEF DrainedRows
        <4> QED BY <4>1, <4>2 DEF StoryInv, ToldOnce
      <3>5. \A c \in sent[r] : (UNION c) \subseteq Announced(r)
        BY DEF Announced
      <3> HIDE DEF D
      <3>6. Announced(r)' \cap dropped'[r] = {}
        BY <3>1, <3>3
      <3>7. \A c \in sent[r] : (UNION c) \cap (UNION D) = {}
        <4> TAKE c \in sent[r]
        <4>1. (UNION c) \subseteq Announced(r) /\ (UNION D) \subseteq Pending(r)
          BY <3>1, <3>5
        <4> QED BY <3>3, <4>1
      <3>8. \A c, d \in sent'[r] : c # d => (UNION c) \cap (UNION d) = {}
        <4> TAKE c, d \in sent'[r]
        <4>1. (c \in sent[r] \/ c = D) /\ (d \in sent[r] \/ d = D)
          BY <3>2
        <4>2. CASE c \in sent[r] /\ d \in sent[r]
          BY <3>3, <4>2
        <4>3. CASE c \in sent[r] /\ d = D
          BY <3>7, <4>3
        <4>4. CASE c = D /\ d \in sent[r]
          <5>1. (UNION d) \cap (UNION D) = {}
            BY <3>7, <4>4
          <5> QED BY <4>4, <5>1
        <4> QED BY <4>1, <4>2, <4>3, <4>4
      <3>9. \A d \in sent'[r] : \A a, b \in d : a # b => a \cap b = {}
        BY <3>2, <3>3, <3>4
      <3> QED BY <3>6, <3>8, <3>9
    <2>3. ASSUME NEW e \in Events, pc'[e] # "done", NEW r \in Recipients
          PROVE  e \notin Pending(r)' \cup Announced(r)' \cup dropped'[r]
      <3>1. e \notin Told(r)
        BY <1>2, <2>3, StoryFacts
      <3>2. \A o \in Events : e \notin items[o][r]
        BY <1>2, <2>3 DEF StoryInv, RowsFit, RowFits, Done
      <3>3. e \notin Told(r)'
        BY <1>4, <3>1, <3>2
      <3> QED BY <2>1, <2>3, <3>3 DEF Told
    <2> QED BY <2>1, <2>2, <2>3 DEF ToldOnce, Told
  <1> QED BY <1>5, <1>9, <1>10, <1>11, <1>12, <1>13 DEF StoryInv, RecordsAreKept

LEMMA StepStory == StoryInv /\ [Next]_vars => StoryInv'
  <1> SUFFICES ASSUME StoryInv, [Next]_vars PROVE StoryInv'
    OBVIOUS
  <1>1. CapInv'
    BY StepCap, StoryFacts
  <1>2. ASSUME NEW e \in Events, Begin(e) \/ BusinessStep(e) \/ Fail(e)
        PROVE  StoryInv'
    <2>1. CASE Begin(e)
      BY <1>1, <2>1, StoryBegin
    <2>2. CASE FindCoalescable(e)
      BY <1>1, <2>2, StoryFind
    <2>3. CASE InsertItem(e)
      BY <1>1, <2>3, StoryInsert
    <2>4. CASE UpdateCoalesced(e)
      BY <1>1, <2>4, StoryUpdate
    <2>5. CASE UpsertSchedule(e)
      BY <1>1, <2>5, StoryUpsert
    <2>6. CASE Commit(e)
      BY <1>1, <2>6, StoryCommit
    <2>7. CASE DeadlockVictim(e) \/ Fail(e)
      BY <1>1, <2>7, StoryRollback DEF DeadlockVictim, Fail
    <2> QED BY <1>2, <2>1, <2>2, <2>3, <2>4, <2>5, <2>6, <2>7 DEF BusinessStep
  <1>3. ASSUME NEW w \in Workers, TickStep(w) \/ FailTick(w)
        PROVE  StoryInv'
    <2>1. CASE CommitTick(w)
      BY <1>1, <2>1, StoryCommitTick
    <2>2. CASE \/ Claim(w) \/ LoadRecipient(w) \/ DrainItems(w)
               \/ DeadlockVictimTick(w) \/ FailTick(w)
      BY <1>1, <2>2, BusinessRests
         DEF Claim, LoadRecipient, DrainItems, DeadlockVictimTick, FailTick, RollbackTick
    <2> QED BY <1>3, <2>1, <2>2 DEF TickStep
  <1>4. CASE \E r \in Recipients : SetActive(r)
    BY <1>1, <1>4, BusinessRests DEF SetActive
  <1>5. CASE Tick
    BY <1>1, <1>5, BusinessRests DEF Tick, Transactions
  <1>6. CASE UNCHANGED vars
    BY <1>1, <1>6, BusinessRests DEF vars
  <1> QED BY <1>2, <1>3, <1>4, <1>5, <1>6 DEF Next

\* What the digest keeps true at every statement: who holds which row and schedule, what
\* each row and each unfinished version of it stands for, where each event is to be found,
\* and why one is not (lib/digest.js, digest/repo.js and digest/worker.js together).
THEOREM DigestInvariant == Spec => []StoryInv
  BY InitStory, StepStory, PTL DEF Spec

\* An event is told to a recipient in one place and one row only, and not before its
\* transaction commits: findCoalescable's stale reads, updates of drained rows and ticks
\* that roll back never repeat an event or tell one that did not happen.
THEOREM ToldOnceAlways == Spec => []ToldOnce
  <1>1. StoryInv => ToldOnce
    BY DEF StoryInv
  <1> QED BY <1>1, DigestInvariant, PTL

\* An event that committed and is in no row and no digest had coalesced, into a row that
\* another event of its key rewrote in the same instant or that a tick had drained by
\* then (coalesceUpdate of digest/repo.js, whose count is computed from an earlier read).
THEOREM LossIsExplainedAlways == Spec => []LossIsExplained
  <1>1. StoryInv => LossIsExplained
    <2> SUFFICES ASSUME StoryInv, NEW r \in Recipients, NEW e \in recorded[r],
                        e \notin Pending(r) \cup Announced(r) \cup dropped[r]
                 PROVE  /\ e \notin opened[r]
                        /\ \E o \in Events \ {e} :
                              /\ KeyOf[o] = KeyOf[e] /\ KeyOf[e] # NoKey
                              /\ at[o] = at[e] \/ o \in Announced(r) \cup dropped[r]
      BY DEF LossIsExplained
    <2>1. e \in Events
      BY StoryFacts DEF TypeOK, Row
    <2>2. RecordIsKept(e, r)
      BY <2>1 DEF StoryInv, RecordsAreKept
    <2>3. e \notin Told(r) /\ e \notin items[e][r]
      BY <2>1 DEF Told, Pending
    <2> QED BY <2>2, <2>3 DEF RecordIsKept, Explains, SameKey, Told
  <1> QED BY <1>1, DigestInvariant, PTL
=============================================================================
