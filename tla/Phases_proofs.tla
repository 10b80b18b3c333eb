---------------------------- MODULE Phases_proofs ----------------------------
(***************************************************************************)
(* Theorems about the phases of a project, for every set of phases, of     *)
(* items and of requests in flight: the work on phases and checklists      *)
(* (PhaseWork), and the order of the phases (PhaseOrder).                  *)
(***************************************************************************)
EXTENDS PhaseWork, PhaseOrder, FiniteSetTheorems, TLAPS

\* What a request has read, by where it is.
LEMMA ReadingParts ==
    ASSUME NEW o \in Reading
    PROVE  /\ o.at = "phase" => o.phase \in Phases /\ o.row \in PhaseRow
           /\ o.at = "item" => o.item \in Items /\ o.found \in ItemRow
           /\ o.at = "parent" => o.item \in Items /\ o.found \in ItemRow /\ o.row \in PhaseRow
           /\ o = Idle \/ o.at \in {"phase", "item", "parent"}
           /\ o.at = "idle" => o = Idle
  BY DEF Reading, Idle

LEMMA ReadingKinds ==
    /\ Idle \in Reading
    /\ \A p \in Phases, row \in PhaseRow : [at |-> "phase", phase |-> p, row |-> row] \in Reading
    /\ \A i \in Items, f \in ItemRow : [at |-> "item", item |-> i, found |-> f] \in Reading
    /\ \A i \in Items, f \in ItemRow, row \in PhaseRow :
          [at |-> "parent", item |-> i, found |-> f, row |-> row] \in Reading
  BY DEF Reading, Idle

\* No row is not a row.
LEMMA NoRowIsNone == NoRow \notin PhaseRow /\ NoRow \notin ItemRow
  BY DEF NoRow, PhaseRow, ItemRow

\* A change of status makes a row whose dates agree with it from one whose dates do.
LEMMA ChangeKeepsAgreement ==
    ASSUME NEW p, NEW row \in PhaseRow, NEW new \in Statuses
    PROVE  /\ ChangedRow(row, new) \in PhaseRow
           /\ ChangedRow(row, new).status = new
           /\ DatesAgree(p, row) => DatesAgree(p, ChangedRow(row, new))
  BY DEF PhaseRow, Statuses, Dates, ChangedRow, DatesAgree

\* What the customer is shown of a request's rows is a pair of truth values.
LEMMA WatchedType ==
    ASSUME NEW before \in Seen, NEW reading
    PROVE  Watched(before, reading) \in Seen
  BY Zenon DEF Watched, Seen, PhaseShown, ItemShown

(***************************************************************************)
(* Type correctness.                                                       *)
(***************************************************************************)

LEMMA InitType == Init => TypeOK
  BY ReadingKinds DEF Init, TypeOK, PhaseRow, Statuses, Dates, Seen

LEMMA RequestType ==
    ASSUME TypeOK, NEW r \in Requests, End(r)
    PROVE  req' \in [Requests -> Reading]
  BY ReadingKinds DEF TypeOK, End

LEMMA NewsType ==
    ASSUME TypeOK, NEW r \in Requests, NEW by \in Operation, NEW toCustomer \in BOOLEAN,
           NEW visible \in BOOLEAN
    PROVE  /\ [by |-> by, toCustomer |-> toCustomer, seen |-> seen[r]] \in
                 [by : Operation, toCustomer : BOOLEAN, seen : Seen]
           /\ [by |-> by, toCustomer |-> toCustomer, seen |-> [seen[r] EXCEPT !.item = visible]] \in
                 [by : Operation, toCustomer : BOOLEAN, seen : Seen]
  BY DEF TypeOK, Seen

\* The tables, the readings and what is announced; what a request sees comes on top.
RowsOK ==
    /\ phase \in [Phases -> PhaseRow \cup {NoRow}]
    /\ item \in [Items -> ItemRow \cup {NoRow}]
    /\ req \in [Requests -> Reading]
    /\ news \in {NoNews} \cup [by : Operation, toCustomer : BOOLEAN, seen : Seen]
    /\ trail \in [Phases -> Statuses]
    /\ typed \subseteq Phases
    /\ stale \subseteq Phases
    /\ used \subseteq Items

LEMMA PhaseStepType ==
    ASSUME TypeOK, NEW r \in Requests,
           (\E p \in Phases : FindPhase(r, p)) \/ PhasePosts(r) \/ DeletePhase(r)
    PROVE  RowsOK'
  <1> USE DEF rows, history
  <1>1. ASSUME NEW p \in Phases, FindPhase(r, p)
        PROVE  RowsOK'
    <2>1. phase[p] \in PhaseRow
      BY <1>1 DEF TypeOK, FindPhase
    <2>2. req' \in [Requests -> Reading]
      BY <1>1, <2>1, ReadingKinds DEF TypeOK, FindPhase
    <2> QED BY <1>1, <2>2 DEF TypeOK, RowsOK, FindPhase
  <1>2. CASE Rename(r)
    <2>1. req' \in [Requests -> Reading]
      BY <1>2, RequestType DEF Rename
    <2>2. news' \in [by : Operation, toCustomer : BOOLEAN, seen : Seen]
      <3>1. "rename" \in Operation /\ PhaseVisible(req[r].row.status) \in BOOLEAN
        BY DEF Operation, PhaseVisible
      <3> QED BY <1>2, <3>1, NewsType DEF Rename, Announce
    <2> QED BY <1>2, <2>1, <2>2 DEF TypeOK, RowsOK, Rename
  <1>3. ASSUME NEW new \in Statuses, ChangeStatus(r, new)
        PROVE  RowsOK'
    <2>1. req[r].phase \in Phases /\ req[r].row \in PhaseRow
      BY <1>3, ReadingParts DEF TypeOK, ChangeStatus
    <2>2. ChangedRow(req[r].row, new) \in PhaseRow
      BY <2>1, ChangeKeepsAgreement
    <2>3. phase' \in [Phases -> PhaseRow \cup {NoRow}]
      BY <1>3, <2>1, <2>2 DEF TypeOK, ChangeStatus, Write
    <2>4. req' \in [Requests -> Reading]
      BY <1>3, RequestType DEF ChangeStatus
    <2>5. news' \in [by : Operation, toCustomer : BOOLEAN, seen : Seen]
      <3>1. "status" \in Operation /\ PhaseVisible(new) \in BOOLEAN
        BY DEF Operation, PhaseVisible
      <3> QED BY <1>3, <3>1, NewsType DEF ChangeStatus, Announce
    <2> QED BY <1>3, <2>1, <2>3, <2>4, <2>5 DEF TypeOK, RowsOK, ChangeStatus
  <1>4. ASSUME NEW started \in {"none", "typed"}, NEW completed \in {"none", "typed"},
               SetDates(r, started, completed)
        PROVE  RowsOK'
    <2>1. req[r].phase \in Phases /\ req[r].row \in PhaseRow
      BY <1>4, ReadingParts DEF TypeOK, SetDates
    <2>2. [status |-> req[r].row.status, started |-> started, completed |-> completed] \in PhaseRow
      BY <2>1 DEF PhaseRow, Dates
    <2>3. phase' \in [Phases -> PhaseRow \cup {NoRow}]
      BY <1>4, <2>1, <2>2 DEF TypeOK, SetDates, Write
    <2>4. req' \in [Requests -> Reading]
      BY <1>4, RequestType DEF SetDates
    <2> QED BY <1>4, <2>1, <2>3, <2>4 DEF TypeOK, RowsOK, SetDates
  <1>5. CASE DeletePhase(r)
    <2>1. req[r].phase \in Phases
      BY <1>5, ReadingParts DEF TypeOK, DeletePhase
    <2>2. req' \in [Requests -> Reading]
      BY <1>5, RequestType DEF DeletePhase
    <2>3. news' \in [by : Operation, toCustomer : BOOLEAN, seen : Seen]
      <3>1. "delete" \in Operation /\ PhaseVisible(req[r].row.status) \in BOOLEAN
        BY DEF Operation, PhaseVisible
      <3> QED BY <1>5, <3>1, NewsType DEF DeletePhase, Announce
    <2> QED BY <1>5, <2>1, <2>2, <2>3 DEF TypeOK, RowsOK, DeletePhase
  <1> QED BY <1>1, <1>2, <1>3, <1>4, <1>5 DEF PhasePosts

LEMMA ItemStepType ==
    ASSUME TypeOK, NEW r \in Requests,
           (\E i \in Items : FindItem(r, i)) \/ FindParent(r) \/ ItemPosts(r) \/ Abort(r)
    PROVE  RowsOK'
  <1> USE DEF rows, history
  <1>1. ASSUME NEW i \in Items, FindItem(r, i)
        PROVE  RowsOK'
    <2>1. item[i] \in ItemRow
      BY <1>1 DEF TypeOK, FindItem
    <2>2. req' \in [Requests -> Reading]
      BY <1>1, <2>1, ReadingKinds DEF TypeOK, FindItem
    <2> QED BY <1>1, <2>2 DEF TypeOK, RowsOK, FindItem
  <1>2. CASE FindParent(r)
    <2>1. req[r].item \in Items /\ req[r].found \in ItemRow
      BY <1>2, ReadingParts DEF TypeOK, FindParent
    <2>2. phase[req[r].found.phase] \in PhaseRow
      BY <1>2, <2>1 DEF TypeOK, FindParent, ItemRow
    <2>3. req' \in [Requests -> Reading]
      BY <1>2, <2>1, <2>2, ReadingKinds DEF TypeOK, FindParent
    <2> QED BY <1>2, <2>3 DEF TypeOK, RowsOK, FindParent
  <1>3. ASSUME NEW i \in Items, NEW visible \in BOOLEAN, CreateItem(r, i, visible)
        PROVE  RowsOK'
    <2>1. [phase |-> req[r].phase, visible |-> visible] \in ItemRow
      BY <1>3, ReadingParts DEF TypeOK, CreateItem, ItemRow
    <2>2. item' \in [Items -> ItemRow \cup {NoRow}]
      BY <1>3, <2>1 DEF TypeOK, CreateItem
    <2>3. req' \in [Requests -> Reading]
      BY <1>3, RequestType DEF CreateItem
    <2>4. news' \in [by : Operation, toCustomer : BOOLEAN, seen : Seen]
      <3>1. "create item" \in Operation /\ ItemVisible(visible, req[r].row.status) \in BOOLEAN
        BY DEF Operation, ItemVisible, PhaseVisible
      <3> QED BY <1>3, <3>1, NewsType DEF CreateItem
    <2> QED BY <1>3, <2>2, <2>3, <2>4 DEF TypeOK, RowsOK, CreateItem
  <1>4. CASE RenameItem(r) \/ ToggleDone(r) \/ DeleteItem(r)
    <2>1. req[r].item \in Items
      BY <1>4, ReadingParts DEF TypeOK, RenameItem, ToggleDone, DeleteItem
    <2>2. item' \in [Items -> ItemRow \cup {NoRow}]
      BY <1>4, <2>1 DEF TypeOK, RenameItem, ToggleDone, DeleteItem
    <2>3. req' \in [Requests -> Reading]
      BY <1>4, RequestType DEF RenameItem, ToggleDone, DeleteItem
    <2>4. news' \in [by : Operation, toCustomer : BOOLEAN, seen : Seen]
      <3> DEFINE visible == ItemVisible(req[r].found.visible, req[r].row.status)
      <3>1. visible \in BOOLEAN
        <4>1. req[r].found \in ItemRow
          BY <1>4, ReadingParts DEF TypeOK, RenameItem, ToggleDone, DeleteItem
        <4> QED BY <4>1, Zenon DEF ItemVisible, PhaseVisible
      <3>2. PICK by \in {"rename item", "toggle", "delete item"} : Announce(r, by, visible)
        BY <1>4 DEF RenameItem, ToggleDone, DeleteItem
      <3>3. by \in Operation
        BY DEF Operation
      <3> HIDE DEF visible
      <3> QED BY <3>1, <3>2, <3>3, NewsType DEF Announce
    <2> QED BY <1>4, <2>2, <2>3, <2>4 DEF TypeOK, RowsOK, RenameItem, ToggleDone, DeleteItem
  <1>5. ASSUME NEW show \in BOOLEAN, SetVisibility(r, show)
        PROVE  RowsOK'
    <2>1. req[r].item \in Items
      BY <1>5, ReadingParts DEF TypeOK, SetVisibility
    <2>2. item[req[r].item] # NoRow => [item[req[r].item] EXCEPT !.visible = show] \in ItemRow
      BY <2>1 DEF TypeOK, ItemRow
    <2>3. item' \in [Items -> ItemRow \cup {NoRow}]
      BY <1>5, <2>1, <2>2 DEF TypeOK, SetVisibility
    <2>4. req' \in [Requests -> Reading]
      BY <1>5, RequestType DEF SetVisibility
    <2>5. news' \in [by : Operation, toCustomer : BOOLEAN, seen : Seen]
      <3>1. "visibility" \in Operation /\ FALSE \in BOOLEAN
        BY DEF Operation
      <3> QED BY <1>5, <3>1, NewsType DEF SetVisibility, Announce
    <2> QED BY <1>5, <2>3, <2>4, <2>5 DEF TypeOK, RowsOK, SetVisibility
  <1>6. CASE Abort(r)
    BY <1>6, RequestType DEF TypeOK, RowsOK, Abort
  <1> QED BY <1>1, <1>2, <1>3, <1>4, <1>5, <1>6 DEF ItemPosts

LEMMA StepType == TypeOK /\ [Next]_vars => TypeOK'
  <1> SUFFICES ASSUME TypeOK, [Next]_vars PROVE TypeOK'
    OBVIOUS
  <1>1. CASE Next
    <2>1. RowsOK'
      BY <1>1, PhaseStepType, ItemStepType DEF Next, Step
    <2>2. seen' \in [Requests -> Seen]
      BY <1>1, WatchedType DEF TypeOK, Next, Watch
    <2> QED BY <2>1, <2>2 DEF TypeOK, RowsOK
  <1>2. CASE UNCHANGED vars
    BY <1>2 DEF TypeOK, vars, rows, history
  <1> QED BY <1>1, <1>2

\* Phases, items, readings and what is told of them keep their types.
THEOREM WorkTypeCorrect == Spec => []TypeOK
  BY InitType, StepType, PTL DEF Spec

(***************************************************************************)
(* The dates and the status of a phase.                                    *)
(***************************************************************************)

\* What a step of r does to the readings: r ends or reads, the others stay.
LEMMA OneRequestMoves ==
    ASSUME TypeOK, NEW r \in Requests, NEW o, req' = [req EXCEPT ![r] = o]
    PROVE  \A x \in Requests : req'[x] = IF x = r THEN o ELSE req[x]
  BY DEF TypeOK

\* Readings of phases after a step: those there were, and one of a row as it is.
LEMMA NewReadings ==
    ASSUME TypeOK, Step
    PROVE  \A x \in Requests : req'[x].at = "phase" =>
              \/ req'[x] = req[x]
              \/ /\ req'[x].phase \in Phases
                 /\ phase[req'[x].phase] # NoRow
                 /\ req'[x].row = phase[req'[x].phase]
  <1> PICK r \in Requests :
          \/ \E p \in Phases : FindPhase(r, p)
          \/ PhasePosts(r) \/ DeletePhase(r)
          \/ \E i \in Items : FindItem(r, i)
          \/ FindParent(r) \/ ItemPosts(r)
          \/ Abort(r)
    BY DEF Step
  <1>1. ASSUME NEW p \in Phases, FindPhase(r, p)
        PROVE  \A x \in Requests : req'[x] = req[x] \/
                  (/\ req'[x].phase \in Phases
                   /\ phase[req'[x].phase] # NoRow
                   /\ req'[x].row = phase[req'[x].phase])
    BY <1>1, OneRequestMoves DEF FindPhase
  <1>2. ASSUME PhasePosts(r) \/ DeletePhase(r) \/ ItemPosts(r) \/ Abort(r)
        PROVE  End(r)
    BY <1>2 DEF PhasePosts, DeletePhase, ItemPosts, Abort, Rename, ChangeStatus, SetDates,
                CreateItem, RenameItem, SetVisibility, ToggleDone, DeleteItem
  <1>3. ASSUME End(r)
        PROVE  \A x \in Requests : req'[x] = req[x] \/ req'[x].at = "idle"
    BY <1>3, OneRequestMoves DEF End, Idle
  <1>4. ASSUME (\E i \in Items : FindItem(r, i)) \/ FindParent(r)
        PROVE  \A x \in Requests : req'[x] = req[x] \/ req'[x].at \in {"item", "parent"}
    BY <1>4, OneRequestMoves DEF FindItem, FindParent
  <1> QED BY <1>1, <1>2, <1>3, <1>4

\* Committed phases after a step: as they were, or written by one of three posts.
LEMMA NewPhases ==
    ASSUME TypeOK, Step
    PROVE  /\ typed \subseteq typed'
           /\ \A p \in Phases : phase'[p] # NoRow =>
                 /\ phase[p] # NoRow
                 /\ \/ /\ phase'[p] = phase[p] /\ trail'[p] = trail[p]
                       /\ p \in stale => p \in stale'
                    \/ \E r \in Requests, new \in Statuses :
                          /\ req[r].at = "phase" /\ req[r].phase = p /\ req'[r] = Idle
                          /\ phase'[p] = ChangedRow(req[r].row, new)
                          /\ trail'[p] = new
                    \/ \E r \in Requests, started, completed \in {"none", "typed"} :
                          /\ req[r].at = "phase" /\ req[r].phase = p /\ req'[r] = Idle
                          /\ phase'[p] = [status |-> req[r].row.status, started |-> started,
                                          completed |-> completed]
                          /\ p \in typed'
                          /\ trail'[p] = trail[p]
                          /\ p \in stale' \/ (phase[p].status = req[r].row.status /\ p \notin stale)
  <1> PICK r \in Requests :
          \/ \E p \in Phases : FindPhase(r, p)
          \/ PhasePosts(r) \/ DeletePhase(r)
          \/ \E i \in Items : FindItem(r, i)
          \/ FindParent(r) \/ ItemPosts(r)
          \/ Abort(r)
    BY DEF Step
  <1>1. ASSUME NEW new \in Statuses, ChangeStatus(r, new)
        PROVE  /\ req[r].at = "phase" /\ req[r].phase \in Phases
               /\ typed' = typed
               /\ req'[r] = Idle
               /\ \A p \in Phases :
                     IF p = req[r].phase /\ phase[p] # NoRow
                     THEN phase'[p] = ChangedRow(req[r].row, new) /\ trail'[p] = new
                     ELSE /\ phase'[p] = phase[p]
                          /\ p # req[r].phase => trail'[p] = trail[p] /\ (p \in stale => p \in stale')
    BY <1>1, ReadingParts DEF TypeOK, ChangeStatus, Write, End
  <1>2. ASSUME NEW started \in {"none", "typed"}, NEW completed \in {"none", "typed"},
               SetDates(r, started, completed)
        PROVE  /\ req[r].at = "phase" /\ req[r].phase \in Phases
               /\ req'[r] = Idle
               /\ typed' = typed \cup {req[r].phase} /\ trail' = trail
               /\ \A p \in Phases :
                     IF p = req[r].phase /\ phase[p] # NoRow
                     THEN /\ phase'[p] = [status |-> req[r].row.status, started |-> started,
                                          completed |-> completed]
                          /\ p \in stale' \/ (phase[p].status = req[r].row.status /\ p \notin stale)
                     ELSE phase'[p] = phase[p] /\ (p \in stale => p \in stale')
    BY <1>2, ReadingParts DEF TypeOK, SetDates, Write, End
  <1>3. ASSUME DeletePhase(r)
        PROVE  /\ UNCHANGED history
               /\ \A p \in Phases : phase'[p] = phase[p] \/ phase'[p] = NoRow
    BY <1>3, ReadingParts DEF TypeOK, DeletePhase
  <1>4. ASSUME \/ \E p \in Phases : FindPhase(r, p)
               \/ Rename(r) \/ (\E i \in Items : FindItem(r, i)) \/ FindParent(r)
               \/ ItemPosts(r) \/ Abort(r)
        PROVE  UNCHANGED <<phase, trail, typed, stale>>
    BY <1>4 DEF FindPhase, Rename, FindItem, FindParent, ItemPosts, Abort, CreateItem, RenameItem,
                SetVisibility, ToggleDone, DeleteItem, rows, history
  <1>5. CASE \E new \in Statuses : ChangeStatus(r, new)
    BY <1>1, <1>5
  <1>6. CASE \E started, completed \in {"none", "typed"} : SetDates(r, started, completed)
    BY <1>2, <1>6
  <1> QED BY <1>3, <1>4, <1>5, <1>6 DEF PhasePosts, history

LEMMA PhaseReading ==
    ASSUME TypeOK, NEW r \in Requests, req[r].at = "phase"
    PROVE  req[r].phase \in Phases /\ req[r].row \in PhaseRow
  BY ReadingParts DEF TypeOK

\* The three things that may happen to a phase which a step does not delete.
Left(p) == /\ phase'[p] = phase[p] /\ trail'[p] = trail[p]
           /\ p \in stale => p \in stale'
Changed(p, r, new) ==
    /\ req[r].at = "phase" /\ req[r].phase = p /\ req'[r] = Idle
    /\ phase'[p] = ChangedRow(req[r].row, new)
    /\ trail'[p] = new
Typed(p, r, started, completed) ==
    /\ req[r].at = "phase" /\ req[r].phase = p /\ req'[r] = Idle
    /\ phase'[p] = [status |-> req[r].row.status, started |-> started,
                    completed |-> completed]
    /\ p \in typed'
    /\ trail'[p] = trail[p]
    /\ p \in stale' \/ (phase[p].status = req[r].row.status /\ p \notin stale)

LEMMA PhaseFate ==
    ASSUME TypeOK, Step, NEW p \in Phases, phase'[p] # NoRow
    PROVE  /\ phase[p] # NoRow
           /\ \/ Left(p)
              \/ \E r \in Requests, new \in Statuses : Changed(p, r, new)
              \/ \E r \in Requests, started, completed \in {"none", "typed"} :
                    Typed(p, r, started, completed)
  BY NewPhases DEF Left, Changed, Typed

LEMMA DatesStep ==
    ASSUME TypeOK, DatesFollowStatus, ReadsAgree, Step
    PROVE  DatesFollowStatus' /\ ReadsAgree'
  <1>1. ASSUME NEW p \in Phases, phase'[p] # NoRow
        PROVE  DatesAgree(p, phase[p])'
    <2>1. CASE Left(p)
      <3>1. phase'[p] = phase[p]
        BY <2>1 DEF Left
      <3>2. DatesAgree(p, phase[p])
        BY <1>1, <3>1 DEF DatesFollowStatus
      <3> QED BY <3>1, <3>2, NewPhases DEF DatesAgree
    <2>2. ASSUME NEW r \in Requests, NEW new \in Statuses, Changed(p, r, new)
          PROVE  DatesAgree(p, phase[p])'
      <3>1. req[r].at = "phase" /\ req[r].phase = p /\ phase'[p] = ChangedRow(req[r].row, new)
        BY <2>2 DEF Changed
      <3>2. DatesAgree(p, req[r].row) /\ req[r].row \in PhaseRow
        BY <3>1, PhaseReading DEF ReadsAgree
      <3>3. DatesAgree(p, ChangedRow(req[r].row, new))
        BY <3>2, ChangeKeepsAgreement
      <3> QED BY <3>1, <3>3, NewPhases DEF DatesAgree
    <2>3. ASSUME NEW r \in Requests, NEW started \in {"none", "typed"},
                 NEW completed \in {"none", "typed"}, Typed(p, r, started, completed)
          PROVE  DatesAgree(p, phase[p])'
      BY <2>3 DEF Typed, DatesAgree
    <2> QED BY <1>1, <2>1, <2>2, <2>3, PhaseFate
  <1>2. ASSUME NEW x \in Requests, req'[x].at = "phase"
        PROVE  DatesAgree(req[x].phase, req[x].row)'
    <2>1. CASE req'[x] = req[x]
      <3>1. DatesAgree(req[x].phase, req[x].row)
        BY <1>2, <2>1 DEF ReadsAgree
      <3> QED BY <2>1, <3>1, NewPhases DEF DatesAgree
    <2>2. CASE /\ req'[x].phase \in Phases
               /\ phase[req'[x].phase] # NoRow
               /\ req'[x].row = phase[req'[x].phase]
      <3>1. DatesAgree(req'[x].phase, req'[x].row)
        BY <2>2 DEF DatesFollowStatus
      <3> QED BY <3>1, NewPhases DEF DatesAgree
    <2> QED BY <1>2, <2>1, <2>2, NewReadings
  <1> QED BY <1>1, <1>2 DEF DatesFollowStatus, ReadsAgree

LEMMA AnnouncedStep ==
    ASSUME TypeOK, StatusIsAnnounced, Step
    PROVE  StatusIsAnnounced'
  <1> SUFFICES ASSUME NEW p \in Phases, phase'[p] # NoRow
               PROVE  phase'[p].status = trail'[p] \/ p \in stale'
    BY DEF StatusIsAnnounced
  <1>1. phase[p] # NoRow /\ (phase[p].status = trail[p] \/ p \in stale)
    BY PhaseFate DEF StatusIsAnnounced
  <1>2. CASE Left(p)
    BY <1>1, <1>2 DEF Left
  <1>3. ASSUME NEW r \in Requests, NEW new \in Statuses, Changed(p, r, new)
        PROVE  phase'[p].status = trail'[p]
    <2>1. req[r].row \in PhaseRow
      BY <1>3, PhaseReading DEF Changed
    <2>2. ChangedRow(req[r].row, new).status = new
      BY <2>1, ChangeKeepsAgreement
    <2> QED BY <1>3, <2>2 DEF Changed
  <1>4. ASSUME NEW r \in Requests, NEW started \in {"none", "typed"},
               NEW completed \in {"none", "typed"}, Typed(p, r, started, completed)
        PROVE  phase'[p].status = trail'[p] \/ p \in stale'
    BY <1>1, <1>4 DEF Typed
  <1> QED BY <1>2, <1>3, <1>4, PhaseFate

(***************************************************************************)
(* What the customer is told.                                              *)
(***************************************************************************)

LEMMA SeenStep ==
    ASSUME TypeOK, ReadsWereSeen, Next
    PROVE  ReadsWereSeen'
  <1> SUFFICES ASSUME NEW x \in Requests
               PROVE  /\ req'[x].at \in {"phase", "parent"} /\ PhaseVisible(req'[x].row.status) =>
                            seen'[x].phase
                      /\ req'[x].at \in {"item", "parent"} /\ req'[x].found.visible =>
                            seen'[x].item
    BY DEF ReadsWereSeen
  <1>1. seen'[x] = Watched(seen[x], req'[x])
    BY DEF Next, Watch
  <1>2. PICK r \in Requests :
          \/ \E p \in Phases : FindPhase(r, p)
          \/ PhasePosts(r) \/ DeletePhase(r)
          \/ \E i \in Items : FindItem(r, i)
          \/ FindParent(r) \/ ItemPosts(r)
          \/ Abort(r)
    BY DEF Next, Step
  <1>3. CASE req'[x] = req[x]
    <2>1. CASE req[x].at = "idle"
      BY <1>3, <2>1
    <2>2. CASE req[x] # Idle
      BY <1>1, <1>3, <2>2 DEF ReadsWereSeen, Watched
    <2> QED BY <2>1, <2>2 DEF Idle
  <1>4. CASE req'[x] = Idle
    BY <1>4 DEF Idle
  <1>5. ASSUME NEW p \in Phases, FindPhase(r, p)
        PROVE  \/ req'[x] = req[x]
               \/ /\ req'[x].at = "phase" /\ req'[x] # Idle
                  /\ PhaseVisible(req'[x].row.status) => PhaseShown(phase[PhaseOf(req'[x])])
    BY <1>5, OneRequestMoves DEF FindPhase, PhaseOf, PhaseShown, Idle
  <1>6. ASSUME NEW i \in Items, FindItem(r, i)
        PROVE  \/ req'[x] = req[x]
               \/ /\ req'[x].at = "item" /\ req'[x] # Idle
                  /\ req'[x].found.visible => ItemShown(item[req'[x].item])
    BY <1>6, OneRequestMoves DEF FindItem, ItemShown, Idle
  <1>7. ASSUME FindParent(r)
        PROVE  \/ req'[x] = req[x]
               \/ /\ req'[x].at = "parent" /\ req'[x] # Idle
                  /\ PhaseVisible(req'[x].row.status) => PhaseShown(phase[PhaseOf(req'[x])])
                  /\ req'[x].found.visible => seen[x].item
    BY <1>7, OneRequestMoves DEF FindParent, PhaseOf, PhaseShown, Idle, ReadsWereSeen
  <1>8. ASSUME PhasePosts(r) \/ DeletePhase(r) \/ ItemPosts(r) \/ Abort(r)
        PROVE  req'[x] = req[x] \/ req'[x] = Idle
    <2>1. End(r)
      BY <1>8 DEF PhasePosts, DeletePhase, ItemPosts, Abort, Rename, ChangeStatus, SetDates,
                  CreateItem, RenameItem, SetVisibility, ToggleDone, DeleteItem
    <2> QED BY <2>1, OneRequestMoves DEF End
  <1>9. CASE /\ req'[x].at = "phase" /\ req'[x] # Idle
             /\ PhaseVisible(req'[x].row.status) => PhaseShown(phase[PhaseOf(req'[x])])
    BY <1>1, <1>9 DEF Watched
  <1>10. CASE /\ req'[x].at = "item" /\ req'[x] # Idle
              /\ req'[x].found.visible => ItemShown(item[req'[x].item])
    BY <1>1, <1>10 DEF Watched
  <1>11. CASE /\ req'[x].at = "parent" /\ req'[x] # Idle
              /\ PhaseVisible(req'[x].row.status) => PhaseShown(phase[PhaseOf(req'[x])])
              /\ req'[x].found.visible => seen[x].item
    BY <1>1, <1>11 DEF Watched
  <1> QED BY <1>2, <1>3, <1>4, <1>5, <1>6, <1>7, <1>8, <1>9, <1>10, <1>11

LEMMA HiddenStep ==
    ASSUME TypeOK, ReadsWereSeen, Step
    PROVE  HiddenStaysHidden'
  <1>1. PICK r \in Requests :
          \/ \E p \in Phases : FindPhase(r, p)
          \/ PhasePosts(r) \/ DeletePhase(r)
          \/ \E i \in Items : FindItem(r, i)
          \/ FindParent(r) \/ ItemPosts(r)
          \/ Abort(r)
    BY DEF Step
  <1>2. CASE news' = NoNews
    BY <1>2 DEF HiddenStaysHidden
  <1>3. ASSUME NEW by \in {"rename", "delete"}, req[r].at = "phase",
               Announce(r, by, PhaseVisible(req[r].row.status))
        PROVE  HiddenStaysHidden'
    BY <1>3 DEF HiddenStaysHidden, Announce, ReadsWereSeen
  <1>4. ASSUME NEW new, Announce(r, "status", PhaseVisible(new))
        PROVE  HiddenStaysHidden'
    BY <1>4 DEF HiddenStaysHidden, Announce
  <1>5. ASSUME NEW i \in Items, NEW visible \in BOOLEAN, CreateItem(r, i, visible)
        PROVE  HiddenStaysHidden'
    <2>1. seen[r] \in Seen
      BY DEF TypeOK
    <2>2. ItemVisible(visible, req[r].row.status) =>
              visible /\ PhaseVisible(req[r].row.status)
      BY DEF ItemVisible
    <2>3. /\ news'.seen.phase = seen[r].phase /\ news'.seen.item = visible
          /\ news'.by = "create item"
          /\ news'.toCustomer => ItemVisible(visible, req[r].row.status)
      BY <1>5, <2>1 DEF CreateItem, Seen
    <2> QED BY <1>5, <2>2, <2>3 DEF HiddenStaysHidden, ReadsWereSeen, CreateItem
  <1>6. ASSUME NEW by \in {"rename item", "toggle", "delete item"}, req[r].at = "parent",
               Announce(r, by, ItemVisible(req[r].found.visible, req[r].row.status))
        PROVE  HiddenStaysHidden'
    BY <1>6 DEF HiddenStaysHidden, Announce, ReadsWereSeen, ItemVisible
  <1>7. ASSUME Announce(r, "visibility", FALSE)
        PROVE  HiddenStaysHidden'
    BY <1>7 DEF HiddenStaysHidden, Announce
  <1>8. CASE PhasePosts(r) \/ DeletePhase(r)
    BY <1>2, <1>3, <1>4, <1>8 DEF PhasePosts, DeletePhase, Rename, ChangeStatus, SetDates
  <1>9. CASE ItemPosts(r)
    BY <1>5, <1>6, <1>7, <1>9 DEF ItemPosts, RenameItem, SetVisibility, ToggleDone, DeleteItem
  <1>10. CASE \/ \E p \in Phases : FindPhase(r, p)
              \/ \E i \in Items : FindItem(r, i)
              \/ FindParent(r) \/ Abort(r)
    BY <1>2, <1>10 DEF FindPhase, FindItem, FindParent, Abort
  <1> QED BY <1>1, <1>8, <1>9, <1>10

(***************************************************************************)
(* The theorems.                                                           *)
(***************************************************************************)

LEMMA InitWork == Init => WorkInv
  <1> SUFFICES ASSUME Init PROVE WorkInv
    OBVIOUS
  <1>1. TypeOK
    BY InitType
  <1>2. \A p \in Phases :
            phase[p] = [status |-> "not_started", started |-> "none", completed |-> "none"]
    BY DEF Init
  <1>3. DatesFollowStatus /\ StatusIsAnnounced
    BY <1>2 DEF Init, DatesFollowStatus, StatusIsAnnounced, DatesAgree
  <1>4. ReadsAgree /\ ReadsWereSeen /\ HiddenStaysHidden
    BY DEF Init, ReadsAgree, ReadsWereSeen, HiddenStaysHidden, Idle
  <1> QED BY <1>1, <1>3, <1>4 DEF WorkInv

LEMMA StepWork == WorkInv /\ [Next]_vars => WorkInv'
  <1> SUFFICES ASSUME WorkInv, [Next]_vars PROVE WorkInv'
    OBVIOUS
  <1>1. TypeOK'
    BY StepType DEF WorkInv
  <1>2. CASE Next
    BY <1>1, <1>2, DatesStep, AnnouncedStep, SeenStep, HiddenStep DEF WorkInv, Next
  <1>3. CASE UNCHANGED vars
    BY <1>3 DEF vars, rows, history, WorkInv, TypeOK, DatesFollowStatus, ReadsAgree,
                StatusIsAnnounced, ReadsWereSeen, HiddenStaysHidden, DatesAgree
  <1> QED BY <1>2, <1>3

\* What every request that is under way has read agrees with itself, and was seen.
THEOREM WorkInvariant == Spec => []WorkInv
  BY InitWork, StepWork, PTL DEF Spec

\* However many admins change the status of a phase and type its dates from rows they
\* read before, its dates agree with its status.
THEOREM DatesFollow == Spec => []DatesFollowStatus
  <1>1. WorkInv => DatesFollowStatus
    BY DEF WorkInv
  <1> QED BY <1>1, WorkInvariant, PTL

\* The status of a phase is the one announced last, except where a typist wrote an
\* older one back.
THEOREM StatusAnnounced == Spec => []StatusIsAnnounced
  <1>1. WorkInv => StatusIsAnnounced
    BY DEF WorkInv
  <1> QED BY <1>1, WorkInvariant, PTL

\* No interleaving tells the customer of what was hidden throughout the request.
THEOREM HiddenHidden == Spec => []HiddenStaysHidden
  <1>1. WorkInv => HiddenStaysHidden
    BY DEF WorkInv
  <1> QED BY <1>1, WorkInvariant, PTL

\* A date an admin typed gives way to a stamp only in a change of status that had read
\* the phase without it.
THEOREM OverridesWin == Spec => OverrideWins
  <1> DEFINE Kept(p, date) ==
        phase[p] # NoRow /\ phase'[p] # NoRow =>
            (phase[p][date] = "typed" /\ phase'[p][date] = "stamp" =>
                \E r \in Requests : /\ req[r].at = "phase" /\ req'[r] = Idle
                                    /\ req[r].phase = p /\ req[r].row[date] # "typed")
  <1>1. ASSUME TypeOK, Step, NEW p \in Phases, NEW date \in {"started", "completed"}
        PROVE  Kept(p, date)
    <2> SUFFICES ASSUME phase[p] # NoRow, phase'[p] # NoRow,
                        phase[p][date] = "typed", phase'[p][date] = "stamp"
                 PROVE  \E r \in Requests : /\ req[r].at = "phase" /\ req'[r] = Idle
                                            /\ req[r].phase = p /\ req[r].row[date] # "typed"
      OBVIOUS
    <2>1. ~ Left(p)
      BY DEF Left
    <2>2. ASSUME NEW r \in Requests, NEW new \in Statuses, Changed(p, r, new)
          PROVE  req[r].row[date] # "typed"
      <3>1. req[r].row \in PhaseRow
        BY <1>1, <2>2, PhaseReading DEF Changed
      <3>2. phase'[p] = ChangedRow(req[r].row, new)
        BY <2>2 DEF Changed
      <3>3. CASE date = "started"
        BY <3>1, <3>2, <3>3 DEF ChangedRow, PhaseRow
      <3>4. CASE date = "completed"
        BY <3>1, <3>2, <3>4 DEF ChangedRow, PhaseRow
      <3> QED BY <3>3, <3>4
    <2>3. ASSUME NEW r \in Requests, NEW started \in {"none", "typed"},
                 NEW completed \in {"none", "typed"}, Typed(p, r, started, completed)
          PROVE  FALSE
      <3>1. phase'[p] = [status |-> req[r].row.status, started |-> started,
                         completed |-> completed]
        BY <2>3 DEF Typed
      <3> QED BY <3>1
    <2>4. PICK r \in Requests, new \in Statuses : Changed(p, r, new)
      BY <1>1, <2>1, <2>3, PhaseFate
    <2> QED BY <2>2, <2>4 DEF Changed
  <1>2. TypeOK /\ [Next]_vars =>
            [\A p \in Phases, date \in {"started", "completed"} : Kept(p, date)]_vars
    BY <1>1 DEF Next
  <1> QED BY <1>2, WorkTypeCorrect, PTL DEF Spec, OverrideWins

-----------------------------------------------------------------------------
(***************************************************************************)
(* Ranks.  Position, Before and the order a list is sorted by all count    *)
(* how many of a finite set come before one.                               *)
(***************************************************************************)

Rank(v, S, q) == Cardinality({x \in S : v[x] < v[q]})
Values(v, S) ==
    /\ \A x \in S : v[x] \in Nat
    /\ \A x, y \in S : v[x] = v[y] => x = y

LEMMA RankType ==
    ASSUME NEW v, NEW S, IsFiniteSet(S), NEW q
    PROVE  Rank(v, S, q) \in Nat
  <1>1. {x \in S : v[x] < v[q]} \in SUBSET S
    OBVIOUS
  <1> QED BY <1>1, FS_Subset, FS_CardinalityType DEF Rank

\* Of two that come at different places the later has the higher rank.
LEMMA RankGrows ==
    ASSUME NEW v, NEW S, IsFiniteSet(S), NEW R, S \subseteq R, Values(v, R),
           NEW q \in S, NEW t \in R, v[q] < v[t]
    PROVE  Rank(v, S, q) < Rank(v, S, t)
  <1> DEFINE A == {x \in S : v[x] < v[q]}
             B == {x \in S : v[x] < v[t]}
  <1>1. A \subseteq B /\ q \in B /\ q \notin A
    BY DEF Values
  <1>2. IsFiniteSet(B)
    <2>1. B \in SUBSET S
      OBVIOUS
    <2> HIDE DEF B
    <2> QED BY <2>1, FS_Subset
  <1> HIDE DEF A, B
  <1>3. Cardinality(A) <= Cardinality(B) /\ Cardinality(A) # Cardinality(B)
    BY <1>1, <1>2, FS_Subset
  <1>4. IsFiniteSet(A) /\ Cardinality(A) \in Nat /\ Cardinality(B) \in Nat
    BY <1>1, <1>2, FS_Subset, FS_CardinalityType
  <1>5. Cardinality(A) < Cardinality(B)
    BY <1>3, <1>4
  <1> QED BY <1>5 DEF Rank, A, B

\* The ranks of n things are 0 to n - 1, and of one among n others 0 to n.
LEMMA RankBound ==
    ASSUME NEW v, NEW S, IsFiniteSet(S), NEW q
    PROVE  /\ Rank(v, S, q) <= Cardinality(S)
           /\ q \in S /\ Values(v, S) => Rank(v, S, q) < Cardinality(S)
  <1> DEFINE A == {x \in S : v[x] < v[q]}
  <1>1. A \in SUBSET S
    OBVIOUS
  <1>2. ASSUME q \in S, Values(v, S)
        PROVE  A # S
    <2>1. q \notin A
      BY <1>2 DEF Values
    <2> QED BY <1>2, <2>1
  <1> HIDE DEF A
  <1>3. Cardinality(A) <= Cardinality(S) /\ (Cardinality(S) = Cardinality(A) => S = A)
    BY <1>1, FS_Subset
  <1>4. Cardinality(A) \in Nat /\ Cardinality(S) \in Nat
    BY <1>1, FS_Subset, FS_CardinalityType
  <1>5. Rank(v, S, q) = Cardinality(A)
    BY DEF Rank, A
  <1>6. q \in S /\ Values(v, S) => Cardinality(A) < Cardinality(S)
    BY <1>2, <1>3, <1>4
  <1> QED BY <1>3, <1>5, <1>6

LEMMA NumbersBelow ==
    ASSUME NEW n \in Nat
    PROVE  IsFiniteSet(0 .. n - 1) /\ Cardinality(0 .. n - 1) = n
  <1>1. /\ IsFiniteSet(0 .. n - 1)
        /\ Cardinality(0 .. n - 1) = IF 0 > n - 1 THEN 0 ELSE (n - 1) - 0 + 1
    BY FS_Interval
  <1> QED BY <1>1

\* Different numbers below n, for n things, are all the numbers below n.
LEMMA NumbersAreAll ==
    ASSUME NEW S, IsFiniteSet(S), NEW g \in [S -> 0 .. Cardinality(S) - 1],
           \A q, t \in S : g[q] = g[t] => q = t,
           NEW k \in 0 .. Cardinality(S) - 1
    PROVE  \E q \in S : g[q] = k
  <1> DEFINE n == Cardinality(S)
             N == 0 .. n - 1
  <1>1. n \in Nat
    BY FS_CardinalityType
  <1> HIDE DEF n
  <1>2. IsFiniteSet(N) /\ Cardinality(N) = n
    BY <1>1, NumbersBelow
  <1>3. g \in Injection(S, N)
    BY DEF Injection, IsInjective, n
  <1> HIDE DEF N
  <1>4. g \in Surjection(S, N)
    BY <1>2, <1>3, FS_Injection DEF n
  <1>5. k \in N
    BY DEF N, n
  <1> QED BY <1>4, <1>5 DEF Surjection

\* So the number of one is how many have a lower one.
LEMMA NumberIsRank ==
    ASSUME NEW S, IsFiniteSet(S), NEW g \in [S -> 0 .. Cardinality(S) - 1],
           \A q, t \in S : g[q] = g[t] => q = t,
           NEW p \in S
    PROVE  Cardinality({q \in S : g[q] < g[p]}) = g[p]
  <1> DEFINE T == {q \in S : g[q] < g[p]}
             N == 0 .. g[p] - 1
             h == [q \in T |-> g[q]]
  <1>1. Cardinality(S) \in Nat /\ g[p] \in Nat /\ g[p] \in 0 .. Cardinality(S) - 1
    BY FS_CardinalityType
  <1>2. h \in [T -> N]
    BY <1>1
  <1>3. \A q, t \in T : h[q] = h[t] => q = t
    OBVIOUS
  <1>4. \A k \in N : \E q \in T : h[q] = k
    <2> TAKE k \in N
    <2>1. k \in 0 .. Cardinality(S) - 1
      BY <1>1
    <2>2. PICK q \in S : g[q] = k
      BY <2>1, NumbersAreAll
    <2>3. q \in T
      BY <1>1, <2>2
    <2> QED BY <2>2, <2>3
  <1>5. IsFiniteSet(T)
    <2>1. T \in SUBSET S
      OBVIOUS
    <2> HIDE DEF T
    <2> QED BY <2>1, FS_Subset
  <1>6. IsFiniteSet(N) /\ Cardinality(N) = g[p]
    BY <1>1, NumbersBelow
  <1> HIDE DEF T, N, h
  <1>7. h \in Bijection(T, N)
    BY <1>2, <1>3, <1>4 DEF Bijection, Injection, Surjection, IsInjective
  <1>8. ExistsBijection(T, N)
    BY <1>7 DEF ExistsBijection
  <1>9. Cardinality(T) = g[p]
    BY <1>5, <1>6, <1>8, FS_Bijection
  <1> QED BY <1>9 DEF T

\* A finite set can be listed by its values.
LEMMA SortedExists ==
    ASSUME NEW S, IsFiniteSet(S), NEW v, Values(v, S)
    PROVE  \E s \in SetToSeqs(S) : \A i, j \in DOMAIN s : i < j => v[s[i]] < v[s[j]]
  <1> DEFINE n == Cardinality(S)
             g == [q \in S |-> Rank(v, S, q)]
             s == [i \in 1 .. n |-> CHOOSE q \in S : g[q] = i - 1]
  <1>1. n \in Nat
    BY FS_CardinalityType
  <1>2. g \in [S -> 0 .. n - 1]
    <2>1. \A q \in S : Rank(v, S, q) \in Nat /\ Rank(v, S, q) < n
      BY RankType, RankBound
    <2> QED BY <1>1, <2>1
  <1>3. \A q, t \in S : v[q] < v[t] => g[q] < g[t]
    BY RankGrows
  <1>4. \A q, t \in S : v[q] \in Nat /\ v[t] \in Nat /\ (v[q] = v[t] => q = t)
    BY DEF Values
  <1>5. \A q \in S : g[q] \in Nat /\ g[q] < n
    BY <1>1, <1>2
  <1> HIDE DEF n, g
  <1>6. \A q, t \in S : g[q] = g[t] => q = t
    BY <1>3, <1>4, <1>5
  <1>7. \A i \in 1 .. n : \E q \in S : g[q] = i - 1
    <2> TAKE i \in 1 .. n
    <2>1. i - 1 \in 0 .. n - 1
      BY <1>1
    <2> QED BY <1>2, <1>6, <2>1, NumbersAreAll DEF n
  <1>8. \A i \in 1 .. n : s[i] \in S /\ g[s[i]] = i - 1
    BY <1>7
  <1> HIDE DEF s
  <1>9. \A i, j \in 1 .. n : i # j => s[i] # s[j]
    BY <1>1, <1>8
  <1>10. \A i, j \in 1 .. n : i < j => v[s[i]] < v[s[j]]
    <2> TAKE i, j \in 1 .. n
    <2> HAVE i < j
    <2>1. /\ s[i] \in S /\ s[j] \in S /\ g[s[i]] = i - 1 /\ g[s[j]] = j - 1
          /\ i \in Int /\ j \in Int
      BY <1>1, <1>8
    <2>2. ~(v[s[j]] < v[s[i]]) /\ v[s[i]] # v[s[j]]
      BY <1>3, <1>4, <2>1
    <2> QED BY <1>4, <2>1, <2>2
  <1>11. s \in [1 .. n -> S]
    BY <1>8 DEF s
  <1>12. s \in SetToSeqs(S) /\ DOMAIN s = 1 .. n
    BY <1>9, <1>11 DEF SetToSeqs, n
  <1> QED BY <1>10, <1>12

\* What a list of different phases is to those it lists.
LEMMA IndexFacts ==
    ASSUME NEW s \in Seq(Ids), \A i, j \in DOMAIN s : s[i] = s[j] => i = j
    PROVE  /\ \A p : IndexOf(s, p) \in Nat
           /\ \A p \in ToSet(s) : IndexOf(s, p) \in DOMAIN s /\ s[IndexOf(s, p)] = p
           /\ \A p, q \in ToSet(s) : IndexOf(s, p) = IndexOf(s, q) => p = q
  <1>1. \A p \in ToSet(s) : \E i \in DOMAIN s : s[i] = p
    BY DEF ToSet
  <1>2. \A p \in ToSet(s) : IndexOf(s, p) \in DOMAIN s /\ s[IndexOf(s, p)] = p
    BY <1>1 DEF IndexOf
  <1>3. DOMAIN s \subseteq Nat
    OBVIOUS
  <1>4. \A p : IndexOf(s, p) \in Nat
    BY <1>2, <1>3 DEF IndexOf
  <1> QED BY <1>2, <1>4

\* The rows that a drag numbers get different numbers from 0, the phase its index, and
\* the others come in the order of the list.
LEMMA PlacesFit ==
    ASSUME NEW ids \in Seq(Ids), \A i, j \in DOMAIN ids : ids[i] = ids[j] => i = j,
           NEW S, IsFiniteSet(S), S \subseteq ToSet(ids), NEW p,
           NEW index \in Nat, index < Cardinality(S)
    PROVE  /\ \A q \in S : Place(ids, S, p, index, q) \in Nat
           /\ p \in S => /\ \A q \in S : Place(ids, S, p, index, q) < Cardinality(S)
                         /\ \A q, t \in S : Place(ids, S, p, index, q) = Place(ids, S, p, index, t)
                                                => q = t
                         /\ Place(ids, S, p, index, p) = index
           /\ \A q, t \in S \ {p} : IndexOf(ids, q) < IndexOf(ids, t) =>
                 Place(ids, S, p, index, q) < Place(ids, S, p, index, t)
  <1> DEFINE v == [q \in S |-> IndexOf(ids, q)]
             R == S \ {p}
             n == [q \in S |-> Rank(v, R, q)]
             g == [q \in S |-> Place(ids, S, p, index, q)]
             m == Cardinality(S)
  <1>1. Values(v, S) /\ Values(v, R)
    BY IndexFacts DEF Values
  <1>2. /\ IsFiniteSet(R) /\ m \in Nat /\ R \subseteq S
        /\ p \in S => Cardinality(R) = m - 1
    BY FS_RemoveElement, FS_CardinalityType
  <1>3. \A q \in S : Before(ids, R, q) = n[q]
    <2> TAKE q \in S
    <2>1. {x \in R : IndexOf(ids, x) < IndexOf(ids, q)} = {x \in R : v[x] < v[q]}
      OBVIOUS
    <2> QED BY <2>1 DEF Before, Rank
  <1>4. \A q \in S : g[q] = IF q = p THEN index ELSE n[q] + (IF n[q] < index THEN 0 ELSE 1)
    <2> HIDE DEF n
    <2> QED BY <1>3 DEF Place
  <1>5. \A q \in S : n[q] \in Nat
    BY <1>2, RankType
  <1>6. \A q \in R : p \in S => n[q] < m - 1
    <2> TAKE q \in R
    <2>1. Rank(v, R, q) < Cardinality(R)
      BY <1>1, <1>2, RankBound
    <2> QED BY <1>2, <2>1
  <1>7. \A q \in R, t \in S : v[q] < v[t] => n[q] < n[t]
    <2> HIDE DEF v, R
    <2> TAKE q \in R, t \in S
    <2> HAVE v[q] < v[t]
    <2>1. Rank(v, R, q) < Rank(v, R, t)
      BY <1>1, <1>2, RankGrows
    <2> QED BY <1>2, <2>1
  <1>8. \A q, t \in S : v[q] \in Nat /\ v[t] \in Nat /\ (v[q] = v[t] => q = t)
    BY <1>1 DEF Values
  <1> HIDE DEF v, n, g
  <1>9. \A q, t \in R : q # t => n[q] # n[t]
    <2> TAKE q, t \in R
    <2> HAVE q # t
    <2>1. v[q] < v[t] \/ v[t] < v[q]
      BY <1>8
    <2> QED BY <1>5, <1>7, <2>1
  <1>10. \A q \in S : g[q] \in Nat
    BY <1>4, <1>5
  <1>11. ASSUME p \in S
         PROVE  /\ \A q \in S : g[q] < m
                /\ \A q, t \in S : g[q] = g[t] => q = t
                /\ g[p] = index
    <2>1. g[p] = index
      BY <1>4, <1>11
    <2>2. \A q \in S : g[q] < m
      <3> TAKE q \in S
      <3>1. CASE q = p
        BY <2>1, <3>1
      <3>2. CASE q # p
        BY <1>2, <1>4, <1>5, <1>6, <1>11, <3>2
      <3> QED BY <3>1, <3>2
    <2>3. ASSUME NEW q \in S, NEW t \in S, g[q] = g[t]
          PROVE  q = t
      <3>1. \A x \in R : g[x] # index
        BY <1>4, <1>5
      <3>2. CASE q = p \/ t = p
        BY <2>1, <2>3, <3>1, <3>2
      <3>3. CASE q # p /\ t # p
        <4>1. /\ g[q] = n[q] + (IF n[q] < index THEN 0 ELSE 1)
              /\ g[t] = n[t] + (IF n[t] < index THEN 0 ELSE 1)
              /\ n[q] \in Nat /\ n[t] \in Nat
          BY <1>4, <1>5, <3>3
        <4>2. \A a, b \in Nat :
                 a + (IF a < index THEN 0 ELSE 1) = b + (IF b < index THEN 0 ELSE 1) => a = b
          OBVIOUS
        <4>3. n[q] = n[t]
          BY <2>3, <4>1, <4>2
        <4> QED BY <1>9, <3>3, <4>3
      <3> QED BY <3>2, <3>3
    <2> QED BY <2>1, <2>2, <2>3
  <1>12. ASSUME NEW q \in R, NEW t \in R, IndexOf(ids, q) < IndexOf(ids, t)
         PROVE  g[q] < g[t]
    <2>1. n[q] < n[t]
      BY <1>2, <1>7, <1>12 DEF v
    <2>2. /\ g[q] = n[q] + (IF n[q] < index THEN 0 ELSE 1)
          /\ g[t] = n[t] + (IF n[t] < index THEN 0 ELSE 1)
          /\ n[q] \in Nat /\ n[t] \in Nat
      BY <1>4, <1>5
    <2> QED BY <2>1, <2>2
  <1>13. \A q \in S : g[q] = Place(ids, S, p, index, q)
    BY DEF g
  <1> QED BY <1>10, <1>11, <1>12, <1>13

\* The phases of the project are finitely many, and the list has them all, by their order.
LEMMA ListedFacts ==
    ASSUME OrderTypeOK, Distinct(order)
    PROVE  /\ IsFiniteSet(DOMAIN order)
           /\ Listed \in Seq(Ids) /\ ToSet(Listed) = DOMAIN order
           /\ \A i, j \in DOMAIN Listed : Listed[i] = Listed[j] => i = j
           /\ \A i, j \in DOMAIN Listed : i < j => order[Listed[i]] < order[Listed[j]]
  <1> DEFINE S == DOMAIN order
             n == Cardinality(S)
  <1>1. IsFiniteSet(S) /\ S \subseteq Ids
    BY FS_Subset, PhaseOrderAssumption DEF PhaseOrderAssumption, OrderTypeOK
  <1>2. Values(order, S)
    BY DEF Values, Distinct, OrderTypeOK
  <1> HIDE DEF S
  <1>3. \E s \in SetToSeqs(S) : \A i, j \in DOMAIN s : i < j => order[s[i]] < order[s[j]]
    BY <1>1, <1>2, SortedExists
  <1>4. /\ Listed \in SetToSeqs(S)
        /\ \A i, j \in DOMAIN Listed : i < j => order[Listed[i]] < order[Listed[j]]
    BY <1>3 DEF Listed, S
  <1>5. n \in Nat
    BY <1>1, FS_CardinalityType
  <1>6. /\ Listed \in [1 .. n -> S]
        /\ \A i, j \in 1 .. n : i # j => Listed[i] # Listed[j]
    BY <1>4 DEF SetToSeqs
  <1> HIDE DEF n
  <1>7. Listed \in Seq(Ids)
    BY <1>1, <1>5, <1>6
  <1>8. \A x \in S : \E i \in 1 .. n : Listed[i] = x
    <2>1. Listed \in Injection(1 .. n, S)
      BY <1>6 DEF Injection, IsInjective
    <2>2. IsFiniteSet(1 .. n) /\ Cardinality(1 .. n) = n
      BY <1>5, FS_Interval
    <2>3. Listed \in Surjection(1 .. n, S)
      BY <1>1, <2>1, <2>2, FS_Injection DEF n
    <2> QED BY <2>3 DEF Surjection
  <1>9. ToSet(Listed) = S
    BY <1>6, <1>8 DEF ToSet
  <1> QED BY <1>1, <1>4, <1>6, <1>7, <1>9 DEF S

LEMMA MaxOrderType ==
    ASSUME OrderTypeOK, Distinct(order)
    PROVE  MaxOrder \in Nat
  <1>1. CASE DOMAIN order = {}
    BY <1>1 DEF MaxOrder
  <1>2. CASE DOMAIN order # {}
    <2> DEFINE n == Len(Listed)
               X == {order[p] : p \in DOMAIN order}
    <2>1. /\ Listed \in Seq(Ids) /\ DOMAIN Listed = 1 .. n /\ n \in Nat
          /\ ToSet(Listed) = DOMAIN order
          /\ \A i, j \in DOMAIN Listed : i < j => order[Listed[i]] < order[Listed[j]]
      BY ListedFacts
    <2> HIDE DEF n
    <2>2. n \in DOMAIN Listed
      BY <1>2, <2>1 DEF ToSet
    <2>3. \A x \in DOMAIN order : order[x] \in Nat
      BY DEF OrderTypeOK
    <2>4. \A x \in DOMAIN order : \E i \in DOMAIN Listed : x = Listed[i]
      BY <2>1 DEF ToSet
    <2>5. \A x \in DOMAIN order : order[x] <= order[Listed[n]]
      <3> TAKE x \in DOMAIN order
      <3>1. PICK i \in DOMAIN Listed : x = Listed[i]
        BY <2>4
      <3>2. i < n \/ i = n
        BY <2>1
      <3>3. Listed[n] \in DOMAIN order
        BY <2>1, <2>2 DEF ToSet
      <3> QED BY <2>1, <2>2, <2>3, <3>1, <3>2, <3>3
    <2>6. Listed[n] \in DOMAIN order
      BY <2>1, <2>2 DEF ToSet
    <2>7. \E x \in X : \A y \in X : x >= y
      BY <2>3, <2>5, <2>6
    <2>8. X \subseteq Nat
      BY <2>3
    <2> HIDE DEF X
    <2>9. Max(X) \in Nat
      BY <2>7, <2>8 DEF Max
    <2> QED BY <1>2, <2>9 DEF MaxOrder, X
  <1> QED BY <1>1, <1>2

\* A request, by its operation, and the requests there are.
LEMMA EditingParts ==
    ASSUME NEW o \in Editing
    PROVE  /\ o.op \in {"idle", "done", "create", "swap", "drag", "delete"}
           /\ o.op = "idle" => o = NotBegun
           /\ o.op = "done" => o = Done
           /\ o.op \in {"create", "swap", "drag", "delete"} => o.phase \in Ids
           /\ o.op \in {"create", "swap"} => o.at \in Nat
           /\ o.op = "swap" => o.by \in {0, 2}
           /\ o.op = "drag" => o.index \in Nat /\ o.ids \in Seq(Ids)
           /\ o.op = "swap" => o.step \in {"found", "listed"}
           /\ o.op = "drag" => o.step \in {"found", "listed", "numbered"}
  BY DEF Editing, NotBegun, Done

LEMMA EditingKinds ==
    /\ NotBegun \in Editing /\ Done \in Editing
    /\ NotBegun.op = "idle" /\ Done.op = "done"
    /\ \A p \in Ids, n \in Nat : [op |-> "create", phase |-> p, at |-> n] \in Editing
    /\ \A p \in Ids, n \in Nat, by \in {0, 2} :
          [op |-> "swap", step |-> "found", phase |-> p, at |-> n, by |-> by] \in Editing
    /\ \A p \in Ids, n \in Nat :
          [op |-> "drag", step |-> "found", phase |-> p, index |-> n, ids |-> <<>>] \in Editing
    /\ \A p \in Ids : [op |-> "delete", phase |-> p] \in Editing
  BY DEF Editing, NotBegun, Done

\* A request that takes its next step is the same request.
LEMMA SwapListed ==
    ASSUME NEW o \in Editing, o.op = "swap", NEW n, n = [o EXCEPT !.step = "listed"]
    PROVE  n \in Editing /\ n.op = "swap" /\ n.phase = o.phase
  BY DEF Editing

LEMMA DragNumbered ==
    ASSUME NEW o \in Editing, o.op = "drag", NEW n, n = [o EXCEPT !.step = "numbered"]
    PROVE  /\ n \in Editing /\ n.op = "drag" /\ n.phase = o.phase /\ n.index = o.index
           /\ n.step = "numbered" /\ n.ids = o.ids
  BY DEF Editing

\* What is gone, or known, remains so as long as nobody commits or creates.
LEMMA QuietKnown ==
    ASSUME UNCHANGED <<order, unborn>>,
           \A f \in Edits : edit'[f].op = "create" => edit'[f] = edit[f]
    PROVE  \A q : (Gone(q) => Gone(q)') /\ (Known(q) => Known(q)')
  BY DEF Gone, Known

LEMMA DragKept ==
    ASSUME NEW f \in Edits, DragIsListed(f),
           edit'[f] = edit[f], todo'[f] = todo[f], held'[f] = held[f], goal'[f] = goal[f],
           \A q : (Gone(q) => Gone(q)') /\ (Known(q) => Known(q)')
    PROVE  DragIsListed(f)'
  BY DEF DragIsListed

\* A request that neither creates nor commits, and what it must see to.
LEMMA QuietStep ==
    ASSUME OrderInv, NEW e \in Edits, UNCHANGED <<order, unborn>>, OrderTypeOK',
           \A f \in Edits \ {e} : /\ edit'[f] = edit[f] /\ todo'[f] = todo[f]
                                  /\ held'[f] = held[f] /\ goal'[f] = goal[f],
           edit'[e].op = "create" => edit'[e] = edit[e] /\ goal'[e] = goal[e],
           held'[e] \subseteq DOMAIN order,
           \A f \in Edits \ {e} : held'[e] \cap held[f] = {},
           edit'[e].op \in {"idle", "done"} => held'[e] = {} /\ todo'[e] = <<>>,
           edit'[e].op = "drag" => DragIsListed(e)'
    PROVE  OrderInv'
  <1>1. \A q : (Gone(q) => Gone(q)') /\ (Known(q) => Known(q)')
    BY QuietKnown
  <1>2. Distinct(order')
    BY DEF OrderInv
  <1>3. BirthsAreNew'
    BY DEF OrderInv, BirthsAreNew
  <1>4. LocksAreHeld'
    BY DEF OrderInv, LocksAreHeld
  <1>5. RestingHoldNothing'
    BY DEF OrderInv, RestingHoldNothing
  <1>6. DragsAreListed'
    <2>1. ASSUME NEW f \in Edits \ {e}, edit'[f].op = "drag"
          PROVE  DragIsListed(f)'
      BY <1>1, <2>1, DragKept DEF OrderInv, DragsAreListed
    <2> QED BY <2>1 DEF DragsAreListed
  <1> QED BY <1>2, <1>3, <1>4, <1>5, <1>6 DEF OrderInv

LEMMA InitOrder == OrderInit => OrderInv
  <1> SUFFICES ASSUME OrderInit PROVE OrderInv
    OBVIOUS
  <1>1. /\ DOMAIN order = Initial /\ Initial \subseteq Ids /\ Gap \in Nat
        /\ order \in [Initial -> {Gap * n : n \in 1 .. Cardinality(Initial)}]
        /\ unborn = Ids \ Initial /\ Distinct(order)
        /\ edit = [e \in Edits |-> NotBegun] /\ todo = [e \in Edits |-> <<>>]
        /\ held = [e \in Edits |-> {}] /\ goal = [e \in Edits |-> <<>>] /\ crossed = {}
    BY PhaseOrderAssumption DEF OrderInit, PhaseOrderAssumption, Nothing
  <1>2. Cardinality(Initial) \in Nat
    BY <1>1, PhaseOrderAssumption, FS_Subset, FS_CardinalityType DEF PhaseOrderAssumption
  <1>3. \A n \in 1 .. Cardinality(Initial) : Gap * n \in Nat
    BY <1>1, <1>2
  <1>4. OrderTypeOK
    BY <1>1, <1>3, EditingKinds DEF OrderTypeOK
  <1>5. \A e \in Edits : edit[e].op = "idle"
    BY <1>1, EditingKinds
  <1> QED BY <1>1, <1>4, <1>5
          DEF OrderInv, BirthsAreNew, LocksAreHeld, RestingHoldNothing, DragsAreListed

\* What begins, and what is over, of a request.
LEMMA Beginning ==
    ASSUME OrderInv, NEW e \in Edits, NEW o, Begin(e, o), o \in Editing
    PROVE  /\ edit[e] = NotBegun /\ edit[e].op = "idle" /\ held[e] = {} /\ todo[e] = <<>>
           /\ edit'[e] = o /\ \A f \in Edits \ {e} : edit'[f] = edit[f]
           /\ edit' \in [Edits -> Editing]
  <1>1. edit[e] = NotBegun /\ edit' = [edit EXCEPT ![e] = o] /\ edit \in [Edits -> Editing]
    BY DEF Begin, OrderInv, OrderTypeOK
  <1>2. held[e] = {} /\ todo[e] = <<>>
    BY <1>1, EditingKinds DEF OrderInv, RestingHoldNothing
  <1> QED BY <1>1, <1>2, EditingKinds

LEMMA Finishing ==
    ASSUME OrderInv, NEW e \in Edits, Finish(e)
    PROVE  /\ edit'[e] = Done /\ edit'[e].op = "done" /\ held'[e] = {} /\ todo'[e] = <<>>
           /\ \A f \in Edits \ {e} : /\ edit'[f] = edit[f] /\ todo'[f] = todo[f]
                                     /\ held'[f] = held[f] /\ goal'[f] = goal[f]
           /\ edit' \in [Edits -> Editing] /\ todo' \in [Edits -> Seq(Ids)]
           /\ held' \in [Edits -> SUBSET Ids]
           /\ goal' = [f \in Edits |-> goal'[f]]
           /\ \A f \in Edits : goal'[f] \in [DOMAIN goal'[f] -> Nat]
  <1>1. /\ edit \in [Edits -> Editing] /\ todo \in [Edits -> Seq(Ids)]
        /\ held \in [Edits -> SUBSET Ids]
        /\ goal = [f \in Edits |-> goal[f]]
        /\ \A f \in Edits : goal[f] \in [DOMAIN goal[f] -> Nat]
    BY DEF OrderInv, OrderTypeOK
  <1>2. /\ edit' = [edit EXCEPT ![e] = Done] /\ todo' = [todo EXCEPT ![e] = <<>>]
        /\ held' = [held EXCEPT ![e] = {}] /\ goal' = [goal EXCEPT ![e] = <<>>]
    BY DEF Finish, Nothing
  <1>3. goal'[e] \in [DOMAIN goal'[e] -> Nat]
    BY <1>1, <1>2
  <1> QED BY <1>1, <1>2, <1>3, EditingKinds

LEMMA OrderFindToSwap ==
    ASSUME OrderInv, NEW e \in Edits, NEW p \in Ids, NEW by \in {0, 2}, FindToSwap(e, p, by)
    PROVE  OrderInv'
  <1> DEFINE o == [op |-> "swap", step |-> "found", phase |-> p, at |-> order[p], by |-> by]
  <1>1. order[p] \in Nat /\ OrderTypeOK
    BY DEF FindToSwap, OrderInv, OrderTypeOK
  <1>2. o \in Editing /\ o.op = "swap"
    BY <1>1, EditingKinds
  <1>3. Begin(e, o) /\ UNCHANGED <<order, unborn, todo, held, goal, crossed>>
    BY DEF FindToSwap
  <1> HIDE DEF o
  <1>4. /\ held[e] = {} /\ edit'[e] = o /\ \A f \in Edits \ {e} : edit'[f] = edit[f]
        /\ edit' \in [Edits -> Editing]
    BY <1>2, <1>3, Beginning
  <1>5. OrderTypeOK'
    BY <1>1, <1>3, <1>4 DEF OrderTypeOK
  <1> QED BY <1>2, <1>3, <1>4, <1>5, QuietStep

LEMMA OrderFindToDrag ==
    ASSUME OrderInv, NEW e \in Edits, NEW p \in Ids, NEW index \in Nat, FindToDrag(e, p, index)
    PROVE  OrderInv'
  <1> DEFINE o == [op |-> "drag", step |-> "found", phase |-> p, index |-> index, ids |-> <<>>]
  <1>1. p \in DOMAIN order /\ OrderTypeOK
    BY DEF FindToDrag, OrderInv
  <1>2. o \in Editing /\ o.op = "drag" /\ o.step = "found" /\ o.phase = p /\ o.ids = <<>>
    BY EditingKinds
  <1>3. Begin(e, o) /\ UNCHANGED <<order, unborn, todo, held, goal, crossed>>
    BY DEF FindToDrag
  <1> HIDE DEF o
  <1>4. /\ held[e] = {} /\ todo[e] = <<>>
        /\ edit'[e] = o /\ \A f \in Edits \ {e} : edit'[f] = edit[f]
        /\ edit' \in [Edits -> Editing]
    BY <1>2, <1>3, Beginning
  <1>5. OrderTypeOK'
    BY <1>1, <1>3, <1>4 DEF OrderTypeOK
  <1>6. DragIsListed(e)'
    BY <1>1, <1>2, <1>3, <1>4 DEF DragIsListed, Known
  <1> QED BY <1>2, <1>3, <1>4, <1>5, <1>6, QuietStep

LEMMA OrderFindToDelete ==
    ASSUME OrderInv, NEW e \in Edits, NEW p \in Ids, FindToDelete(e, p)
    PROVE  OrderInv'
  <1> DEFINE o == [op |-> "delete", phase |-> p]
  <1>1. OrderTypeOK
    BY DEF OrderInv
  <1>2. o \in Editing /\ o.op = "delete"
    BY EditingKinds
  <1>3. Begin(e, o) /\ todo' = [todo EXCEPT ![e] = <<p>>] /\ UNCHANGED <<order, unborn, held, goal, crossed>>
    BY DEF FindToDelete
  <1> HIDE DEF o
  <1>4. /\ held[e] = {} /\ edit'[e] = o /\ \A f \in Edits \ {e} : edit'[f] = edit[f]
        /\ edit' \in [Edits -> Editing]
    BY <1>2, <1>3, Beginning
  <1>5. OrderTypeOK' /\ \A f \in Edits \ {e} : todo'[f] = todo[f]
    <2>1. <<p>> \in Seq(Ids)
      OBVIOUS
    <2>2. todo' \in [Edits -> Seq(Ids)] /\ \A f \in Edits \ {e} : todo'[f] = todo[f]
      BY <1>1, <1>3, <2>1 DEF OrderTypeOK
    <2> QED BY <1>1, <1>3, <1>4, <2>2 DEF OrderTypeOK
  <1> QED BY <1>2, <1>3, <1>4, <1>5, QuietStep

LEMMA OrderListToSwap ==
    ASSUME OrderInv, NEW e \in Edits, ListToSwap(e)
    PROVE  OrderInv'
  <1>1. /\ OrderTypeOK /\ Distinct(order)
        /\ edit[e] \in Editing /\ edit[e].op = "swap" /\ edit[e].phase \in Ids /\ edit[e].at \in Nat
    BY EditingParts DEF ListToSwap, OrderInv, OrderTypeOK
  <1>2. PICK q \in DOMAIN order :
           /\ edit' = [edit EXCEPT ![e].step = "listed"]
           /\ todo' = [todo EXCEPT ![e] = <<edit[e].phase, q>>]
           /\ goal' = [goal EXCEPT ![e] = Updates(edit[e].phase, q, order[q], edit[e].at)]
           /\ UNCHANGED <<order, unborn, held, crossed>>
    <2>1. PICK i \in DOMAIN Listed :
             /\ todo' = [todo EXCEPT ![e] = <<edit[e].phase, Listed[i]>>]
             /\ goal' = [goal EXCEPT ![e] =
                            Updates(edit[e].phase, Listed[i], order[Listed[i]], edit[e].at)]
      BY DEF ListToSwap
    <2>2. Listed[i] \in DOMAIN order
      BY <1>1, ListedFacts DEF ToSet
    <2> QED BY <2>1, <2>2 DEF ListToSwap
  <1> DEFINE o == [edit[e] EXCEPT !.step = "listed"]
  <1>3. o \in Editing /\ o.op = "swap"
    BY <1>1, SwapListed
  <1>4. edit' = [edit EXCEPT ![e] = o]
    BY <1>2
  <1> HIDE DEF o
  <1>5. /\ edit' \in [Edits -> Editing] /\ edit'[e] = o
        /\ todo' \in [Edits -> Seq(Ids)]
        /\ \A f \in Edits \ {e} : edit'[f] = edit[f] /\ todo'[f] = todo[f] /\ goal'[f] = goal[f]
    <2>1. <<edit[e].phase, q>> \in Seq(Ids)
      BY <1>1 DEF OrderTypeOK
    <2>2. todo' \in [Edits -> Seq(Ids)] /\ \A f \in Edits \ {e} : todo'[f] = todo[f]
      BY <1>1, <1>2, <2>1 DEF OrderTypeOK
    <2>3. \A f \in Edits \ {e} : goal'[f] = goal[f]
      BY <1>1, <1>2 DEF OrderTypeOK
    <2> QED BY <1>1, <1>3, <1>4, <2>2, <2>3 DEF OrderTypeOK
  <1>6. goal'[e] \in [DOMAIN goal'[e] -> Nat] /\ goal' = [f \in Edits |-> goal'[f]]
    BY <1>1, <1>2 DEF OrderTypeOK, Updates
  <1>7. OrderTypeOK'
    BY <1>1, <1>2, <1>5, <1>6 DEF OrderTypeOK
  <1>8. held[e] \subseteq DOMAIN order /\ \A f \in Edits \ {e} : held[e] \cap held[f] = {}
    BY DEF OrderInv, LocksAreHeld
  <1> QED BY <1>2, <1>3, <1>5, <1>7, <1>8, QuietStep

LEMMA OrderListToDrag ==
    ASSUME OrderInv, NEW e \in Edits, ListToDrag(e)
    PROVE  OrderInv'
  <1>1. /\ OrderTypeOK /\ Distinct(order) /\ DragIsListed(e)
        /\ edit[e] \in Editing /\ edit[e].op = "drag" /\ edit[e].step = "found"
    BY DEF ListToDrag, OrderInv, OrderTypeOK, DragsAreListed
  <1>2. PICK L : L = Listed
    OBVIOUS
  <1>3. /\ L \in Seq(Ids) /\ ToSet(L) = DOMAIN order
        /\ \A i, j \in DOMAIN L : L[i] = L[j] => i = j
    BY <1>1, <1>2, ListedFacts
  <1> DEFINE listed == [edit[e] EXCEPT !.step = "listed"]
  <1>4. PICK m, o : m = listed /\ o = [m EXCEPT !.ids = L]
    OBVIOUS
  <1>5. /\ o \in Editing /\ o.op = "drag" /\ o.phase = edit[e].phase /\ o.step = "listed"
        /\ o.ids = L
    <2>1. PICK x : x = edit[e]
      OBVIOUS
    <2>2. x \in Editing /\ x.op = "drag" /\ m = [x EXCEPT !.step = "listed"]
      BY <1>1, <1>4, <2>1
    <2> HIDE DEF listed
    <2>3. /\ o \in Editing /\ o.op = "drag" /\ o.phase = x.phase /\ o.step = "listed"
          /\ o.ids = L
      BY <1>3, <1>4, <2>2 DEF Editing
    <2> QED BY <2>1, <2>3
  <1>6. /\ edit' = [edit EXCEPT ![e] = o] /\ todo' = [todo EXCEPT ![e] = L]
        /\ UNCHANGED <<order, unborn, held, goal, crossed>>
    BY <1>2, <1>4 DEF ListToDrag
  <1> HIDE DEF listed
  <1>7. /\ edit'[e] = o /\ todo'[e] = L /\ held'[e] = {}
        /\ \A f \in Edits \ {e} : edit'[f] = edit[f] /\ todo'[f] = todo[f]
    <2>1. held[e] = {}
      BY <1>1 DEF DragIsListed
    <2>2. /\ edit \in [Edits -> Editing] /\ todo \in [Edits -> Seq(Ids)]
      BY <1>1 DEF OrderTypeOK
    <2> QED BY <1>6, <2>1, <2>2
  <1>8. OrderTypeOK'
    BY <1>1, <1>3, <1>5, <1>6 DEF OrderTypeOK
  <1>9. \A q : (Gone(q) => Gone(q)') /\ (Known(q) => Known(q)')
    BY <1>5, <1>6, <1>7, QuietKnown
  <1>10. DragIsListed(e)'
    <2>1. Known(o.phase) /\ (o.phase \in ToSet(L) \/ Gone(o.phase))
      BY <1>1, <1>3, <1>5 DEF DragIsListed, Known
    <2>2. \A p \in ToSet(L) : Known(p)
      BY <1>3 DEF Known
    <2> QED BY <1>3, <1>5, <1>7, <1>9, <2>1, <2>2 DEF DragIsListed
  <1> QED BY <1>5, <1>6, <1>7, <1>8, <1>10, QuietStep

\* What a drag numbers is what it has locked.
LEMMA OrderNumber ==
    ASSUME OrderInv, NEW e \in Edits, Number(e)
    PROVE  OrderInv'
  <1> DEFINE ids == edit[e].ids
             p == edit[e].phase
             index == edit[e].index
             S == ToSet(ids) \cap DOMAIN order
             g == [q \in S |-> Place(ids, S, p, index, q)]
             o == [edit[e] EXCEPT !.step = "numbered"]
  <1>1. /\ OrderTypeOK /\ Distinct(order) /\ DragIsListed(e)
        /\ edit[e] \in Editing /\ edit[e].op = "drag" /\ edit[e].step = "listed"
        /\ todo[e] = <<>> /\ held[e] \subseteq DOMAIN order
    BY DEF Number, OrderInv, OrderTypeOK, DragsAreListed, LocksAreHeld
  <1>2. /\ index < Cardinality(S) /\ edit' = [edit EXCEPT ![e] = o]
        /\ held' = [held EXCEPT ![e] = @ \cup S]
        /\ goal' = [goal EXCEPT ![e] = g]
        /\ UNCHANGED <<order, unborn, todo, crossed>>
    BY DEF Number
  <1>3. /\ o \in Editing /\ o.op = "drag" /\ o.phase = p /\ o.index = index
        /\ o.step = "numbered" /\ o.ids = ids
    BY <1>1, DragNumbered
  <1>4. held[e] = S
    <2>1. held[e] \subseteq ToSet(ids) /\ \A x \in ToSet(ids) : x \in held[e] \/ Gone(x)
      BY <1>1 DEF DragIsListed, ToSet
    <2> QED BY <1>1, <2>1 DEF Gone
  <1>5. \A x \in S : Place(ids, S, p, index, x) \in Nat
    <2>1. IsFiniteSet(S)
      BY <1>1, ListedFacts, FS_Subset
    <2>2. /\ ids \in Seq(Ids) /\ index \in Nat
          /\ \A i, j \in DOMAIN ids : ids[i] = ids[j] => i = j
      BY <1>1, EditingParts DEF DragIsListed
    <2> HIDE DEF ids, p, index
    <2>3. S \subseteq ToSet(ids)
      OBVIOUS
    <2> HIDE DEF S
    <2> QED BY <1>2, <2>1, <2>2, <2>3, PlacesFit
  <1> HIDE DEF o, g
  <1>6. g \in [DOMAIN g -> Nat] /\ g = [q \in held[e] |-> Place(ids, held[e], p, index, q)]
    <2> HIDE DEF S, ids, p, index
    <2>1. g = [q \in S |-> Place(ids, S, p, index, q)]
      BY DEF g
    <2> QED BY <1>4, <1>5, <2>1
  <1>7. /\ edit'[e] = o /\ held'[e] = held[e] /\ goal'[e] = g /\ todo'[e] = <<>>
        /\ \A f \in Edits \ {e} : /\ edit'[f] = edit[f] /\ todo'[f] = todo[f]
                                  /\ held'[f] = held[f] /\ goal'[f] = goal[f]
    BY <1>1, <1>2, <1>4 DEF OrderTypeOK
  <1>8. OrderTypeOK'
    BY <1>1, <1>2, <1>3, <1>4, <1>6, <1>7 DEF OrderTypeOK
  <1>9. \A q : (Gone(q) => Gone(q)') /\ (Known(q) => Known(q)')
    BY <1>2, <1>3, <1>7, QuietKnown
  <1>10. DragIsListed(e)'
    <2>1. /\ Known(p) /\ (p \in ToSet(ids) \/ Gone(p)) /\ held[e] \subseteq ToSet(ids)
          /\ \A i, j \in DOMAIN ids : ids[i] = ids[j] => i = j
          /\ \A x \in ToSet(ids) : Known(x) /\ (x \in held[e] \cup ToSet(<<>>) \/ Gone(x))
      BY <1>1 DEF DragIsListed
    <2>2. index < Cardinality(held[e])
      BY <1>2, <1>4
    <2>3. ToSet(<<>>) = {}
      BY DEF ToSet
    <2> HIDE DEF S, ids, p, index
    <2>4. /\ edit'[e].ids = ids /\ edit'[e].step = "numbered" /\ edit'[e].phase = p
          /\ edit'[e].index = index /\ held'[e] = held[e] /\ todo'[e] = <<>> /\ goal'[e] = g
      BY <1>3, <1>7
    <2> QED BY <1>6, <1>9, <2>1, <2>2, <2>3, <2>4 DEF DragIsListed
  <1>11. \A f \in Edits \ {e} : held[e] \cap held[f] = {}
    BY DEF OrderInv, LocksAreHeld
  <1> QED BY <1>1, <1>2, <1>3, <1>7, <1>8, <1>10, <1>11, QuietStep

\* A row that is locked exists and is nobody else's; one that has gone will not come back.
LEMMA OrderLock ==
    ASSUME OrderInv, NEW e \in Edits, Lock(e)
    PROVE  OrderInv'
  <1> DEFINE p == Head(todo[e])
  <1>1. /\ OrderTypeOK /\ todo[e] # <<>> /\ (Locked(p) => p \in held[e])
        /\ held' = [held EXCEPT ![e] = IF p \in DOMAIN order THEN @ \cup {p} ELSE @]
        /\ todo' = [todo EXCEPT ![e] = Tail(@)]
        /\ UNCHANGED <<order, unborn, edit, goal, crossed>>
    BY DEF Lock, OrderInv
  <1>2. /\ todo[e] \in Seq(Ids) /\ p \in ToSet(todo[e]) /\ p \in Ids
        /\ Tail(todo[e]) \in Seq(Ids)
        /\ ToSet(todo[e]) = ToSet(Tail(todo[e])) \cup {p}
    <2> DEFINE s == todo[e]
    <2>1. s \in Seq(Ids) /\ s # <<>>
      BY <1>1 DEF OrderTypeOK
    <2> HIDE DEF s
    <2>2. /\ Head(s) = s[1] /\ 1 \in DOMAIN s /\ Tail(s) \in Seq(Ids) /\ Head(s) \in Ids
          /\ \A i \in DOMAIN Tail(s) : Tail(s)[i] = s[i + 1] /\ i + 1 \in DOMAIN s
          /\ \A i \in DOMAIN s : i = 1 \/ (i - 1 \in DOMAIN Tail(s) /\ Tail(s)[i - 1] = s[i])
      BY <2>1
    <2>3. ToSet(s) = ToSet(Tail(s)) \cup {Head(s)} /\ Head(s) \in ToSet(s)
      <3>1. Head(s) \in ToSet(s)
        BY <2>2 DEF ToSet
      <3>2. ToSet(Tail(s)) \subseteq ToSet(s)
        BY <2>2 DEF ToSet
      <3>3. ASSUME NEW i \in DOMAIN s
            PROVE  s[i] = Head(s) \/ s[i] \in ToSet(Tail(s))
        BY <2>2 DEF ToSet
      <3>4. \A x \in ToSet(s) : x = Head(s) \/ x \in ToSet(Tail(s))
        BY <3>3 DEF ToSet
      <3> QED BY <3>1, <3>2, <3>4
    <2> QED BY <2>1, <2>2, <2>3 DEF s
  <1>3. PICK x : x = p
    OBVIOUS
  <1> HIDE DEF p
  <1>4. /\ held'[e] = (IF x \in DOMAIN order THEN held[e] \cup {x} ELSE held[e])
        /\ todo'[e] = Tail(todo[e])
        /\ \A f \in Edits \ {e} : todo'[f] = todo[f] /\ held'[f] = held[f]
    BY <1>1, <1>3 DEF OrderTypeOK
  <1>5. OrderTypeOK'
    BY <1>1, <1>2, <1>3 DEF OrderTypeOK
  <1>6. held'[e] \subseteq DOMAIN order /\ \A f \in Edits \ {e} : held'[e] \cap held[f] = {}
    BY <1>1, <1>3, <1>4 DEF OrderInv, LocksAreHeld, Locked
  <1>7. edit[e].op \notin {"idle", "done"}
    BY <1>1 DEF OrderInv, RestingHoldNothing
  <1>8. \A q : (Gone(q) => Gone(q)') /\ (Known(q) => Known(q)')
    BY <1>1, QuietKnown
  <1>9. ASSUME edit[e].op = "drag"
        PROVE  DragIsListed(e)'
    <2>1. DragIsListed(e) /\ edit[e].step = "listed"
      BY <1>1, <1>9, EditingParts DEF OrderInv, DragsAreListed, DragIsListed, OrderTypeOK
    <2>2. /\ Known(edit[e].phase) /\ (edit[e].phase \in ToSet(edit[e].ids) \/ Gone(edit[e].phase))
          /\ \A i, j \in DOMAIN edit[e].ids : edit[e].ids[i] = edit[e].ids[j] => i = j
          /\ held[e] \cup ToSet(todo[e]) \subseteq ToSet(edit[e].ids)
          /\ \A q \in ToSet(edit[e].ids) :
                Known(q) /\ (q \in held[e] \cup ToSet(todo[e]) \/ Gone(q))
      BY <2>1 DEF DragIsListed
    <2>3. ToSet(todo[e]) = ToSet(todo'[e]) \cup {x} /\ x \in ToSet(todo[e])
      BY <1>2, <1>3, <1>4
    <2>4. held'[e] \cup ToSet(todo'[e]) \subseteq ToSet(edit[e].ids)
      BY <1>4, <2>2, <2>3
    <2>5. \A q \in ToSet(edit[e].ids) : q \in held'[e] \cup ToSet(todo'[e]) \/ Gone(q)
      BY <1>4, <2>2, <2>3 DEF Known
    <2>6. edit' = edit
      BY <1>1
    <2> QED BY <1>8, <2>1, <2>2, <2>4, <2>5, <2>6 DEF DragIsListed
  <1> QED BY <1>1, <1>4, <1>5, <1>6, <1>7, <1>9, QuietStep

LEMMA OrderUndo ==
    ASSUME OrderInv, NEW e \in Edits, Undo(e)
    PROVE  OrderInv'
  <1>1. Finish(e) /\ UNCHANGED <<order, unborn>> /\ crossed' \subseteq crossed /\ OrderTypeOK
    BY DEF Undo, OrderInv
  <1>2. /\ edit'[e].op = "done" /\ held'[e] = {} /\ todo'[e] = <<>>
        /\ \A f \in Edits \ {e} : /\ edit'[f] = edit[f] /\ todo'[f] = todo[f]
                                  /\ held'[f] = held[f] /\ goal'[f] = goal[f]
        /\ OrderTypeOK'
    BY <1>1, Finishing DEF OrderTypeOK
  <1> QED BY <1>1, <1>2, QuietStep

LEMMA OrderCreate ==
    ASSUME OrderInv, NEW e \in Edits, NEW p \in Ids, Create(e, p)
    PROVE  OrderInv'
  <1>1. PICK at : at = MaxOrder + Gap
    OBVIOUS
  <1>2. /\ OrderTypeOK /\ Distinct(order) /\ BirthsAreNew /\ p \in unborn
        /\ at \in Nat
    BY <1>1, MaxOrderType, PhaseOrderAssumption
       DEF OrderInv, Create, PhaseOrderAssumption
  <1>3. PICK o : o = [op |-> "create", phase |-> p, at |-> at]
    OBVIOUS
  <1>4. o \in Editing /\ o.op = "create" /\ o.phase = p
    BY <1>2, <1>3, EditingKinds
  <1>5. /\ Begin(e, o) /\ unborn' = unborn \ {p}
        /\ goal' = [goal EXCEPT ![e] = [q \in {p} |-> at]]
        /\ UNCHANGED <<order, todo, held, crossed>>
    BY <1>1, <1>3 DEF Create
  <1>6. /\ held[e] = {} /\ edit[e].op = "idle" /\ edit'[e] = o
        /\ \A f \in Edits \ {e} : edit'[f] = edit[f]
        /\ edit' \in [Edits -> Editing]
    BY <1>4, <1>5, Beginning
  <1>7. /\ goal'[e] \in [{p} -> Nat] /\ \A f \in Edits \ {e} : goal'[f] = goal[f]
        /\ goal' = [f \in Edits |-> goal'[f]]
    BY <1>2, <1>5 DEF OrderTypeOK
  <1>8. OrderTypeOK'
    <2>1. \A f \in Edits : goal'[f] \in [DOMAIN goal'[f] -> Nat]
      BY <1>2, <1>7 DEF OrderTypeOK
    <2> QED BY <1>2, <1>5, <1>6, <1>7, <2>1 DEF OrderTypeOK
  <1>9. \A q : (Gone(q) => Gone(q)') /\ (Known(q) => Known(q)')
    BY <1>2, <1>4, <1>5, <1>6 DEF Gone, Known
  <1>10. BirthsAreNew'
    BY <1>2, <1>4, <1>5, <1>6, <1>7 DEF BirthsAreNew
  <1>11. LocksAreHeld' /\ RestingHoldNothing' /\ Distinct(order')
    BY <1>2, <1>4, <1>5, <1>6 DEF OrderInv, LocksAreHeld, RestingHoldNothing
  <1>12. DragsAreListed'
    <2>1. ASSUME NEW f \in Edits, edit'[f].op = "drag"
          PROVE  DragIsListed(f)'
      <3>1. f # e /\ DragIsListed(f)
        BY <1>4, <1>6, <2>1 DEF OrderInv, DragsAreListed
      <3> QED BY <1>5, <1>6, <1>7, <1>9, <3>1, DragKept
    <2> QED BY <2>1 DEF DragsAreListed
  <1> QED BY <1>8, <1>10, <1>11, <1>12 DEF OrderInv

\* The committed rows after a commit.
LEMMA ResultFacts ==
    ASSUME OrderInv, NEW e \in Edits, Ready(e), order' = Result(e)
    PROVE  /\ DOMAIN order' = (DOMAIN order \cup Born(e)) \ Dead(e)
           /\ DOMAIN order' \subseteq Ids /\ order' \in [DOMAIN order' -> Nat]
           /\ \A p \in DOMAIN order' :
                 order'[p] = IF p \in DOMAIN goal[e] /\ p \in held[e] \cup Born(e)
                             THEN goal[e][p] ELSE order[p]
  <1>1. /\ OrderTypeOK /\ BirthsAreNew /\ edit[e] \in Editing
        /\ goal[e] \in [DOMAIN goal[e] -> Nat]
    BY DEF OrderInv, OrderTypeOK
  <1>2. Born(e) \subseteq Ids /\ Born(e) \subseteq DOMAIN goal[e]
    BY <1>1, EditingParts DEF Born, BirthsAreNew
  <1>3. /\ DOMAIN order' = (DOMAIN order \cup Born(e)) \ Dead(e)
        /\ \A p \in DOMAIN order' :
              order'[p] = IF p \in DOMAIN goal[e] /\ p \in held[e] \cup Born(e)
                          THEN goal[e][p] ELSE order[p]
        /\ order' = [p \in DOMAIN order' |-> order'[p]]
    BY DEF Result
  <1>4. \A p \in DOMAIN order' : order'[p] \in Nat
    <2> TAKE p \in DOMAIN order'
    <2>1. CASE p \in DOMAIN goal[e] /\ p \in held[e] \cup Born(e)
      BY <1>1, <1>3, <2>1
    <2>2. CASE ~(p \in DOMAIN goal[e] /\ p \in held[e] \cup Born(e))
      <3>1. p \in DOMAIN order /\ order'[p] = order[p]
        BY <1>2, <1>3, <2>2
      <3> QED BY <1>1, <3>1 DEF OrderTypeOK
    <2> QED BY <2>1, <2>2
  <1> QED BY <1>1, <1>2, <1>3, <1>4 DEF OrderTypeOK

LEMMA OrderCommit ==
    ASSUME OrderInv, NEW e \in Edits, Commit(e)
    PROVE  OrderInv'
  <1>1. /\ OrderTypeOK /\ BirthsAreNew /\ LocksAreHeld
        /\ Ready(e) /\ Distinct(Result(e)) /\ order' = Result(e) /\ Finish(e) /\ unborn' = unborn
        /\ crossed' \subseteq Edits
    BY DEF Commit, OrderInv, OrderTypeOK, Crossing
  <1>2. /\ DOMAIN order' = (DOMAIN order \cup Born(e)) \ Dead(e)
        /\ DOMAIN order' \subseteq Ids /\ order' \in [DOMAIN order' -> Nat]
    BY <1>1, ResultFacts
  <1>3. /\ edit'[e].op = "done" /\ held'[e] = {} /\ todo'[e] = <<>>
        /\ \A f \in Edits \ {e} : /\ edit'[f] = edit[f] /\ todo'[f] = todo[f]
                                  /\ held'[f] = held[f] /\ goal'[f] = goal[f]
        /\ OrderTypeOK'
    BY <1>1, <1>2, Finishing DEF OrderTypeOK
  <1>4. /\ Dead(e) \subseteq held[e]
        /\ \A p \in Born(e) : edit[e].op = "create" /\ p = edit[e].phase
        /\ edit[e].op = "create" => Born(e) = {edit[e].phase}
    BY DEF Dead, Born
  <1>5. \A q : Gone(q) => Gone(q)'
    BY <1>1, <1>2, <1>3, <1>4 DEF Gone
  <1>6. \A q : Known(q) => Known(q)'
    <2>1. ASSUME NEW q \in DOMAIN order
          PROVE  Known(q)'
      <3>1. CASE q \in DOMAIN order'
        BY <3>1 DEF Known
      <3>2. CASE q \notin DOMAIN order'
        BY <1>1, <1>3, <2>1, <3>2 DEF Known, Gone, BirthsAreNew
      <3> QED BY <3>1, <3>2
    <2> QED BY <1>5, <2>1 DEF Known
  <1>7. BirthsAreNew'
    <2>1. unborn' \cap DOMAIN order' = {}
      BY <1>1, <1>2, <1>4 DEF BirthsAreNew
    <2>2. ASSUME NEW f \in Edits, edit'[f].op = "create"
          PROVE  /\ edit'[f].phase \notin unborn' \cup DOMAIN order'
                 /\ DOMAIN goal'[f] = {edit'[f].phase}
                 /\ \A g \in Edits \ {f} : edit'[g].op = "create" => edit'[g].phase # edit'[f].phase
      <3>1. f # e /\ edit'[f] = edit[f] /\ goal'[f] = goal[f]
        BY <1>3, <2>2
      <3>2. /\ edit[f].phase \notin unborn \cup DOMAIN order
            /\ DOMAIN goal[f] = {edit[f].phase}
            /\ \A g \in Edits \ {f} : edit[g].op = "create" => edit[g].phase # edit[f].phase
        BY <1>1, <2>2, <3>1 DEF BirthsAreNew
      <3>3. edit[f].phase \notin Born(e)
        BY <1>4, <3>1, <3>2
      <3> QED BY <1>1, <1>2, <1>3, <3>1, <3>2, <3>3
    <2> QED BY <2>1, <2>2 DEF BirthsAreNew
  <1>8. LocksAreHeld'
    BY <1>1, <1>2, <1>3, <1>4 DEF LocksAreHeld
  <1>9. RestingHoldNothing' /\ Distinct(order')
    BY <1>1, <1>3 DEF OrderInv, RestingHoldNothing
  <1>10. DragsAreListed'
    <2>1. ASSUME NEW f \in Edits, edit'[f].op = "drag"
          PROVE  DragIsListed(f)'
      <3>1. f # e /\ DragIsListed(f)
        BY <1>3, <2>1 DEF OrderInv, DragsAreListed
      <3> QED BY <1>3, <1>5, <1>6, <3>1, DragKept
    <2> QED BY <2>1 DEF DragsAreListed
  <1> QED BY <1>3, <1>7, <1>8, <1>9, <1>10 DEF OrderInv

LEMMA StepOrder == OrderInv /\ [OrderNext]_ordering => OrderInv'
  <1> SUFFICES ASSUME OrderInv, [OrderNext]_ordering PROVE OrderInv'
    OBVIOUS
  <1>1. Cardinality(Ids) \in Nat
    BY PhaseOrderAssumption, FS_CardinalityType DEF PhaseOrderAssumption
  <1>2. ASSUME NEW e \in Edits, NEW p \in Ids,
               \/ Create(e, p)
               \/ \E by \in {0, 2} : FindToSwap(e, p, by)
               \/ \E index \in 0 .. Cardinality(Ids) - 1 : FindToDrag(e, p, index)
               \/ FindToDelete(e, p)
        PROVE  OrderInv'
    <2>1. \A index \in 0 .. Cardinality(Ids) - 1 : index \in Nat
      BY <1>1
    <2> QED BY <1>2, <2>1, OrderCreate, OrderFindToSwap, OrderFindToDrag, OrderFindToDelete
  <1>3. ASSUME NEW e \in Edits,
               ListToSwap(e) \/ ListToDrag(e) \/ Number(e) \/ Lock(e) \/ Commit(e) \/ Undo(e)
        PROVE  OrderInv'
    BY <1>3, OrderListToSwap, OrderListToDrag, OrderNumber, OrderLock, OrderCommit, OrderUndo
  <1>4. CASE UNCHANGED ordering
    <2>1. UNCHANGED <<order, unborn, edit, todo, held, goal, crossed>>
      BY <1>4 DEF ordering
    <2>2. \A f \in Edits : DragIsListed(f) => DragIsListed(f)'
      BY <2>1, QuietKnown, DragKept
    <2> QED BY <2>1, <2>2
            DEF OrderInv, OrderTypeOK, BirthsAreNew, LocksAreHeld, RestingHoldNothing,
                DragsAreListed
  <1> QED BY <1>2, <1>3, <1>4 DEF OrderNext

\* What each open transaction has locked, listed and numbered, and that a phase is created
\* once, at every statement of every request (phases/service.js).
THEOREM OrderInvariant == OrderSpec => []OrderInv
  BY InitOrder, StepOrder, PTL DEF OrderSpec

\* Only a commit changes the order and ends its request.
LEMMA CommitsCommit ==
    ASSUME OrderInv, OrderNext, NEW e \in Edits, Commits(e)
    PROVE  Commit(e)
  <1>1. edit \in [Edits -> Editing]
    BY DEF OrderInv, OrderTypeOK
  <1>2. PICK f \in Edits : Commit(f)
    BY DEF OrderNext, Commits, Create, FindToSwap, FindToDrag, FindToDelete, ListToSwap,
           ListToDrag, Number, Lock, Undo
  <1>3. edit' = [edit EXCEPT ![f] = Done]
    BY <1>2 DEF Commit, Finish
  <1>4. f = e
    BY <1>1, <1>3 DEF Commits
  <1> QED BY <1>2, <1>4

\* What a swap commits that nothing crossed: its two phases exchange their numbers, or have
\* exchanged them already.
LEMMA SwapCommits ==
    ASSUME OrderInv, SwapsAreApt, NEW e \in Edits \ crossed, Commit(e), edit[e].op = "swap"
    PROVE  \E p, q \in DOMAIN order :
              /\ p # q /\ DOMAIN goal[e] = {p, q}
              /\ \/ order' = order
                 \/ order' = [order EXCEPT ![p] = order[q], ![q] = order[p]]
  <1> DEFINE p == edit[e].phase
  <1>1. /\ OrderTypeOK /\ Ready(e) /\ order' = Result(e) /\ Distinct(order') /\ SwapIsApt(e)
    BY DEF Commit, OrderInv, SwapsAreApt
  <1>2. PICK at : at = edit[e].at
    OBVIOUS
  <1>3. PICK q \in DOMAIN order \ {p}, n \in Taken :
           /\ goal[e] = Updates(p, q, n, at)
           /\ {p, q} \subseteq held[e] \cup ToSet(todo[e])
    BY <1>1, <1>2 DEF Ready, SwapIsApt
  <1>4. p \in DOMAIN order /\ at \in Taken
    BY <1>1, <1>2 DEF SwapIsApt
  <1> HIDE DEF p
  <1>5. {p, q} \subseteq held[e] /\ Born(e) = {} /\ Dead(e) = {}
    BY <1>1, <1>3 DEF Ready, ToSet, Born, Dead
  <1>6. DOMAIN goal[e] = {p, q} /\ goal[e][p] = n /\ goal[e][q] = at
    BY <1>3 DEF Updates
  <1>7. /\ DOMAIN order' = DOMAIN order /\ order'[p] = n /\ order'[q] = at
        /\ \A x \in DOMAIN order \ {p, q} : order'[x] = order[x]
        /\ order' = [x \in DOMAIN order |-> order'[x]]
    BY <1>1, <1>3, <1>4, <1>5, <1>6, ResultFacts
  <1>8. PICK x \in DOMAIN order, y \in DOMAIN order : order[x] = at /\ order[y] = n
    BY <1>3, <1>4 DEF Taken
  <1>9. x \in {p, q} /\ y \in {p, q} /\ n # at
    BY <1>1, <1>3, <1>4, <1>7, <1>8 DEF Distinct
  <1>10. /\ order = [z \in DOMAIN order |-> order[z]]
    BY <1>1 DEF OrderTypeOK
  <1>11. CASE x = p /\ y = q
    <2>1. order' = [order EXCEPT ![p] = order[q], ![q] = order[p]]
      BY <1>3, <1>4, <1>7, <1>8, <1>10, <1>11
    <2> QED BY <1>3, <1>4, <1>6, <2>1
  <1>12. CASE x = q /\ y = p
    <2>1. order' = order
      BY <1>3, <1>4, <1>7, <1>8, <1>10, <1>12
    <2> QED BY <1>3, <1>4, <1>6, <2>1
  <1> QED BY <1>8, <1>9, <1>11, <1>12

\* A swap that is left alone, or in which only phases and numbers are added, stays apt.
LEMMA AptKept ==
    ASSUME NEW f, SwapIsApt(f), edit'[f] = edit[f], goal'[f] = goal[f],
           DOMAIN order \subseteq DOMAIN order', Taken \subseteq Taken',
           DOMAIN order \cap (held[f] \cup ToSet(todo[f])) \subseteq held'[f] \cup ToSet(todo'[f])
    PROVE  SwapIsApt(f)'
  <1>1. edit[f].phase \in DOMAIN order /\ edit[f].at \in Taken
    BY DEF SwapIsApt
  <1>2. ASSUME edit[f].step = "listed"
        PROVE  \E q \in DOMAIN order' \ {edit[f].phase}, n \in Taken' :
                  /\ goal[f] = Updates(edit[f].phase, q, n, edit[f].at)
                  /\ {edit[f].phase, q} \subseteq held'[f] \cup ToSet(todo'[f])
    <2>1. PICK q \in DOMAIN order \ {edit[f].phase}, n \in Taken :
             /\ goal[f] = Updates(edit[f].phase, q, n, edit[f].at)
             /\ {edit[f].phase, q} \subseteq held[f] \cup ToSet(todo[f])
      BY <1>2 DEF SwapIsApt
    <2>2. {edit[f].phase, q} \subseteq held'[f] \cup ToSet(todo'[f])
      BY <1>1, <2>1
    <2> QED BY <2>1, <2>2
  <1> QED BY <1>1, <1>2 DEF SwapIsApt

\* A step of e that commits nothing, and what it must see to.
LEMMA AptQuiet ==
    ASSUME SwapsAreApt, NEW e \in Edits, order' = order, crossed \ {e} \subseteq crossed',
           \A f \in Edits \ {e} : /\ edit'[f] = edit[f] /\ todo'[f] = todo[f]
                                  /\ held'[f] = held[f] /\ goal'[f] = goal[f],
           edit'[e].op = "swap" /\ e \notin crossed' => SwapIsApt(e)'
    PROVE  SwapsAreApt'
  <1>1. Taken' = Taken
    BY DEF Taken
  <1>2. ASSUME NEW f \in Edits \ crossed', f # e, edit'[f].op = "swap"
        PROVE  SwapIsApt(f)'
    <2>1. SwapIsApt(f) /\ edit'[f] = edit[f] /\ goal'[f] = goal[f]
      BY <1>2 DEF SwapsAreApt
    <2>2. held'[f] = held[f] /\ todo'[f] = todo[f]
      BY <1>2
    <2> QED BY <1>1, <2>1, <2>2, AptKept
  <1> QED BY <1>2 DEF SwapsAreApt

LEMMA AptBegin ==
    ASSUME OrderInv, SwapsAreApt, NEW e \in Edits, NEW p \in Ids,
           \/ Create(e, p)
           \/ \E by \in {0, 2} : FindToSwap(e, p, by)
           \/ \E index \in 0 .. Cardinality(Ids) - 1 : FindToDrag(e, p, index)
           \/ FindToDelete(e, p)
    PROVE  SwapsAreApt'
  <1>1. PICK o : Begin(e, o) /\ order' = order /\ crossed' = crossed /\ held' = held
             /\ (o.op = "swap" => p \in DOMAIN order /\ o.phase = p /\ o.at = order[p]
                                  /\ o.step = "found")
    <2>1. CASE Create(e, p)
      BY <2>1 DEF Create
    <2>2. CASE \E by \in {0, 2} : FindToSwap(e, p, by)
      BY <2>2 DEF FindToSwap
    <2>3. CASE \E index \in 0 .. Cardinality(Ids) - 1 : FindToDrag(e, p, index)
      BY <2>3 DEF FindToDrag
    <2>4. CASE FindToDelete(e, p)
      BY <2>4 DEF FindToDelete
    <2> QED BY <2>1, <2>2, <2>3, <2>4
  <1>2. edit'[e] = o /\ \A f \in Edits \ {e} : edit'[f] = edit[f] /\ held'[f] = held[f]
    BY <1>1 DEF Begin, OrderInv, OrderTypeOK
  <1>4. \A f \in Edits \ {e} : todo'[f] = todo[f] /\ goal'[f] = goal[f]
    BY DEF OrderInv, OrderTypeOK, Create, FindToSwap, FindToDrag, FindToDelete
  <1>3. o.op = "swap" => SwapIsApt(e)'
    BY <1>1, <1>2 DEF SwapIsApt, Taken
  <1> QED BY <1>1, <1>2, <1>3, <1>4, AptQuiet

LEMMA AptList ==
    ASSUME OrderInv, SwapsAreApt, NEW e \in Edits, ListToSwap(e)
    PROVE  SwapsAreApt'
  <1> DEFINE p == edit[e].phase
  <1>1. OrderTypeOK /\ Distinct(order) /\ edit[e] \in Editing /\ edit[e].op = "swap"
    BY DEF ListToSwap, OrderInv, OrderTypeOK
  <1>2. PICK i \in DOMAIN Listed :
           /\ i = IndexOf(Listed, p) + edit[e].by - 1
           /\ edit' = [edit EXCEPT ![e].step = "listed"]
           /\ todo' = [todo EXCEPT ![e] = <<p, Listed[i]>>]
           /\ goal' = [goal EXCEPT ![e] = Updates(p, Listed[i], order[Listed[i]], edit[e].at)]
           /\ UNCHANGED <<order, unborn, held, crossed>>
    BY DEF ListToSwap
  <1>3. PICK x : x = edit'[e]
    OBVIOUS
  <1>4. x.op = "swap" /\ x.phase = p /\ x.at = edit[e].at /\ x.step = "listed"
    <2>1. PICK y : y = edit[e]
      OBVIOUS
    <2>2. x = [y EXCEPT !.step = "listed"]
      BY <1>1, <1>2, <1>3, <2>1 DEF OrderTypeOK
    <2>3. y \in Editing /\ y.op = "swap"
      BY <1>1, <2>1
    <2>4. x.op = "swap" /\ x.phase = y.phase /\ x.at = y.at /\ x.step = "listed"
      BY <2>2, <2>3 DEF Editing
    <2> QED BY <2>1, <2>4
  <1>5. ASSUME e \notin crossed
        PROVE  SwapIsApt(e)'
    <2> DEFINE q == Listed[i]
    <2>1. p \in DOMAIN order /\ edit[e].at \in Taken
      BY <1>1, <1>5 DEF SwapsAreApt, SwapIsApt
    <2>2. q \in DOMAIN order /\ q # p
      <3>1. PICK L : L = Listed
        OBVIOUS
      <3>2. L \in Seq(Ids) /\ ToSet(L) = DOMAIN order
        BY <1>1, <3>1, ListedFacts
      <3>3. p \in ToSet(L) /\ i \in DOMAIN L /\ i = IndexOf(L, p) + edit[e].by - 1
        BY <1>2, <2>1, <3>1, <3>2
      <3>4. /\ IndexOf(L, p) \in DOMAIN L /\ L[IndexOf(L, p)] = p
            /\ \A j, k \in DOMAIN L : L[j] = L[k] => j = k
        BY <1>1, <3>1, <3>2, <3>3, ListedFacts DEF IndexOf, ToSet
      <3>5. i # IndexOf(L, p)
        <4>1. edit[e].by \in {0, 2}
          BY <1>1, EditingParts
        <4>2. IndexOf(L, p) \in Nat
          BY <3>2, <3>4
        <4> QED BY <3>3, <4>1, <4>2
      <3>6. L[i] # p /\ L[i] \in DOMAIN order
        BY <3>2, <3>3, <3>4, <3>5 DEF ToSet
      <3> QED BY <3>1, <3>6
    <2>3. /\ goal'[e] = Updates(p, q, order[q], edit[e].at)
          /\ todo'[e] = <<p, q>>
      BY <1>1, <1>2 DEF OrderTypeOK
    <2> HIDE DEF p, q
    <2>4. {p, q} \subseteq ToSet(<<p, q>>)
      BY DEF ToSet
    <2>5. order[q] \in Taken /\ Taken' = Taken /\ order' = order
      BY <1>2, <2>2 DEF Taken
    <2> QED BY <1>3, <1>4, <2>1, <2>2, <2>3, <2>4, <2>5 DEF SwapIsApt
  <1>6. \A f \in Edits \ {e} : /\ edit'[f] = edit[f] /\ todo'[f] = todo[f]
                                /\ held'[f] = held[f] /\ goal'[f] = goal[f]
    BY <1>1, <1>2 DEF OrderTypeOK
  <1> QED BY <1>2, <1>5, <1>6, AptQuiet

LEMMA AptLock ==
    ASSUME OrderInv, SwapsAreApt, NEW e \in Edits, Lock(e)
    PROVE  SwapsAreApt'
  <1> DEFINE p == Head(todo[e])
  <1>1. /\ OrderTypeOK /\ todo[e] # <<>>
        /\ held' = [held EXCEPT ![e] = IF p \in DOMAIN order THEN @ \cup {p} ELSE @]
        /\ todo' = [todo EXCEPT ![e] = Tail(@)]
        /\ UNCHANGED <<order, unborn, edit, goal, crossed>>
    BY DEF Lock, OrderInv
  <1>2. ToSet(todo[e]) \subseteq ToSet(Tail(todo[e])) \cup {p}
    <2>1. PICK s : s = todo[e]
      OBVIOUS
    <2>2. s \in Seq(Ids) /\ s # <<>> /\ p = Head(s)
      BY <1>1, <2>1 DEF OrderTypeOK
    <2> HIDE DEF p
    <2>3. \A i \in DOMAIN s : s[i] = p \/ (i - 1 \in DOMAIN Tail(s) /\ Tail(s)[i - 1] = s[i])
      BY <2>2
    <2> QED BY <2>1, <2>3 DEF ToSet
  <1>3. /\ held'[e] = (IF p \in DOMAIN order THEN held[e] \cup {p} ELSE held[e])
        /\ todo'[e] = Tail(todo[e])
        /\ \A f \in Edits \ {e} : todo'[f] = todo[f] /\ held'[f] = held[f]
    BY <1>1 DEF OrderTypeOK
  <1> HIDE DEF p
  <1>4. DOMAIN order \cap (held[e] \cup ToSet(todo[e])) \subseteq held'[e] \cup ToSet(todo'[e])
    BY <1>2, <1>3
  <1>5. ASSUME edit[e].op = "swap", e \notin crossed
        PROVE  SwapIsApt(e)'
    <2>1. SwapIsApt(e) /\ Taken' = Taken
      BY <1>1, <1>5 DEF SwapsAreApt, Taken
    <2> QED BY <1>1, <1>4, <2>1, AptKept
  <1> QED BY <1>1, <1>3, <1>5, AptQuiet

LEMMA AptCommit ==
    ASSUME OrderInv, SwapsAreApt, NEW e \in Edits, Commit(e)
    PROVE  SwapsAreApt'
  <1>1. /\ OrderTypeOK /\ BirthsAreNew /\ Ready(e) /\ order' = Result(e) /\ Finish(e)
        /\ crossed' = Crossing(e) \ {e}
    BY DEF Commit, OrderInv
  <1>2. /\ edit'[e].op = "done"
        /\ \A f \in Edits \ {e} : /\ edit'[f] = edit[f] /\ todo'[f] = todo[f]
                                  /\ held'[f] = held[f] /\ goal'[f] = goal[f]
    BY <1>1, Finishing
  <1>3. ASSUME NEW f \in Edits \ crossed', edit'[f].op = "swap"
        PROVE  SwapIsApt(f)'
    <2>1. f # e /\ edit[f].op = "swap"
      BY <1>2, <1>3
    <2>2. f \notin Crossing(e)
      BY <1>1, <1>3, <2>1
    <2>3. edit[e].op \notin {"drag", "delete"} /\ e \notin crossed /\ f \notin crossed
      BY <2>1, <2>2 DEF Crossing
    <2>4. SwapIsApt(f)
      BY <2>1, <2>3 DEF SwapsAreApt
    <2>5. DOMAIN order \subseteq DOMAIN order' /\ Taken \subseteq Taken'
      <3>1. CASE edit[e].op = "create"
        <4>1. Dead(e) = {}
          BY <3>1 DEF Dead
        <4>2. DOMAIN goal[e] \cap DOMAIN order = {}
          BY <1>1, <3>1 DEF BirthsAreNew
        <4>3. /\ DOMAIN order \subseteq DOMAIN order'
              /\ \A x \in DOMAIN order : order'[x] = order[x]
          BY <1>1, <4>1, <4>2, ResultFacts
        <4> QED BY <4>3 DEF Taken
      <3>2. CASE edit[e].op = "swap"
        <4>1. PICK p, q \in DOMAIN order :
                 \/ order' = order
                 \/ order' = [order EXCEPT ![p] = order[q], ![q] = order[p]]
          BY <2>3, <3>2, SwapCommits
        <4>2. CASE order' = order
          BY <4>2 DEF Taken
        <4>3. CASE order' = [order EXCEPT ![p] = order[q], ![q] = order[p]]
          <5>1. /\ DOMAIN order' = DOMAIN order /\ order'[q] = order[p]
                /\ p # q => order'[p] = order[q]
                /\ \A x \in DOMAIN order \ {p, q} : order'[x] = order[x]
            BY <4>1, <4>3
          <5>2. \A x \in DOMAIN order : \E y \in DOMAIN order' : order'[y] = order[x]
            BY <4>1, <5>1
          <5> QED BY <5>1, <5>2 DEF Taken
        <4> QED BY <4>1, <4>2, <4>3
      <3> QED BY <1>1, <2>3, <3>1, <3>2 DEF Ready
    <2> QED BY <1>2, <2>1, <2>4, <2>5, AptKept
  <1> QED BY <1>3 DEF SwapsAreApt

\* A drag that lists remains a drag.
LEMMA DragStays ==
    ASSUME OrderInv, NEW e \in Edits, ListToDrag(e)
    PROVE  edit'[e].op = "drag"
  <1>1. edit \in [Edits -> Editing] /\ edit[e].op = "drag"
    BY DEF ListToDrag, OrderInv, OrderTypeOK
  <1>2. PICK x, L : x = edit[e] /\ L = Listed
    OBVIOUS
  <1>3. PICK m, o : m = [x EXCEPT !.step = "listed"] /\ o = [m EXCEPT !.ids = L]
    OBVIOUS
  <1>4. o.op = "drag"
    BY <1>1, <1>2, <1>3 DEF Editing
  <1>5. edit' = [edit EXCEPT ![e] = [[edit[e] EXCEPT !.step = "listed"] EXCEPT !.ids = L]]
    BY <1>1, <1>2 DEF ListToDrag
  <1>6. edit' = [edit EXCEPT ![e] = o]
    BY <1>2, <1>3, <1>5
  <1> QED BY <1>1, <1>4, <1>6

LEMMA StepApt == OrderInv /\ SwapsAreApt /\ [OrderNext]_ordering => SwapsAreApt'
  <1> SUFFICES ASSUME OrderInv, SwapsAreApt, [OrderNext]_ordering PROVE SwapsAreApt'
    OBVIOUS
  <1>1. edit \in [Edits -> Editing] /\ goal = [e \in Edits |-> goal[e]]
    BY DEF OrderInv, OrderTypeOK
  <1>2. ASSUME NEW e \in Edits, ListToDrag(e) \/ Number(e) \/ Undo(e)
        PROVE  SwapsAreApt'
    <2>1. /\ order' = order /\ crossed \ {e} \subseteq crossed'
          /\ \A f \in Edits \ {e} : /\ edit'[f] = edit[f] /\ todo'[f] = todo[f]
                                    /\ held'[f] = held[f] /\ goal'[f] = goal[f]
      BY <1>2 DEF ListToDrag, Number, Undo, Finish, OrderInv, OrderTypeOK
    <2>2. edit'[e].op # "swap"
      <3>1. CASE Undo(e)
        BY <3>1, Finishing DEF Undo
      <3>2. CASE ListToDrag(e)
        BY <3>2, DragStays
      <3>3. CASE Number(e)
        BY <1>1, <3>3, DragNumbered DEF Number
      <3> QED BY <1>2, <3>1, <3>2, <3>3
    <2> QED BY <2>1, <2>2, AptQuiet
  <1>3. CASE UNCHANGED ordering
    <2>1. UNCHANGED <<order, edit, todo, held, goal, crossed>>
      BY <1>3 DEF ordering
    <2>2. Taken' = Taken
      BY <2>1 DEF Taken
    <2>3. \A f \in Edits : SwapIsApt(f) => SwapIsApt(f)'
      BY <2>1, <2>2, AptKept
    <2> QED BY <2>1, <2>3 DEF SwapsAreApt
  <1> QED BY <1>2, <1>3, AptBegin, AptList, AptLock, AptCommit DEF OrderNext

\* A swap writes numbers it read without a lock into rows it read without a lock (reorder,
\* phases/service.js).  As long as others only swap and append, numbers only change hands,
\* so the deferred constraint lets it commit only if it exchanges two of them.
THEOREM SwapsTrade == OrderSpec => SwapsTradePlaces
  <1>1. OrderInit => SwapsAreApt
    BY EditingKinds DEF OrderInit, SwapsAreApt
  <1>2. OrderSpec => []SwapsAreApt
    BY <1>1, StepApt, OrderInvariant, PTL DEF OrderSpec
  <1>3. ASSUME OrderInv, SwapsAreApt, OrderNext, NEW e \in Edits \ crossed,
               Commits(e), edit[e].op = "swap"
        PROVE  \E p, q \in DOMAIN order :
                  /\ p # q /\ DOMAIN goal[e] = {p, q}
                  /\ order' = [order EXCEPT ![p] = order[q], ![q] = order[p]]
    <2>1. Commit(e) /\ order' # order
      BY <1>3, CommitsCommit DEF Commits
    <2> QED BY <1>3, <2>1, SwapCommits
  <1>4. OrderInv /\ SwapsAreApt /\ [OrderNext]_ordering =>
            [\A e \in Edits \ crossed :
                Commits(e) /\ edit[e].op = "swap" =>
                    \E p, q \in DOMAIN order :
                       /\ p # q /\ DOMAIN goal[e] = {p, q}
                       /\ order' = [order EXCEPT ![p] = order[q], ![q] = order[p]]]_ordering
    BY <1>3
  <1> QED BY <1>2, <1>4, OrderInvariant, PTL DEF OrderSpec, SwapsTradePlaces

\* What a drag commits: the rows it has locked get their places, and no other row changes.
LEMMA DragCommits ==
    ASSUME OrderInv, NEW e \in Edits, Commit(e), edit[e].op = "drag"
    PROVE  LET ids   == edit[e].ids
               p     == edit[e].phase
               index == edit[e].index
               S     == held[e]
           IN /\ ids \in Seq(Ids) /\ \A i, j \in DOMAIN ids : ids[i] = ids[j] => i = j
              /\ IsFiniteSet(S) /\ S = ToSet(ids) \cap DOMAIN order
              /\ p \in DOMAIN order => p \in S
              /\ index \in Nat /\ index < Cardinality(S)
              /\ DOMAIN order' = DOMAIN order /\ Distinct(order')
              /\ \A q \in S : order'[q] = Place(ids, S, p, index, q)
  <1>1. /\ OrderTypeOK /\ Distinct(order) /\ LocksAreHeld /\ DragIsListed(e)
        /\ edit[e] \in Editing /\ Ready(e) /\ order' = Result(e) /\ Distinct(order')
    BY DEF Commit, OrderInv, OrderTypeOK, DragsAreListed
  <1>2. edit[e].step = "numbered"
    BY <1>1 DEF Ready
  <1>3. /\ edit[e].ids \in Seq(Ids) /\ edit[e].index \in Nat
    BY <1>1, EditingParts
  <1>4. /\ \A i, j \in DOMAIN edit[e].ids : edit[e].ids[i] = edit[e].ids[j] => i = j
        /\ edit[e].phase \in ToSet(edit[e].ids) \/ Gone(edit[e].phase)
        /\ held[e] \subseteq ToSet(edit[e].ids) /\ todo[e] = <<>>
        /\ \A q \in ToSet(edit[e].ids) : q \in held[e] \cup ToSet(todo[e]) \/ Gone(q)
        /\ edit[e].index < Cardinality(held[e])
        /\ goal[e] = [q \in held[e] |->
                        Place(edit[e].ids, held[e], edit[e].phase, edit[e].index, q)]
    BY <1>1, <1>2 DEF DragIsListed
  <1>5. ToSet(<<>>) = {}
    BY DEF ToSet
  <1>6. held[e] = ToSet(edit[e].ids) \cap DOMAIN order
    BY <1>1, <1>4, <1>5 DEF Gone, LocksAreHeld
  <1>7. edit[e].phase \in DOMAIN order => edit[e].phase \in held[e]
    BY <1>4, <1>6 DEF Gone
  <1>8. IsFiniteSet(held[e])
    BY <1>1, <1>6, ListedFacts, FS_Subset
  <1>9. Born(e) = {} /\ Dead(e) = {}
    BY DEF Born, Dead
  <1>10. /\ DOMAIN order' = DOMAIN order
         /\ \A q \in held[e] : order'[q] = goal[e][q]
    BY <1>1, <1>4, <1>6, <1>9, ResultFacts
  <1> QED BY <1>1, <1>3, <1>4, <1>6, <1>7, <1>8, <1>10

\* A drag puts its phase at the index the admin dropped it on, whatever was created,
\* swapped, dragged or deleted while it waited: its rows take the first numbers, one each,
\* and the constraint keeps every other row behind them.
THEOREM DragsLand == OrderSpec => DragLands
  <1>1. ASSUME OrderInv, OrderNext, NEW e \in Edits,
               Commits(e), edit[e].op = "drag", edit[e].phase \in DOMAIN order
        PROVE  Position(edit[e].phase, order') = edit[e].index
    <2> DEFINE ids == edit[e].ids
               p == edit[e].phase
               index == edit[e].index
               S == held[e]
               g == [q \in S |-> Place(ids, S, p, index, q)]
    <2>1. /\ ids \in Seq(Ids) /\ \A i, j \in DOMAIN ids : ids[i] = ids[j] => i = j
          /\ IsFiniteSet(S) /\ S \subseteq ToSet(ids) /\ S \subseteq DOMAIN order
          /\ p \in S /\ index \in Nat /\ index < Cardinality(S)
          /\ DOMAIN order' = DOMAIN order /\ Distinct(order')
          /\ \A q \in S : order'[q] = Place(ids, S, p, index, q)
      BY <1>1, CommitsCommit, DragCommits
    <2> HIDE DEF ids, p, index, S
    <2>2. /\ \A q \in S : g[q] \in Nat /\ g[q] < Cardinality(S)
          /\ \A q, t \in S : g[q] = g[t] => q = t
          /\ g[p] = index
      BY <2>1, PlacesFit
    <2>3. Cardinality(S) \in Nat
      BY <2>1, FS_CardinalityType
    <2>4. g \in [S -> 0 .. Cardinality(S) - 1] /\ \A q \in S : order'[q] = g[q]
      BY <2>1, <2>2, <2>3
    <2> HIDE DEF g
    <2>5. Cardinality({q \in S : g[q] < g[p]}) = index
      BY <2>1, <2>2, <2>4, NumberIsRank
    <2>6. \A q \in DOMAIN order' : order'[q] \in Nat
      <3>1. OrderTypeOK'
        BY <1>1, StepOrder DEF OrderInv
      <3> QED BY <3>1 DEF OrderTypeOK
    <2>7. ASSUME NEW q \in DOMAIN order', order'[q] < order'[p]
          PROVE  q \in S
      <3>1. order'[q] \in 0 .. Cardinality(S) - 1
        BY <2>1, <2>2, <2>3, <2>4, <2>6, <2>7
      <3>2. PICK t \in S : g[t] = order'[q]
        BY <2>1, <2>2, <2>4, <3>1, NumbersAreAll
      <3>3. order'[t] = order'[q] /\ t \in DOMAIN order'
        BY <2>1, <2>4, <3>2
      <3>4. t = q
        BY <2>1, <2>7, <3>3 DEF Distinct
      <3> QED BY <3>2, <3>4
    <2>8. {q \in DOMAIN order' : order'[q] < order'[p]} = {q \in S : g[q] < g[p]}
      BY <2>1, <2>4, <2>7
    <2>9. Position(p, order') = index
      BY <2>5, <2>8 DEF Position
    <2> QED BY <2>9 DEF p, index
  <1>2. OrderInv /\ [OrderNext]_ordering =>
            [\A e \in Edits :
                Commits(e) /\ edit[e].op = "drag" /\ edit[e].phase \in DOMAIN order =>
                    Position(edit[e].phase, order') = edit[e].index]_ordering
    BY <1>1
  <1> QED BY <1>2, OrderInvariant, PTL DEF OrderSpec, DragLands

\* The siblings of a phase that is dragged keep the order in which the drag had listed them.
THEOREM DragsKeepOthers == OrderSpec => DragMovesOnlyItsPhase
  <1>1. ASSUME OrderInv, OrderNext, NEW e \in Edits, Commits(e), edit[e].op = "drag",
               NEW p \in (ToSet(edit[e].ids) \cap DOMAIN order) \ {edit[e].phase},
               NEW q \in (ToSet(edit[e].ids) \cap DOMAIN order) \ {edit[e].phase},
               IndexOf(edit[e].ids, p) < IndexOf(edit[e].ids, q)
        PROVE  order'[p] < order'[q]
    <2> DEFINE ids == edit[e].ids
               own == edit[e].phase
               index == edit[e].index
               S == held[e]
    <2>1. /\ ids \in Seq(Ids) /\ \A i, j \in DOMAIN ids : ids[i] = ids[j] => i = j
          /\ IsFiniteSet(S) /\ S \subseteq ToSet(ids)
          /\ p \in S \ {own} /\ q \in S \ {own} /\ index \in Nat /\ index < Cardinality(S)
          /\ \A x \in S : order'[x] = Place(ids, S, own, index, x)
      BY <1>1, CommitsCommit, DragCommits
    <2>2. IndexOf(ids, p) < IndexOf(ids, q)
      BY <1>1
    <2> HIDE DEF ids, own, index, S
    <2>3. Place(ids, S, own, index, p) < Place(ids, S, own, index, q)
      BY <2>1, <2>2, PlacesFit
    <2> QED BY <2>1, <2>3
  <1>2. OrderInv /\ [OrderNext]_ordering =>
            [\A e \in Edits :
                LET ids    == edit[e].ids
                    others == (ToSet(ids) \cap DOMAIN order) \ {edit[e].phase}
                IN Commits(e) /\ edit[e].op = "drag" =>
                    \A p, q \in others :
                       IndexOf(ids, p) < IndexOf(ids, q) => order'[p] < order'[q]]_ordering
    BY <1>1
  <1> QED BY <1>2, OrderInvariant, PTL DEF OrderSpec, DragMovesOnlyItsPhase
=============================================================================
