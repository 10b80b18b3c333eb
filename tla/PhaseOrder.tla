----------------------------- MODULE PhaseOrder -----------------------------
(***************************************************************************)
(* The order of the phases of one project: phases are appended, swapped    *)
(* with a neighbour, dragged to an index and deleted by admins who work at *)
(* the same time (domain/phases/service.js, domain/phases/repo.js).        *)
(*                                                                         *)
(* An operation is a transaction: it reads, then locks the rows it writes  *)
(* one after the other, and its writes become visible when it commits.     *)
(* The uniqueness of (project_id, display_order) is DEFERRABLE INITIALLY   *)
(* DEFERRED, so it is checked at commit.  PostgreSQL makes that check wait *)
(* for a writer of the same value that has not ended; here the one that    *)
(* would wait simply commits later.  Labels, statuses and dates of phases  *)
(* are left out.                                                           *)
(***************************************************************************)
EXTENDS Integers, FiniteSets, SequencesExt

CONSTANTS
    Ids,        \* identifiers of phases, each used once
    Initial,    \* the phases that exist at first
    Operations, \* what the admins do: "create", "swap", "drag", "delete"
    Edits,      \* the requests, of one operation each
    Gap         \* STATUS_GAP (100 in the code), more than a project's phases

PhaseOrderAssumption ==
    /\ IsFiniteSet(Ids)
    /\ Initial \subseteq Ids
    /\ Operations \subseteq {"create", "swap", "drag", "delete"}
    /\ Gap \in Nat
    /\ Gap > Cardinality(Ids)

ASSUME PhaseOrderAssumption

VARIABLES
    order,      \* display_order of the committed rows, a function on their ids
    unborn,     \* identifiers not used yet
    edit,       \* edit[e]: the operation e is in the middle of
    todo,       \* todo[e]: rows it has still to lock, in order
    held,       \* held[e]: rows it has locked
    goal,       \* goal[e]: what it writes into rows it has locked
    crossed     \* history: swaps begun before a drag, a deletion or a swap that
                \* was itself crossed committed

ordering == <<order, unborn, edit, todo, held, goal, crossed>>

-----------------------------------------------------------------------------
Editing ==
    [op : {"idle", "done"}]
        \cup [op : {"create"}, phase : Ids, at : Nat]
        \cup [op : {"swap"}, step : {"found", "listed"}, phase : Ids, at : Nat,
              by : {0, 2}]
        \cup [op : {"drag"}, step : {"found", "listed", "numbered"}, phase : Ids,
              index : Nat, ids : Seq(Ids)]
        \cup [op : {"delete"}, phase : Ids]

NotBegun == [op |-> "idle"]
Done == [op |-> "done"]
Nothing == <<>>

Begin(e, operation) ==
    /\ operation.op \in Operations
    /\ edit[e] = NotBegun
    /\ edit' = [edit EXCEPT ![e] = operation]
Finish(e) ==
    /\ edit' = [edit EXCEPT ![e] = Done]
    /\ todo' = [todo EXCEPT ![e] = <<>>]
    /\ held' = [held EXCEPT ![e] = {}]
    /\ goal' = [goal EXCEPT ![e] = Nothing]

\* Those e crosses when it commits.
Crossing(e) ==
    IF edit[e].op \in {"drag", "delete"} \/ e \in crossed
    THEN {x \in Edits : edit[x].op = "swap"}
    ELSE crossed

\* listPhasesByProject: the committed rows by display_order.
Listed ==
    CHOOSE s \in SetToSeqs(DOMAIN order) :
        \A i, j \in DOMAIN s : i < j => order[s[i]] < order[s[j]]

\* Array.prototype.findIndex, from one; 0 stands for -1.
IndexOf(s, p) == IF p \in ToSet(s) THEN CHOOSE i \in DOMAIN s : s[i] = p ELSE 0

\* findMaxDisplayOrder.
MaxOrder == IF DOMAIN order = {} THEN 0 ELSE Max({order[p] : p \in DOMAIN order})

Locked(p) == \E e \in Edits : p \in held[e]

\* The rows of the project once e has committed.
Born(e) == IF edit[e].op = "create" THEN {edit[e].phase} ELSE {}
Dead(e) == IF edit[e].op = "delete" THEN held[e] ELSE {}
Result(e) ==
    [p \in (DOMAIN order \cup Born(e)) \ Dead(e) |->
        IF p \in DOMAIN goal[e] /\ p \in held[e] \cup Born(e) THEN goal[e][p] ELSE order[p]]

Distinct(f) == \A p, q \in DOMAIN f : f[p] = f[q] => p = q

\* e has done all it does before it commits.
Ready(e) ==
    /\ todo[e] = <<>>
    /\ \/ edit[e].op = "create"
       \/ edit[e].op = "swap" /\ edit[e].step = "listed"
       \/ edit[e].op = "drag" /\ edit[e].step = "numbered"
       \/ edit[e].op = "delete"
-----------------------------------------------------------------------------
OrderInit ==
    /\ order \in [Initial -> {Gap * n : n \in 1 .. Cardinality(Initial)}]
    /\ Distinct(order)
    /\ unborn = Ids \ Initial
    /\ edit = [e \in Edits |-> NotBegun]
    /\ todo = [e \in Edits |-> <<>>]
    /\ held = [e \in Edits |-> {}]
    /\ goal = [e \in Edits |-> Nothing]
    /\ crossed = {}

\* create reads the largest display_order and inserts a row behind it.
Create(e, p) ==
    /\ p \in unborn
    /\ Begin(e, [op |-> "create", phase |-> p, at |-> MaxOrder + Gap])
    /\ unborn' = unborn \ {p}
    /\ goal' = [goal EXCEPT ![e] = [q \in {p} |-> MaxOrder + Gap]]
    /\ UNCHANGED <<order, todo, held, crossed>>

\* reorder reads the phase ...
FindToSwap(e, p, by) ==
    /\ p \in DOMAIN order
    /\ Begin(e, [op |-> "swap", step |-> "found", phase |-> p, at |-> order[p], by |-> by])
    /\ UNCHANGED <<order, unborn, todo, held, goal, crossed>>

\* The updates of a swap: p gets n, and q what p had.
Updates(p, q, n, at) == [x \in {p, q} |-> IF x = p THEN n ELSE at]

\* ... then the whole list, and plans two updates: the phase takes the order
\* of the row before (by = 0) or after it (by = 2), which takes the one the
\* phase had.  A phase deleted in between has index -1, whose next is the first.
ListToSwap(e) ==
    /\ edit[e].op = "swap" /\ edit[e].step = "found"
    /\ LET p    == edit[e].phase
           swap == IndexOf(Listed, p) + edit[e].by - 1
           q    == Listed[swap]
       IN /\ swap \in DOMAIN Listed
          /\ edit' = [edit EXCEPT ![e].step = "listed"]
          /\ todo' = [todo EXCEPT ![e] = <<p, q>>]
          /\ goal' = [goal EXCEPT ![e] = Updates(p, q, order[q], edit[e].at)]
    /\ UNCHANGED <<order, unborn, held, crossed>>

\* setPhaseOrder reads the phase ...
FindToDrag(e, p, index) ==
    /\ p \in DOMAIN order
    /\ Begin(e, [op |-> "drag", step |-> "found", phase |-> p, index |-> index, ids |-> <<>>])
    /\ UNCHANGED <<order, unborn, todo, held, goal, crossed>>

\* Slip: the siblings are listed without FOR UPDATE.
ListUnlocked(e) ==
    /\ edit[e].op = "drag" /\ edit[e].step = "found"
    /\ edit' = [edit EXCEPT ![e].step = "listed", ![e].ids = Listed]
    /\ UNCHANGED <<order, unborn, todo, held, goal, crossed>>

\* ... and lists its siblings FOR UPDATE: the statement sorts the rows it sees
\* when it starts and then waits for each of them.
ListToDrag(e) ==
    /\ edit[e].op = "drag" /\ edit[e].step = "found"
    /\ edit' = [edit EXCEPT ![e].step = "listed", ![e].ids = Listed]
    /\ todo' = [todo EXCEPT ![e] = Listed]
    /\ UNCHANGED <<order, unborn, held, goal, crossed>>

\* How many of S are before q in the list.
Before(ids, S, q) == Cardinality({x \in S : IndexOf(ids, x) < IndexOf(ids, q)})

\* Slip: the phase changes places with the one at its index.
PlaceSwapped(ids, S, p, index, q) ==
    LET n == Before(ids, S, q)
    IN IF q = p THEN index ELSE IF n = index THEN Before(ids, S, p) ELSE n

\* filter and splice: the place of q among the rows S, as listed but for p, which goes
\* to the index.
Place(ids, S, p, index, q) ==
    LET n == Before(ids, S \ {p}, q)
    IN IF q = p THEN index ELSE n + (IF n < index THEN 0 ELSE 1)

\* The rows that still exist are numbered from 0 in that order, the phase at
\* its index.  An index beyond them is refused.
Number(e) ==
    /\ edit[e].op = "drag" /\ edit[e].step = "listed"
    /\ todo[e] = <<>>
    /\ LET ids      == edit[e].ids
           siblings == ToSet(ids) \cap DOMAIN order
           index    == edit[e].index
       IN /\ index < Cardinality(siblings)
          /\ edit' = [edit EXCEPT ![e].step = "numbered"]
          /\ held' = [held EXCEPT ![e] = @ \cup siblings]
          /\ goal' = [goal EXCEPT ![e] =
                [q \in siblings |-> Place(ids, siblings, edit[e].phase, index, q)]]
    /\ UNCHANGED <<order, unborn, todo, crossed>>

\* delete reads the phase and deletes it.
FindToDelete(e, p) ==
    /\ p \in DOMAIN order
    /\ Begin(e, [op |-> "delete", phase |-> p])
    /\ todo' = [todo EXCEPT ![e] = <<p>>]
    /\ UNCHANGED <<order, unborn, held, goal, crossed>>

\* The next row is free and locked; a row that has gone is passed over.
Lock(e) ==
    /\ todo[e] # <<>>
    /\ LET p == Head(todo[e]) IN
          /\ Locked(p) => p \in held[e]
          /\ held' = [held EXCEPT ![e] = IF p \in DOMAIN order THEN @ \cup {p} ELSE @]
    /\ todo' = [todo EXCEPT ![e] = Tail(@)]
    /\ UNCHANGED <<order, unborn, edit, goal, crossed>>

\* Slip: no constraint on (project_id, display_order).
CommitUnchecked(e) ==
    /\ Ready(e)
    /\ order' = Result(e)
    /\ crossed' = Crossing(e) \ {e}
    /\ Finish(e)
    /\ UNCHANGED unborn

\* Commit, with the deferred check of the constraint.
Commit(e) ==
    /\ Ready(e)
    /\ Distinct(Result(e))
    /\ order' = Result(e)
    /\ crossed' = Crossing(e) \ {e}
    /\ Finish(e)
    /\ UNCHANGED unborn

\* The check fails, an error is thrown, a deadlock or a failure undoes the
\* transaction.
Undo(e) ==
    /\ edit[e] \notin {NotBegun, Done}
    /\ crossed' = crossed \ {e}
    /\ Finish(e)
    /\ UNCHANGED <<order, unborn>>

OrderNext ==
    \E e \in Edits :
        \/ \E p \in Ids :
              \/ Create(e, p)
              \/ \E by \in {0, 2} : FindToSwap(e, p, by)
              \/ \E index \in 0 .. Cardinality(Ids) - 1 : FindToDrag(e, p, index)
              \/ FindToDelete(e, p)
        \/ ListToSwap(e) \/ ListToDrag(e) \/ Number(e)
        \/ Lock(e)
        \/ Commit(e)
        \/ Undo(e)

OrderSpec == OrderInit /\ [][OrderNext]_ordering
-----------------------------------------------------------------------------
OrderTypeOK ==
    /\ DOMAIN order \subseteq Ids
    /\ order \in [DOMAIN order -> Nat]
    /\ unborn \subseteq Ids
    /\ edit \in [Edits -> Editing]
    /\ todo \in [Edits -> Seq(Ids)]
    /\ held \in [Edits -> SUBSET Ids]
    /\ goal = [e \in Edits |-> goal[e]]
    /\ \A e \in Edits : goal[e] \in [DOMAIN goal[e] -> Nat]
    /\ crossed \subseteq Edits

\* How many phases come before p.
Position(p, f) == Cardinality({q \in DOMAIN f : f[q] < f[p]})

\* e commits a change of the order.
Commits(e) == edit[e] # Done /\ edit'[e] = Done /\ order' # order

\* A drag puts its phase at the index the admin dropped it on, whatever was
\* created, swapped, dragged or deleted while it waited for its locks.
DragLands ==
    [][\A e \in Edits :
          Commits(e) /\ edit[e].op = "drag" /\ edit[e].phase \in DOMAIN order =>
              Position(edit[e].phase, order') = edit[e].index]_ordering

\* "Lock siblings to serialise concurrent drag operations" (phases/service.js): a
\* drag moves its own phase among those it listed, and leaves the others in the order
\* of its list.  So two others trade places when it commits only if they had traded
\* places after it sorted its list, while it waited for the rows.
DragMovesOnlyItsPhase ==
    [][\A e \in Edits :
          LET ids    == edit[e].ids
              others == (ToSet(ids) \cap DOMAIN order) \ {edit[e].phase}
          IN Commits(e) /\ edit[e].op = "drag" =>
              \A p, q \in others :
                 IndexOf(ids, p) < IndexOf(ids, q) => order'[p] < order'[q]]_ordering

\* A swap exchanges the orders of two phases and moves no other, though it read them
\* without locks and writes the numbers it read, whatever was appended and swapped in
\* between: a swap whose numbers have come to be of another phase is refused at its
\* commit.  One that a drag or a deletion crossed may write numbers nobody has any more.
SwapsTradePlaces ==
    [][\A e \in Edits \ crossed :
          Commits(e) /\ edit[e].op = "swap" =>
              \E p, q \in DOMAIN order :
                 /\ p # q /\ DOMAIN goal[e] = {p, q}
                 /\ order' = [order EXCEPT ![p] = order[q], ![q] = order[p]]]_ordering

\* Why this holds.  An identifier is used once, so that a phase that is listed stays or
\* is gone for good; rows are locked by one request, and stay while they are; a drag has
\* locked what there is of the rows it has listed, and numbers these.
Gone(p) ==
    /\ p \notin DOMAIN order \cup unborn
    /\ \A e \in Edits : edit[e].op = "create" => edit[e].phase # p
Known(p) == p \in DOMAIN order \/ Gone(p)

BirthsAreNew ==
    /\ unborn \cap DOMAIN order = {}
    /\ \A e \in Edits : edit[e].op = "create" =>
          /\ edit[e].phase \notin unborn \cup DOMAIN order
          /\ DOMAIN goal[e] = {edit[e].phase}
          /\ \A f \in Edits \ {e} : edit[f].op = "create" => edit[f].phase # edit[e].phase
LocksAreHeld ==
    /\ \A e \in Edits : held[e] \subseteq DOMAIN order
    /\ \A e, f \in Edits : e # f => held[e] \cap held[f] = {}
RestingHoldNothing ==
    \A e \in Edits : edit[e].op \in {"idle", "done"} => held[e] = {} /\ todo[e] = <<>>

DragIsListed(e) ==
    LET ids == edit[e].ids
    IN /\ Known(edit[e].phase)
       /\ edit[e].step = "found" => ids = <<>> /\ held[e] = {} /\ todo[e] = <<>>
       /\ edit[e].step # "found" =>
             /\ \A i, j \in DOMAIN ids : ids[i] = ids[j] => i = j
             /\ edit[e].phase \in ToSet(ids) \/ Gone(edit[e].phase)
             /\ held[e] \cup ToSet(todo[e]) \subseteq ToSet(ids)
             /\ \A p \in ToSet(ids) :
                   Known(p) /\ (p \in held[e] \cup ToSet(todo[e]) \/ Gone(p))
       /\ edit[e].step = "numbered" =>
             /\ todo[e] = <<>>
             /\ edit[e].index < Cardinality(held[e])
             /\ goal[e] = [q \in held[e] |->
                              Place(ids, held[e], edit[e].phase, edit[e].index, q)]
DragsAreListed == \A e \in Edits : edit[e].op = "drag" => DragIsListed(e)

\* A swap that is not crossed writes numbers that are still there into phases that are.
Taken == {order[p] : p \in DOMAIN order}
SwapIsApt(e) ==
    LET p == edit[e].phase
    IN /\ p \in DOMAIN order
       /\ edit[e].at \in Taken
       /\ edit[e].step = "listed" =>
             \E q \in DOMAIN order \ {p}, n \in Taken :
                /\ goal[e] = Updates(p, q, n, edit[e].at)
                /\ {p, q} \subseteq held[e] \cup ToSet(todo[e])
SwapsAreApt == \A e \in Edits \ crossed : edit[e].op = "swap" => SwapIsApt(e)

OrderInv ==
    /\ OrderTypeOK /\ Distinct(order)
    /\ BirthsAreNew /\ LocksAreHeld /\ RestingHoldNothing /\ DragsAreListed
=============================================================================
