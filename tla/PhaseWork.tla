------------------------------ MODULE PhaseWork ------------------------------
(***************************************************************************)
(* What is done to the phases of a project and to their checklists, and    *)
(* what the customer is told of it: status, dates, visibility, deletion    *)
(* (domain/phases/service.js, domain/phase-checklists/service.js and their *)
(* routes).  The order of the phases is the module PhaseOrder's.           *)
(*                                                                         *)
(* No operation locks what it reads.  A request reads its rows, one after  *)
(* the other, and later writes and commits; what it writes and tells comes *)
(* from the rows as they were read.  Every operation on a phase reads the  *)
(* same rows, and so does every operation on an item: which one it is      *)
(* shows when it commits.  Labels, done marks and the order of items are   *)
(* left out: they are told of, and nothing depends on them.                *)
(***************************************************************************)

CONSTANTS
    Phases,     \* phases of the project
    Items,      \* checklist items, each created once
    Requests    \* requests that may be in flight together

VARIABLES
    phase,      \* phase[p]: the committed project_phases row
    item,       \* item[i]: the committed phase_checklist_items row
    req,        \* req[r]: the rows r has read
    news,       \* history: what the last step announced, and what r could see
    trail,      \* history: trail[p] is the status announced last
    typed,      \* history: the phases whose dates have been typed
    stale,      \* history: the phases whose status a typist wrote back over a newer one
    used,       \* history: the items there have been
    seen        \* history: what the customer could see at some moment of a request

rows    == <<phase, item>>
history == <<trail, typed, stale, used>>
vars    == <<rows, req, news, history, seen>>
-----------------------------------------------------------------------------
Statuses == {"not_started", "in_progress", "blocked", "done"}
\* No date, the time of a change of status, or one that an admin typed.
Dates    == {"none", "stamp", "typed"}
PhaseRow == [status : Statuses, started : Dates, completed : Dates]
ItemRow  == [phase : Phases, visible : BOOLEAN]
NoRow    == [none |-> TRUE]

Idle == [at |-> "idle"]
Reading ==
    {Idle}
        \cup [at : {"phase"}, phase : Phases, row : PhaseRow]
        \cup [at : {"item"}, item : Items, found : ItemRow]
        \cup [at : {"parent"}, item : Items, found : ItemRow, row : PhaseRow]

End(r) == req' = [req EXCEPT ![r] = Idle]

PhaseVisible(status) == status \in {"in_progress", "blocked", "done"}
\* Slip: whether the phase has begun is forgotten.
ItemVisibleAlone(visible, status) == visible
ItemVisible(visible, status) == visible /\ PhaseVisible(status)

\* What the customer's page shows.
PhaseShown(row) == row # NoRow /\ PhaseVisible(row.status)
ItemShown(row)  == row # NoRow /\ row.visible

NoNews == [by |-> "nobody"]
\* Audit row and fan-out, committed with the operation: admins always get to
\* know, the customer if the operation says so.
Announce(r, by, toCustomer) ==
    news' = [by |-> by, toCustomer |-> toCustomer, seen |-> seen[r]]
-----------------------------------------------------------------------------
Init ==
    /\ phase = [p \in Phases |->
                   [status |-> "not_started", started |-> "none", completed |-> "none"]]
    /\ item = [i \in Items |-> NoRow]
    /\ req = [r \in Requests |-> Idle]
    /\ news = NoNews
    /\ trail = [p \in Phases |-> "not_started"]
    /\ typed = {}
    /\ stale = {}
    /\ used = {}
    /\ seen = [r \in Requests |-> [phase |-> FALSE, item |-> FALSE]]

(***************************************************************************)
(* Phases.  The route has found the phase, and the service reads it.       *)
(***************************************************************************)
FindPhase(r, p) ==
    /\ req[r] = Idle
    /\ phase[p] # NoRow
    /\ req' = [req EXCEPT ![r] = [at |-> "phase", phase |-> p, row |-> phase[p]]]
    /\ news' = NoNews
    /\ UNCHANGED <<rows, history>>

\* An UPDATE finds no row if the phase was deleted meanwhile, and says nothing.
Write(p, row) == phase' = IF phase[p] = NoRow THEN phase ELSE [phase EXCEPT ![p] = row]

Rename(r) ==
    /\ req[r].at = "phase"
    /\ Announce(r, "rename", PhaseVisible(req[r].row.status))
    /\ End(r)
    /\ UNCHANGED <<rows, history>>

\* Slip: the start is stamped at every beginning.
RestampedRow(row, new) ==
    [status    |-> new,
     started   |-> CASE new = "in_progress" -> "stamp"
                     [] new = "not_started" -> "none"
                     [] OTHER -> row.started,
     completed |-> IF new = "done"
                   THEN IF row.completed = "none" THEN "stamp" ELSE row.completed
                   ELSE "none"]

\* Slip: a phase that is taken up again keeps the date of its completion.
UnclearedRow(row, new) ==
    [status    |-> new,
     started   |-> CASE new = "in_progress" /\ row.started = "none" -> "stamp"
                     [] new = "not_started" -> "none"
                     [] OTHER -> row.started,
     completed |-> CASE new = "done" /\ row.completed = "none" -> "stamp"
                     [] new = "not_started" -> "none"
                     [] OTHER -> row.completed]

\* A date that is there is kept, as far as the status admits one.
ChangedRow(row, new) ==
    [status    |-> new,
     started   |-> CASE new = "in_progress" /\ row.started = "none" -> "stamp"
                     [] new = "not_started" -> "none"
                     [] OTHER -> row.started,
     completed |-> IF new = "done"
                   THEN IF row.completed = "none" THEN "stamp" ELSE row.completed
                   ELSE "none"]

\* A phase that has the status already is left alone.
ChangeStatus(r, new) ==
    /\ req[r].at = "phase"
    /\ req[r].row.status # new
    /\ Write(req[r].phase, ChangedRow(req[r].row, new))
    /\ trail' = [trail EXCEPT ![req[r].phase] = new]
    /\ Announce(r, "status", PhaseVisible(new))
    /\ stale' = stale \ {req[r].phase}
    /\ End(r)
    /\ UNCHANGED <<item, typed, used>>

\* Slip: the form's dates are written with the column's default for the status.
SetDatesDefaulting(r, started, completed) ==
    /\ req[r].at = "phase"
    /\ LET p == req[r].phase IN
          /\ Write(p, [status |-> "not_started", started |-> started, completed |-> completed])
          /\ typed' = typed \cup {p}
          /\ stale' = IF phase[p] # NoRow /\ phase[p].status # req[r].row.status
                      THEN stale \cup {p} ELSE stale
    /\ news' = NoNews
    /\ End(r)
    /\ UNCHANGED <<item, trail, used>>

\* The status is written back as it was read; an empty field clears the date.
\* Nobody is told.
SetDates(r, started, completed) ==
    /\ req[r].at = "phase"
    /\ LET p == req[r].phase IN
          /\ Write(p, [status |-> req[r].row.status, started |-> started,
                       completed |-> completed])
          /\ typed' = typed \cup {p}
          /\ stale' = IF phase[p] # NoRow /\ phase[p].status # req[r].row.status
                      THEN stale \cup {p} ELSE stale
    /\ news' = NoNews
    /\ End(r)
    /\ UNCHANGED <<item, trail, used>>

\* The phase's items go with it.
DeletePhase(r) ==
    /\ req[r].at = "phase"
    /\ phase' = [phase EXCEPT ![req[r].phase] = NoRow]
    /\ item' = [i \in Items |->
          IF item[i] # NoRow /\ item[i].phase = req[r].phase THEN NoRow ELSE item[i]]
    /\ Announce(r, "delete", PhaseVisible(req[r].row.status))
    /\ End(r)
    /\ UNCHANGED history

(***************************************************************************)
(* Checklist items.  The item is read, then the phase it belongs to.       *)
(***************************************************************************)

\* The foreign key refuses a phase that was deleted meanwhile.
CreateItem(r, i, visible) ==
    /\ req[r].at = "phase"
    /\ i \notin used
    /\ phase[req[r].phase] # NoRow
    /\ item' = [item EXCEPT ![i] = [phase |-> req[r].phase, visible |-> visible]]
    /\ used' = used \cup {i}
    /\ news' = [by |-> "create item",
                toCustomer |-> ItemVisible(visible, req[r].row.status),
                seen |-> [seen[r] EXCEPT !.item = visible]]
    /\ End(r)
    /\ UNCHANGED <<phase, trail, typed, stale>>

FindItem(r, i) ==
    /\ req[r] = Idle
    /\ item[i] # NoRow
    /\ req' = [req EXCEPT ![r] = [at |-> "item", item |-> i, found |-> item[i]]]
    /\ news' = NoNews
    /\ UNCHANGED <<rows, history>>

FindParent(r) ==
    /\ req[r].at = "item"
    /\ phase[req[r].found.phase] # NoRow
    /\ req' = [req EXCEPT ![r] = [at |-> "parent", item |-> req[r].item,
                                  found |-> req[r].found,
                                  row |-> phase[req[r].found.phase]]]
    /\ news' = NoNews
    /\ UNCHANGED <<rows, history>>

RenameItem(r) ==
    /\ req[r].at = "parent"
    /\ Announce(r, "rename item", ItemVisible(req[r].found.visible, req[r].row.status))
    /\ End(r)
    /\ UNCHANGED <<rows, history>>

\* Only admins are told that an item was hidden or shown.
SetVisibility(r, show) ==
    /\ req[r].at = "parent"
    /\ item' = IF item[req[r].item] = NoRow THEN item
               ELSE [item EXCEPT ![req[r].item].visible = show]
    /\ Announce(r, "visibility", FALSE)
    /\ End(r)
    /\ UNCHANGED <<phase, history>>

ToggleDone(r) ==
    /\ req[r].at = "parent"
    /\ Announce(r, "toggle", ItemVisible(req[r].found.visible, req[r].row.status))
    /\ End(r)
    /\ UNCHANGED <<rows, history>>

DeleteItem(r) ==
    /\ req[r].at = "parent"
    /\ item' = [item EXCEPT ![req[r].item] = NoRow]
    /\ Announce(r, "delete item", ItemVisible(req[r].found.visible, req[r].row.status))
    /\ End(r)
    /\ UNCHANGED <<phase, history>>

\* A check fails, a constraint refuses the write, the process stops.
Abort(r) ==
    /\ req[r] # Idle
    /\ End(r)
    /\ news' = NoNews
    /\ UNCHANGED <<rows, history>>

(***************************************************************************)
(* History: the phase and the item of a request, if they were shown at any *)
(* moment from its first read on.                                          *)
(***************************************************************************)
PhaseOf(reading) == IF reading.at = "phase" THEN reading.phase ELSE reading.found.phase

Watched(before, reading) ==
    IF reading = Idle THEN [phase |-> FALSE, item |-> FALSE]
    ELSE [phase |-> \/ before.phase
                    \/ PhaseShown(phase[PhaseOf(reading)])
                    \/ PhaseShown(phase'[PhaseOf(reading)]),
          item  |-> /\ reading.at # "phase"
                    /\ \/ before.item
                       \/ ItemShown(item[reading.item])
                       \/ ItemShown(item'[reading.item])]

Watch == seen' = [r \in Requests |-> Watched(seen[r], req'[r])]

\* What the routes let an admin send.
PhasePosts(r) ==
    \/ Rename(r)
    \/ \E new \in Statuses : ChangeStatus(r, new)
    \/ \E started, completed \in {"none", "typed"} : SetDates(r, started, completed)
ItemPosts(r) ==
    \/ \E i \in Items, visible \in BOOLEAN : CreateItem(r, i, visible)
    \/ RenameItem(r)
    \/ \E show \in BOOLEAN : SetVisibility(r, show)
    \/ ToggleDone(r)
    \/ DeleteItem(r)

Step ==
    \E r \in Requests :
        \/ \E p \in Phases : FindPhase(r, p)
        \/ PhasePosts(r) \/ DeletePhase(r)
        \/ \E i \in Items : FindItem(r, i)
        \/ FindParent(r) \/ ItemPosts(r)
        \/ Abort(r)

Next == Step /\ Watch

Spec == Init /\ [][Next]_vars
-----------------------------------------------------------------------------
Seen == [phase : BOOLEAN, item : BOOLEAN]
Operation == {"rename", "status", "delete", "create item", "rename item", "visibility",
              "toggle", "delete item"}

TypeOK ==
    /\ phase \in [Phases -> PhaseRow \cup {NoRow}]
    /\ item \in [Items -> ItemRow \cup {NoRow}]
    /\ req \in [Requests -> Reading]
    /\ news \in {NoNews} \cup [by : Operation, toCustomer : BOOLEAN, seen : Seen]
    /\ trail \in [Phases -> Statuses]
    /\ typed \subseteq Phases
    /\ stale \subseteq Phases
    /\ used \subseteq Items
    /\ seen \in [Requests -> Seen]

\* A row whose dates agree with its status: completed by a stamp only when done,
\* started by one only when begun, and a date missing only if an admin removed it.
DatesAgree(p, row) ==
    /\ row.completed = "stamp" => row.status = "done"
    /\ row.started = "stamp" => row.status # "not_started"
    /\ row.status = "done" /\ row.completed = "none" => p \in typed
    /\ row.status = "in_progress" /\ row.started = "none" => p \in typed

\* Whatever admins do at the same time, and whichever rows they had read, the dates
\* of a phase agree with its status (changeStatus and setPhaseDates write back what
\* they read without a lock).
DatesFollowStatus ==
    \A p \in Phases : phase[p] # NoRow => DatesAgree(p, phase[p])

\* The status is the one that was announced last, except where somebody typing
\* dates had read the phase before a change of status that committed first.
StatusIsAnnounced ==
    \A p \in Phases : phase[p] # NoRow =>
        phase[p].status = trail[p] \/ p \in stale

\* A typed date is replaced by a stamp only by a change of status that had read the
\* phase before the date was typed: otherwise "an explicit override wins".
OverrideWins ==
    [][\A p \in Phases, date \in {"started", "completed"} :
          phase[p] # NoRow /\ phase'[p] # NoRow =>
              (phase[p][date] = "typed" /\ phase'[p][date] = "stamp" =>
                  \E r \in Requests : /\ req[r].at = "phase" /\ req'[r] = Idle
                                      /\ req[r].phase = p /\ req[r].row[date] # "typed")]_vars

\* The customer is told nothing of a phase that had not begun, or of an item that
\* was hidden, all the time from the first read of the request to its commit.
HiddenStaysHidden ==
    news # NoNews /\ news.toCustomer =>
        /\ news.by # "status" => news.seen.phase
        /\ news.by \in {"create item", "rename item", "visibility", "toggle", "delete item"} =>
              news.seen.item

\* Why these hold.  The rows a request works with agreed with each other when they
\* were committed, and the customer could see of them what they let one see.
ReadsAgree ==
    \A r \in Requests : req[r].at = "phase" => DatesAgree(req[r].phase, req[r].row)
ReadsWereSeen ==
    \A r \in Requests :
        /\ req[r].at \in {"phase", "parent"} /\ PhaseVisible(req[r].row.status) => seen[r].phase
        /\ req[r].at \in {"item", "parent"} /\ req[r].found.visible => seen[r].item

WorkInv ==
    /\ TypeOK
    /\ DatesFollowStatus
    /\ ReadsAgree
    /\ StatusIsAnnounced
    /\ ReadsWereSeen
    /\ HiddenStaysHidden
=============================================================================
