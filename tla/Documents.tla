------------------------------ MODULE Documents ------------------------------
(***************************************************************************)
(* The documents of one customer and what is made of them: a file on disk  *)
(* and a row in the table, invoices, NDAs with their signed copies and the *)
(* gate that the first signed NDA opens (domain/documents/service.js,      *)
(* domain/ndas/service.js, domain/invoices/service.js create, and the      *)
(* routes that call two of them in a row).                                 *)
(*                                                                         *)
(* A document identifier stands for the request that stores it as well.    *)
(* Sizes are small integers; names, types and contents are left out, and   *)
(* with them the checks that only reject them.                             *)
(***************************************************************************)
EXTENDS Integers, FiniteSets, Functions

CONSTANTS
    Docs,           \* documents, each stored by one request
    Ndas,           \* NDAs
    Sizes,          \* how large a document may be
    Quota,          \* MAX_CUSTOMER_BYTES
    MaxInFlight     \* bound on the requests under way at a time

DocumentsAssumption ==
    /\ IsFiniteSet(Docs)
    /\ Sizes \subseteq Nat
    /\ Quota \in Nat
    /\ MaxInFlight \in Nat \ {0}

ASSUME DocumentsAssumption

VARIABLES
    status,     \* customers.status
    gate,       \* whether customers.nda_signed_at is set
    row,        \* row[d]: the committed documents row
    nda,        \* nda[n]: the committed ndas row
    invoiced,   \* documents with a committed invoices row
    temp,       \* documents with a file at .tmp-<id>
    final,      \* documents with a file at storage_path
    up,         \* up[d]: where the request that stores d is
    stamps,     \* history: how often nda_signed_at was written
    lost        \* history: what became of requests that did not end in order

tables  == <<row, nda, invoiced>>
disk    == <<temp, final>>
vars == <<status, gate, tables, disk, up, stamps, lost>>

-----------------------------------------------------------------------------
\* What is made of a document.  plain: nothing, be its category generic or, for an
\* admin may upload any by itself, one of the others.
Categories == {"plain", "invoice", "nda-draft", "nda-signed", "nda-audit"}
NoRow == [category |-> "none", size |-> 0]

\* The slots of an NDA hold at most one document each.
Slots == {"draft", "signed", "audit"}
NoNda == [s \in Slots |-> {}]
SlotOf(category) ==
    CASE category = "nda-draft" -> "draft"
      [] category = "nda-signed" -> "signed"
      [] category = "nda-audit" -> "audit"

\* writing: the temporary file is there.  placed: renamed, no row yet.
\* inserted: the row is inserted and the customer held FOR UPDATE.  stored: the
\* row is committed, and the route has still to invoice or attach it, which it
\* does in a second transaction: invoicing; attaching, then stamped.
Steps == {"writing", "placed", "inserted", "stored", "invoicing", "attaching", "stamped"}
Running == [step : Steps, category : Categories, size : Sizes, nda : SUBSET Ndas,
            first : BOOLEAN]
Idle == [step |-> "idle"]
Done == [step |-> "done"]

InFlight == {d \in Docs : up[d].step \in Steps}
Go(d, step) == up' = [up EXCEPT ![d].step = step]
End(d) == up' = [up EXCEPT ![d] = Done]

Used == SumFunction([d \in Docs |-> row[d].size])

\* Who holds the customer's row, or that of an NDA, until it commits.
HoldsCustomer(d) ==
    \/ up[d].step \in {"inserted", "invoicing"}
    \/ up[d].step = "stamped" /\ up[d].first
HoldsNda(d, n) == up[d].step \in {"attaching", "stamped"} /\ n \in up[d].nda
CustomerLocked == \E d \in Docs : HoldsCustomer(d)
NdaLocked(n)   == \E d \in Docs : HoldsNda(d, n)
-----------------------------------------------------------------------------
Init ==
    /\ status = "active"
    /\ gate = FALSE
    /\ row = [d \in Docs |-> NoRow]
    /\ nda = [n \in Ndas |-> NoNda]
    /\ invoiced = {}
    /\ temp = {}
    /\ final = {}
    /\ up = [d \in Docs |-> Idle]
    /\ stamps = 0
    /\ lost = [crash |-> {}, write |-> {}, unlink |-> {}, answer |-> {}]

\* suspendCustomer, reactivateCustomer.
SetStatus(s) ==
    /\ ~CustomerLocked
    /\ status # s
    /\ status' = s
    /\ UNCHANGED <<gate, tables, disk, up, stamps, lost>>

(***************************************************************************)
(* Storing a document.                                                     *)
(***************************************************************************)

\* The NDA a document is uploaded for, or the one that is being drafted.
For(category) ==
    CASE category = "nda-draft" ->
            {{n} : n \in {x \in Ndas : nda[x] = NoNda /\ \A d \in InFlight : x \notin up[d].nda}}
      [] category \in {"nda-signed", "nda-audit"} ->
            {{n} : n \in {x \in Ndas : nda[x] # NoNda}}
      [] OTHER -> {{}}

\* uploadForCustomer and generateDraft check the customer, without a lock, and
\* write a temporary file; the draft has been rendered before.
Begin(d, category, size) ==
    /\ status = "active"
    /\ up[d] = Idle
    /\ Cardinality(InFlight) < MaxInFlight
    /\ \E n \in For(category) :
          up' = [up EXCEPT ![d] = [step |-> "writing", category |-> category,
                                   size |-> size, nda |-> n, first |-> FALSE]]
    /\ temp' = temp \cup {d}
    /\ UNCHANGED <<status, gate, tables, final, stamps, lost>>

\* Slip: the file is to be renamed when the row is committed.
PlaceLater(d) ==
    /\ up[d].step = "writing"
    /\ up[d].category # "nda-draft" => Used + up[d].size <= Quota
    /\ Go(d, "placed")
    /\ UNCHANGED <<status, gate, tables, disk, stamps, lost>>

\* An upload looks at the quota; then the file is renamed into place ...
Place(d) ==
    /\ up[d].step = "writing"
    /\ up[d].category # "nda-draft" => Used + up[d].size <= Quota
    /\ temp' = temp \ {d}
    /\ final' = final \cup {d}
    /\ Go(d, "placed")
    /\ UNCHANGED <<status, gate, tables, stamps, lost>>

\* Slip: the quota of the first look is relied on.
InsertUnlocked(d) ==
    /\ up[d].step = "placed"
    /\ status = "active"
    /\ Used + up[d].size <= Quota
    /\ Go(d, "inserted")
    /\ UNCHANGED <<status, gate, tables, disk, stamps, lost>>

\* ... and in a transaction the customer is locked, status and quota are looked
\* at again, and the row is inserted ...
Insert(d) ==
    /\ up[d].step = "placed"
    /\ ~CustomerLocked
    /\ status = "active"
    /\ Used + up[d].size <= Quota
    /\ Go(d, "inserted")
    /\ UNCHANGED <<status, gate, tables, disk, stamps, lost>>

\* ... with the NDA of a draft.
Store(d) ==
    /\ row' = [row EXCEPT ![d] = [category |-> up[d].category, size |-> up[d].size]]
    /\ nda' = [n \in Ndas |->
          IF up[d].category = "nda-draft" /\ n \in up[d].nda
          THEN [NoNda EXCEPT !["draft"] = {d}] ELSE nda[n]]
    /\ UNCHANGED <<status, gate, invoiced, stamps>>

\* The routes go on with invoices and copies of NDAs.
Commit(d) ==
    /\ up[d].step = "inserted"
    /\ Store(d)
    /\ IF up[d].category \in {"plain", "nda-draft"} THEN End(d) ELSE Go(d, "stored")
    /\ UNCHANGED <<disk, lost>>

\* The connection fails after the server has committed: the code takes it for a
\* failed transaction, and removes the file, if it can.
CommitUnanswered(d) ==
    /\ up[d].step = "inserted"
    /\ Store(d)
    /\ final' \in {final \ {d}, final}
    /\ End(d)
    /\ lost' = [lost EXCEPT !.answer = @ \cup {d}]
    /\ UNCHANGED temp

\* A check or a statement fails: what is open is rolled back, and a file whose
\* row is not committed is removed ...
Fail(d) ==
    /\ d \in InFlight
    /\ temp' = temp \ {d}
    /\ final' = IF up[d].step \in {"placed", "inserted"} THEN final \ {d} ELSE final
    /\ End(d)
    /\ UNCHANGED <<status, gate, tables, stamps, lost>>

\* ... unless that fails too: unlinkSafe goes on after any error.
UnlinkFails(d) ==
    /\ up[d].step \in {"writing", "placed", "inserted"}
    /\ End(d)
    /\ lost' = [lost EXCEPT !.unlink = @ \cup {d}]
    /\ UNCHANGED <<status, gate, tables, disk, stamps>>

\* generateDraft writes its file outside of any try: a write that fails half-way
\* leaves it.
DraftWriteFails(d) ==
    /\ up[d].step = "writing"
    /\ up[d].category = "nda-draft"
    /\ End(d)
    /\ lost' = [lost EXCEPT !.write = @ \cup {d}]
    /\ UNCHANGED <<status, gate, tables, disk, stamps>>

\* The server stops and is started again; nothing on disk is looked at.
Crash ==
    /\ InFlight # {}
    /\ up' = [d \in Docs |-> IF d \in InFlight THEN Done ELSE up[d]]
    /\ lost' = [lost EXCEPT !.crash = @ \cup InFlight]
    /\ UNCHANGED <<status, gate, tables, disk, stamps>>

(***************************************************************************)
(* Invoices and signed NDAs.                                               *)
(***************************************************************************)

\* Slip: the status of the upload is relied on.
InvoiceUnchecked(d) ==
    /\ up[d].step = "stored" /\ up[d].category = "invoice"
    /\ ~CustomerLocked
    /\ Go(d, "invoicing")
    /\ UNCHANGED <<status, gate, tables, disk, stamps, lost>>

\* invoices.create locks the customer, who must be active, and inserts.
Invoice(d) ==
    /\ up[d].step = "stored" /\ up[d].category = "invoice"
    /\ ~CustomerLocked
    /\ status = "active"
    /\ Go(d, "invoicing")
    /\ UNCHANGED <<status, gate, tables, disk, stamps, lost>>

CommitInvoice(d) ==
    /\ up[d].step = "invoicing"
    /\ invoiced' = invoiced \cup {d}
    /\ End(d)
    /\ UNCHANGED <<status, gate, row, nda, disk, stamps, lost>>

\* Slip: the NDA is read without FOR UPDATE.
AttachUnlocked(d) ==
    /\ up[d].step = "stored"
    /\ \E n \in up[d].nda : nda[n][SlotOf(up[d].category)] = {}
    /\ Go(d, "attaching")
    /\ UNCHANGED <<status, gate, tables, disk, stamps, lost>>

\* attachUploadedDocument locks the NDA, whose slot must be empty ...
Attach(d) ==
    /\ up[d].step = "stored"
    /\ \E n \in up[d].nda : nda[n][SlotOf(up[d].category)] = {} /\ ~NdaLocked(n)
    /\ Go(d, "attaching")
    /\ UNCHANGED <<status, gate, tables, disk, stamps, lost>>

\* Slip: the UPDATE has no WHERE nda_signed_at IS NULL.
StampAlways(d) ==
    /\ up[d].step = "attaching"
    /\ LET first == up[d].category = "nda-signed" IN
          /\ first => ~CustomerLocked
          /\ up' = [up EXCEPT ![d].step = "stamped", ![d].first = first]
    /\ UNCHANGED <<status, gate, tables, disk, stamps, lost>>

\* ... stamps the customer with the first signed copy, waiting for whoever holds
\* the row of a customer who has no stamp ...
Stamp(d) ==
    /\ up[d].step = "attaching"
    /\ LET first == up[d].category = "nda-signed" /\ ~gate IN
          /\ first => ~CustomerLocked
          /\ up' = [up EXCEPT ![d].step = "stamped", ![d].first = first]
    /\ UNCHANGED <<status, gate, tables, disk, stamps, lost>>

\* ... and fills the slot.
CommitAttach(d) ==
    /\ up[d].step = "stamped"
    /\ nda' = [n \in Ndas |->
          IF n \in up[d].nda THEN [nda[n] EXCEPT ![SlotOf(up[d].category)] = {d}] ELSE nda[n]]
    /\ gate' = (gate \/ up[d].first)
    /\ stamps' = IF up[d].first THEN stamps + 1 ELSE stamps
    /\ End(d)
    /\ UNCHANGED <<status, row, invoiced, disk, lost>>

Next ==
    \/ \E s \in {"active", "suspended"} : SetStatus(s)
    \/ \E d \in Docs :
          \/ \E category \in Categories, size \in Sizes : Begin(d, category, size)
          \/ Place(d) \/ Insert(d) \/ Commit(d) \/ CommitUnanswered(d)
          \/ Fail(d) \/ UnlinkFails(d) \/ DraftWriteFails(d)
          \/ Invoice(d) \/ CommitInvoice(d)
          \/ Attach(d) \/ Stamp(d) \/ CommitAttach(d)
    \/ Crash

Spec == Init /\ [][Next]_vars
-----------------------------------------------------------------------------
Stored == {d \in Docs : row[d] # NoRow}

TypeOK ==
    /\ status \in {"active", "suspended"}
    /\ gate \in BOOLEAN
    /\ row \in [Docs -> {NoRow} \cup [category : Categories, size : Sizes]]
    /\ nda \in [Ndas -> [Slots -> SUBSET Docs]]
    /\ invoiced \subseteq Docs
    /\ temp \subseteq Docs
    /\ final \subseteq Docs
    /\ up \in [Docs -> Running \cup {Idle, Done}]
    /\ stamps \in Nat
    /\ lost \in [{"crash", "write", "unlink", "answer"} -> SUBSET Docs]

\* Uploads that each found room before they wrote their file do not exceed the
\* quota together.
QuotaHolds == Used <= Quota

\* A committed document has its file, whatever failed or stopped, except when the
\* answer to its commit was lost.
RowsHaveFiles == Stored \subseteq final \cup lost.answer

\* Every file is a document's or belongs to a request under way; what else is
\* found was left by a crash, by a draft that could not be written, or by an unlink that
\* failed.
StrayFilesAreExplained ==
    /\ final \subseteq Stored \cup InFlight \cup lost.crash \cup lost.unlink
    /\ temp \subseteq InFlight \cup lost.crash \cup lost.unlink \cup lost.write

\* Nothing is stored for, or billed to, a customer who has been suspended since
\* the request looked.
NothingWhileSuspended ==
    [][row' # row \/ invoiced' # invoiced => status = "active"]_<<row, invoiced, status>>

\* Two uploads of one copy: the first to be attached stays.
SlotsFillOnce ==
    [][\A n \in Ndas, s \in Slots : nda[n][s] # {} => nda'[n][s] = nda[n][s]]_nda

\* The customer gets in with the first signed NDA, and the moment is recorded
\* once, however many NDAs are signed at the same time.
GateOpensOnce ==
    /\ gate <=> \E n \in Ndas : nda[n]["signed"] # {}
    /\ stamps = IF gate THEN 1 ELSE 0

\* Disk and table agree, for all that fails or stops.
FilesMatchRows == TypeOK /\ RowsHaveFiles /\ StrayFilesAreExplained

\* Why these hold.  How far a request has come says what there is of its document; the
\* customer and each NDA are held by one request at a time; what a request has read of
\* an NDA, and of the gate, still holds; and the room a row was inserted in is still there.
FilesFollowSteps ==
    \A d \in Docs :
        /\ up[d].step \in {"idle", "writing"} => row[d] = NoRow /\ d \notin final
        /\ up[d].step \in {"placed", "inserted"} => row[d] = NoRow /\ d \in final
        /\ up[d].step \in {"stored", "invoicing", "attaching", "stamped"} =>
              row[d] # NoRow /\ up[d].category \in {"invoice", "nda-signed", "nda-audit"}
        /\ up[d].step \in Steps \ {"writing"} => d \notin temp
CustomerIsHeldAlone ==
    /\ \A d, e \in Docs : HoldsCustomer(d) /\ HoldsCustomer(e) => d = e
    /\ \A d \in Docs : up[d].step \in {"inserted", "invoicing"} => status = "active"
NdaIsAsRead(d) ==
    /\ up[d].category \in {"plain", "invoice"} => up[d].nda = {}
    /\ \A n, m \in up[d].nda : n = m
    /\ up[d].category = "nda-draft" => \A n \in up[d].nda :
          nda[n] = NoNda /\ \A e \in InFlight \ {d} : n \notin up[e].nda
    /\ \A n \in up[d].nda : HoldsNda(d, n) =>
          /\ nda[n][SlotOf(up[d].category)] = {}
          /\ \A e \in Docs \ {d} : ~HoldsNda(e, n)
    /\ up[d].step \in {"attaching", "stamped"} => up[d].nda # {}
NdasAreAsRead == \A d \in InFlight : NdaIsAsRead(d)
GateIsAsRead ==
    \A d \in Docs : up[d].step = "stamped" =>
        IF up[d].first THEN up[d].category = "nda-signed" /\ ~gate
        ELSE up[d].category = "nda-signed" => gate

RoomIsKept == \A d \in Docs : up[d].step = "inserted" => Used + up[d].size <= Quota
QuotaInv == QuotaHolds /\ RoomIsKept

DocumentsInv ==
    /\ FilesMatchRows /\ FilesFollowSteps
    /\ CustomerIsHeldAlone /\ NdasAreAsRead /\ GateIsAsRead /\ GateOpensOnce
=============================================================================
