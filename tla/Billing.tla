------------------------------- MODULE Billing -------------------------------
(***************************************************************************)
(* One invoice: the ledger of its payments and the status an admin gives   *)
(* it (domain/invoice-payments, setStatus of domain/invoices/service.js    *)
(* and the routes of routes/admin/invoices.js).  How an invoice comes to   *)
(* be is in the module Documents.                                          *)
(*                                                                         *)
(* A payment does not lock its invoice: its foreign key waits for a status *)
(* change that holds the row, and makes one wait, but two payments pass    *)
(* each other, and each adds up what is committed and its own row.         *)
(***************************************************************************)
EXTENDS Integers, FiniteSets, Functions

CONSTANTS
    Payments,   \* rows of the ledger, each inserted once
    Requests,   \* requests that may be in flight together
    Amounts,    \* what an admin may type, in cents; an invoice may be of 0
    MaxInt      \* the largest value of PostgreSQL's integer

BillingAssumption == IsFiniteSet(Payments) /\ Amounts \subseteq Nat /\ MaxInt \in Nat

ASSUME BillingAssumption

VARIABLES
    amount,     \* invoices.amount_cents (bigint)
    invoiceStatus,  \* invoices.status
    ledger,     \* ledger[p]: the committed row of invoice_payments
    req,        \* req[r]: the transaction r is in
    decision,   \* the last status change in the audit trail
    deletions,  \* deletions[p]: how many audit rows say that p was deleted
    news,       \* history: what the last step told of the invoice's being paid
    told,       \* history: whether that was told since the ledger last fell short
    contested   \* history: the payments two requests found, each to delete it

billing == <<amount, invoiceStatus, ledger, req, decision, deletions, news, told, contested>>
-----------------------------------------------------------------------------
Statuses == {"open", "paid", "void"}
AllowedTransitions ==
    {<<"open", "paid">>, <<"open", "void">>, <<"paid", "open">>, <<"void", "open">>}

\* A payment is crossed when another payment was committed between its sum and its
\* own commit, and undone when a deletion was.
Row(state, cents, crossed) == [state |-> state, amount |-> cents, crossed |-> crossed]
NoPayment == Row("none", 0, FALSE)

NoTransaction == [at |-> "idle"]
Transactions ==
    {NoTransaction}
        \cup [at : {"summed"}, payment : Payments, amount : Amounts, sum : 0 .. MaxInt,
              crossed : BOOLEAN, undone : BOOLEAN]
        \cup [at : {"found"}, payment : Payments]
        \cup [at : {"locked"}, was : Statuses, new : Statuses]

Recorded == {p \in Payments : ledger[p].state = "recorded"}
Cents == [p \in Payments |-> ledger[p].amount]
Total(rows) == SumFunctionOnSet(Cents, rows)
Sum == Total(Recorded)

IsFullyPaid(sum) == sum >= amount

\* What both pages show, the due date aside.
Shown == CASE IsFullyPaid(Sum) -> "paid"
           [] ~IsFullyPaid(Sum) /\ Sum > 0 -> "partially_paid"
           [] OTHER -> invoiceStatus

InvoiceLocked == \E r \in Requests : req[r].at = "locked"
KeyShared     == \E r \in Requests : req[r].at = "summed"

BeginTransaction(r, transaction) ==
    req[r] = NoTransaction /\ req' = [req EXCEPT ![r] = transaction]

\* A change of the ledger is committed: the sums of the others are of before.
CommitLedger(r, adds) ==
    req' = [q \in Requests |->
        IF q = r THEN NoTransaction
        ELSE IF req[q].at # "summed" THEN req[q]
        ELSE IF adds THEN [req[q] EXCEPT !.crossed = TRUE]
        ELSE [req[q] EXCEPT !.undone = TRUE]]
EndTransaction(r) == req' = [req EXCEPT ![r] = NoTransaction]

NoNews == [paid |-> FALSE, undone |-> FALSE]
-----------------------------------------------------------------------------
BillingInit ==
    /\ amount \in Amounts
    /\ invoiceStatus = "open"
    /\ ledger = [p \in Payments |-> NoPayment]
    /\ req = [r \in Requests |-> NoTransaction]
    /\ decision = <<"void", "open">>
    /\ deletions = [p \in Payments |-> 0]
    /\ news = NoNews
    /\ told = FALSE
    /\ contested = {}

(***************************************************************************)
(* Payments.                                                               *)
(***************************************************************************)
Inserting(r, p, cents, sum) ==
    /\ cents \in 1 .. MaxInt
    /\ ledger[p] = NoPayment
    /\ \A q \in Requests : req[q].at = "summed" => req[q].payment # p
    /\ ~InvoiceLocked
    /\ BeginTransaction(r, [at |-> "summed", payment |-> p, amount |-> cents, sum |-> sum,
                 crossed |-> FALSE, undone |-> FALSE])
    /\ news' = NoNews
    /\ UNCHANGED <<amount, invoiceStatus, ledger, decision, deletions, told, contested>>

\* Slip: the ledger is summed before the payment is in it.
InsertAfterSum(r, p, cents) == Sum <= MaxInt /\ Inserting(r, p, cents, Sum)
\* Slip: the sum is not cast to an integer, and the driver rounds it.
InsertUnbounded(r, p, cents) ==
    Inserting(r, p, cents, IF Sum + cents > MaxInt THEN MaxInt ELSE Sum + cents)

\* record: the payment is inserted, and the committed ledger summed with it; a sum
\* beyond an integer is an error.
InsertPayment(r, p, cents) ==
    /\ Sum + cents \in 0 .. MaxInt
    /\ Inserting(r, p, cents, Sum + cents)

\* Audit row and fan-out, invoice.paid when the sum is the amount or more.
CommitPayment(r) ==
    /\ req[r].at = "summed"
    /\ LET p == req[r].payment
           paid == IsFullyPaid(req[r].sum) IN
          /\ ledger' = [ledger EXCEPT ![p] = Row("recorded", req[r].amount, req[r].crossed)]
          /\ news' = [paid |-> paid, undone |-> req[r].undone]
          /\ told' = (told \/ (paid /\ Sum + req[r].amount >= amount))
    /\ CommitLedger(r, TRUE)
    /\ UNCHANGED <<amount, invoiceStatus, decision, deletions, contested>>

\* Slip: a payment that is gone is still found.
FindGone(r, p) ==
    /\ ledger[p] # NoPayment
    /\ BeginTransaction(r, [at |-> "found", payment |-> p])
    /\ contested' = IF \E q \in Requests : req[q] = [at |-> "found", payment |-> p]
                    THEN contested \cup {p} ELSE contested
    /\ news' = NoNews
    /\ UNCHANGED <<amount, invoiceStatus, ledger, decision, deletions, told>>

\* deletePayment reads the payment, which must be of this invoice ...
FindPayment(r, p) ==
    /\ p \in Recorded
    /\ BeginTransaction(r, [at |-> "found", payment |-> p])
    /\ contested' = IF \E q \in Requests : req[q] = [at |-> "found", payment |-> p]
                    THEN contested \cup {p} ELSE contested
    /\ news' = NoNews
    /\ UNCHANGED <<amount, invoiceStatus, ledger, decision, deletions, told>>

\* ... and deletes it, or nothing if it went meanwhile; the audit row is written
\* either way.
DeletePayment(r) ==
    /\ req[r].at = "found"
    /\ LET p == req[r].payment IN
          /\ ledger' = [ledger EXCEPT ![p].state = "deleted"]
          /\ deletions' = [deletions EXCEPT ![p] = @ + 1]
          /\ told' = (told /\ IsFullyPaid(Total(Recorded \ {p})))
    /\ news' = NoNews
    /\ CommitLedger(r, FALSE)
    /\ UNCHANGED <<amount, invoiceStatus, decision, contested>>

(***************************************************************************)
(* The status.                                                             *)
(***************************************************************************)

\* Slip: the status is read without FOR UPDATE.
ReadStatus(r, new) ==
    /\ <<invoiceStatus, new>> \in AllowedTransitions
    /\ BeginTransaction(r, [at |-> "locked", was |-> invoiceStatus, new |-> new])
    /\ news' = NoNews
    /\ UNCHANGED <<amount, invoiceStatus, ledger, decision, deletions, told, contested>>

\* setStatus locks the invoice; a status it has, or may not go to, ends it here.
LockInvoice(r, new) ==
    /\ ~InvoiceLocked /\ ~KeyShared
    /\ <<invoiceStatus, new>> \in AllowedTransitions
    /\ BeginTransaction(r, [at |-> "locked", was |-> invoiceStatus, new |-> new])
    /\ news' = NoNews
    /\ UNCHANGED <<amount, invoiceStatus, ledger, decision, deletions, told, contested>>

SetInvoiceStatus(r) ==
    /\ req[r].at = "locked"
    /\ invoiceStatus' = req[r].new
    /\ decision' = <<req[r].was, req[r].new>>
    /\ EndTransaction(r)
    /\ news' = NoNews
    /\ UNCHANGED <<amount, ledger, deletions, told, contested>>

\* A statement fails, or the process stops: all is rolled back.
Abort(r) ==
    /\ req[r] # NoTransaction
    /\ EndTransaction(r)
    /\ news' = NoNews
    /\ UNCHANGED <<amount, invoiceStatus, ledger, decision, deletions, told, contested>>

\* What the routes let an admin send.
PostPayment(r) == \E p \in Payments, cents \in Amounts : InsertPayment(r, p, cents)
PostDelete(r)  == \E p \in Payments : FindPayment(r, p)
PostStatus(r)  == \E new \in Statuses : LockInvoice(r, new)

BillingNext ==
    \E r \in Requests :
        \/ PostPayment(r) \/ CommitPayment(r)
        \/ PostDelete(r) \/ DeletePayment(r)
        \/ PostStatus(r)
        \/ SetInvoiceStatus(r)
        \/ Abort(r)

BillingSpec == BillingInit /\ [][BillingNext]_billing
-----------------------------------------------------------------------------
BillingTypeOK ==
    /\ amount \in Amounts
    /\ invoiceStatus \in Statuses
    /\ ledger \in [Payments -> [state : {"none", "recorded", "deleted"},
                                amount : Amounts \cup {0}, crossed : BOOLEAN]]
    /\ req \in [Requests -> Transactions]
    /\ decision \in AllowedTransitions
    /\ deletions \in [Payments -> Nat]
    /\ news \in [paid : BOOLEAN, undone : BOOLEAN]
    /\ told \in BOOLEAN
    /\ contested \subseteq Payments

Crossed == \E p \in Recorded : ledger[p].crossed

\* An invoice of more than nothing whose page shows it as paid by its ledger was
\* announced as paid, unless two payments were recorded at a time: then each may
\* have missed the other, and nobody is told.
PaidIsTold ==
    amount > 0 /\ IsFullyPaid(Sum) => told \/ Crossed

\* When the customer is told that the invoice is paid, its page shows it as paid,
\* unless a payment was deleted between the sum and the commit.
PaidIsTrue ==
    news.paid => Shown = "paid" \/ news.undone

\* The ledger is more than the sum of a later payment can be cast to only when two
\* payments passed each other: from then on no payment is accepted.
LedgerFits ==
    Sum > MaxInt => Crossed

\* A payment is gone if and only if the audit trail says so, and it says so twice
\* only if two requests had both found the payment.
DeletionsAreAudited ==
    \A p \in Payments :
        /\ ledger[p].state = "deleted" <=> deletions[p] > 0
        /\ deletions[p] > 1 => p \in contested

\* The status changes in the audit trail follow from one another by allowed steps:
\* "Direct paid<->void hops are refused (route them through 'open' so the audit
\* shows two distinct decisions)", also when two admins decide at once.
DecisionsChain ==
    [][decision' # decision => /\ decision'[1] = decision[2]
                               /\ decision' \in AllowedTransitions
                               /\ decision'[2] = invoiceStatus']_billing

\* The page and the news of a payment agree in both directions.
PaidNewsIsRight == PaidIsTold /\ PaidIsTrue

\* Why what is told is right.  A sum that no payment has crossed is no less than the ledger
\* with its own payment, and one that no deletion has undone is no more; and what was
\* recorded uncrossed, with all that was there, fits an integer and was announced if it
\* settles the invoice.
SumsAreOfNow ==
    \A r \in Requests :
        req[r].at = "summed" =>
            /\ ~req[r].crossed => req[r].sum >= Sum + req[r].amount
            /\ ~req[r].undone => req[r].sum <= Sum + req[r].amount
Uncrossed == {p \in Recorded : ~ledger[p].crossed}
UncrossedIsTold ==
    /\ Total(Uncrossed) <= MaxInt
    /\ amount > 0 /\ Total(Uncrossed) >= amount => told

NewsInv == SumsAreOfNow /\ UncrossedIsTold /\ PaidIsTrue
=============================================================================
