----------------------------- MODULE MailPromise -----------------------------
(***************************************************************************)
(* What the outbox promises a business transaction that enqueues an        *)
(* e-mail: one message per idempotency key, handed to the provider any     *)
(* number of times while it is pending and never once it is settled, and   *)
(* settled as sent only if the provider took it.                           *)
(***************************************************************************)
EXTENDS Naturals

CONSTANT Keys      \* the idempotency keys

VARIABLES
    state,         \* state[k]: what has become of the message k
    copies         \* copies[k]: how often the provider has taken it

promise == <<state, copies>>

Pending == {k \in Keys : state[k] = "pending"}

Init ==
    /\ state = [k \in Keys |-> "none"]
    /\ copies = [k \in Keys |-> 0]

\* A business transaction commits the messages of K.
Promise(K) ==
    /\ \A k \in K : state[k] = "none"
    /\ state' = [k \in Keys |-> IF k \in K THEN "pending" ELSE state[k]]
    /\ UNCHANGED copies

Deliver(k) ==
    /\ k \in Pending
    /\ copies' = [copies EXCEPT ![k] = @ + 1]
    /\ UNCHANGED state

\* One commit of the worker may settle several messages.
Settle(sent, dead) ==
    /\ sent \cap dead = {}
    /\ sent \cup dead \subseteq Pending
    /\ \A k \in sent : copies[k] > 0
    /\ state' = [k \in Keys |-> IF k \in sent THEN "sent"
                                ELSE IF k \in dead THEN "dead" ELSE state[k]]
    /\ UNCHANGED copies

Next ==
    \/ \E K \in SUBSET Keys : Promise(K)
    \/ \E k \in Keys : Deliver(k)
    \/ \E sent, dead \in SUBSET Keys : Settle(sent, dead)

Spec == Init /\ [][Next]_promise
=============================================================================
