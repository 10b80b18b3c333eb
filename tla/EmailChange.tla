----------------------------- MODULE EmailChange -----------------------------
(***************************************************************************)
(* How admins and customer users change their e-mail address: a request, a *)
(* link mailed to the new address that swaps it, and a link mailed to the  *)
(* old one that takes the change back (domain/customer-users/service.js,   *)
(* domain/admins/service.js, the two profile.js routes), against accounts  *)
(* that are created and an admin who corrects the address of a user        *)
(* (domain/customers/service.js; what this does to invitations is the      *)
(* module Accounts').                                                      *)
(*                                                                         *)
(* The two tables are each unique in the address; together they are only   *)
(* as unique as the lookups make them, which take no lock and which        *)
(* creations, corrections and reverts do without.  A link                  *)
(* that expires, and a request that is refused for its rate, are links and *)
(* requests that are not used: neither changes a row.                      *)
(***************************************************************************)
CONSTANTS
    Admins, Users,  \* accounts, of two tables
    Addresses,
    NoAddress,      \* of an account that has still to be created
    Changes,        \* rows of email_change_requests, each inserted once
    Requests        \* requests that may be in flight together

People == Admins \cup Users

EmailChangeAssumption ==
    /\ Admins \cap Users = {}
    /\ NoAddress \notin Addresses

ASSUME EmailChangeAssumption

VARIABLES
    email,      \* email[p]: the committed address
    change,     \* change[c]: the committed row of email_change_requests
    live,       \* who has a session
    req,        \* req[r]: the transaction r is in, with what it read and locked
    moved       \* history: the changes whose owner's address something else changed
                \* since they were requested or verified

vars == <<email, change, live, req, moved>>
-----------------------------------------------------------------------------
TableOf(p) == IF p \in Admins THEN Admins ELSE Users

NoChange == [state |-> "none"]
ChangeRow == [state : {"asked", "cancelled", "verified", "reverted"}, owner : People,
              old : Addresses, new : Addresses]

\* crossed: another account was given the address since it was looked up.
Idle == [at |-> "idle"]
Transactions ==
    {Idle}
        \cup [at : {"asking"}, owner : People, old : Addresses, new : Addresses]
        \cup [at : {"verifying", "reverting"}, change : Changes]
        \cup [at : {"swapping"}, change : Changes, crossed : BOOLEAN]

Begin(r, transaction) == req[r] = Idle /\ req' = [req EXCEPT ![r] = transaction]

\* r has the account of p locked.
Holding(r, p) ==
    \/ req[r].at = "asking" /\ req[r].owner = p
    \/ req[r].at = "swapping" /\ change[req[r].change].owner = p
OwnerLocked(p) == \E r \in Requests : Holding(r, p)

\* Slip: links are read without FOR UPDATE.
LockedWhenSwapping(c) == \E r \in Requests : req[r].at = "swapping" /\ req[r].change = c

\* A link that is followed holds its row.
Following(r) == req[r].at \in {"verifying", "swapping", "reverting"}
ChangeLocked(c) == \E r \in Requests : Following(r) /\ req[r].change = c

Of(p, state) == {c \in Changes : change[c].state = state /\ change[c].owner = p}

Exists(p) == email[p] \in Addresses

\* The lookup in both tables.
Free(address, p) == \A q \in People \ {p} : email[q] # address
\* The unique index of one.
Unique(address, p) == \A q \in TableOf(p) \ {p} : email[q] # address

\* p's address is committed, by the change in by, if by any.
Swap(p, address, by) ==
    /\ email' = [email EXCEPT ![p] = address]
    /\ moved' = (moved \cup (Of(p, "asked") \cup Of(p, "verified"))) \ by
\* Whoever has looked for this address before has not seen it.
Ended(done, address) ==
    [q \in Requests |->
        CASE q \in done -> Idle
          [] q \notin done /\ req[q].at = "swapping" /\ change[req[q].change].new = address
                -> [req[q] EXCEPT !.crossed = TRUE]
          [] OTHER -> req[q]]
-----------------------------------------------------------------------------
Init ==
    /\ email = [p \in People |-> NoAddress]
    /\ change = [c \in Changes |-> NoChange]
    /\ live = {}
    /\ req = [r \in Requests |-> Idle]
    /\ moved = {}

\* admins.create and customers.create insert the account, with only the index of its
\* own table in the way.
Create(p, address) ==
    /\ ~Exists(p)
    /\ Unique(address, p)
    /\ Swap(p, address, {})
    /\ req' = Ended({}, address)
    /\ UNCHANGED <<change, live>>

CreateAdmin(a, address)    == a \in Admins /\ Create(a, address)
CreateCustomer(u, address) == u \in Users /\ Create(u, address)

\* A session that ends by itself could be opened again, and is left out.
Login(p) ==
    /\ Exists(p) /\ p \notin live
    /\ live' = live \cup {p}
    /\ UNCHANGED <<email, change, req, moved>>

(***************************************************************************)
(* Requests.                                                               *)
(***************************************************************************)

\* Slip: the account is read without FOR UPDATE.
ReadOwner(r, p, new) ==
    /\ p \in live
    /\ email[p] # new /\ Free(new, p)
    /\ Begin(r, [at |-> "asking", owner |-> p, old |-> email[p], new |-> new])
    /\ UNCHANGED <<email, change, live, moved>>

\* The account is locked, the address must be another one, and nobody's.
LockOwner(r, p, new) ==
    /\ p \in live
    /\ ~OwnerLocked(p)
    /\ email[p] # new /\ Free(new, p)
    /\ Begin(r, [at |-> "asking", owner |-> p, old |-> email[p], new |-> new])
    /\ UNCHANGED <<email, change, live, moved>>

AskOfUser(r, u, new)  == u \in Users /\ LockOwner(r, u, new)
AskOfAdmin(r, a, new) == a \in Admins /\ LockOwner(r, a, new)

\* The request in flight is cancelled, once nobody holds its row, and the new one
\* inserted; its link is mailed to the new address.
InsertChange(r, c) ==
    /\ req[r].at = "asking"
    /\ change[c] = NoChange
    /\ \A b \in Of(req[r].owner, "asked") : ~ChangeLocked(b)
    /\ change' = [b \in Changes |->
          IF b = c THEN [state |-> "asked", owner |-> req[r].owner,
                         old |-> req[r].old, new |-> req[r].new]
          ELSE IF b \in Of(req[r].owner, "asked")
          THEN [change[b] EXCEPT !.state = "cancelled"] ELSE change[b]]
    /\ req' = [req EXCEPT ![r] = Idle]
    /\ UNCHANGED <<email, live, moved>>

RequestEmailChange(r, c) ==
    req[r].at = "asking" /\ req[r].owner \in Users /\ InsertChange(r, c)
RequestAdminEmailChange(r, c) ==
    req[r].at = "asking" /\ req[r].owner \in Admins /\ InsertChange(r, c)

(***************************************************************************)
(* Verification.  The link wants somebody's session, of the owner's kind.  *)
(***************************************************************************)
Follow(r, c, state, at) ==
    /\ change[c].state = state
    /\ Begin(r, [at |-> at, change |-> c])
    /\ UNCHANGED <<email, change, live, moved>>

LockToVerify(r, c) ==
    /\ change[c].state = "asked"
    /\ ~ChangeLocked(c)
    /\ live \cap TableOf(change[c].owner) # {}
    /\ Follow(r, c, "asked", "verifying")

VerifyOfUser(r, c)  == change[c] # NoChange /\ change[c].owner \in Users /\ LockToVerify(r, c)
VerifyOfAdmin(r, c) == change[c] # NoChange /\ change[c].owner \in Admins /\ LockToVerify(r, c)

\* Slip: the lookup of the request is relied on.
LockUnchecked(r) ==
    /\ req[r].at = "verifying"
    /\ ~OwnerLocked(change[req[r].change].owner)
    /\ req' = [req EXCEPT ![r] = [at |-> "swapping", change |-> req[r].change,
                                  crossed |-> FALSE]]
    /\ UNCHANGED <<email, change, live, moved>>

\* The account is locked and both tables are looked at again.
LockAndCheck(r) ==
    /\ req[r].at = "verifying"
    /\ LET c == req[r].change IN
          /\ ~OwnerLocked(change[c].owner)
          /\ Free(change[c].new, change[c].owner)
          /\ req' = [req EXCEPT ![r] = [at |-> "swapping", change |-> c, crossed |-> FALSE]]
    /\ UNCHANGED <<email, change, live, moved>>

\* The address is swapped, and the link that takes it back is mailed to the address
\* that was read with the request.
CommitVerify(r, owners) ==
    /\ req[r].at = "swapping"
    /\ LET c == req[r].change
           p == change[c].owner IN
          /\ p \in owners
          /\ Unique(change[c].new, p)
          /\ Swap(p, change[c].new, {c})
          /\ change' = [change EXCEPT ![c].state = "verified"]
          /\ req' = Ended({r}, change[c].new)
    /\ UNCHANGED live

VerifyEmailChange(r)      == CommitVerify(r, Users)
VerifyAdminEmailChange(r) == CommitVerify(r, Admins)

(***************************************************************************)
(* Taking back.  The link is enough; no session is asked for.              *)
(***************************************************************************)

LockToRevert(r, c) == ~ChangeLocked(c) /\ Follow(r, c, "verified", "reverting")

RevertOfUser(r, c)  == change[c] # NoChange /\ change[c].owner \in Users /\ LockToRevert(r, c)
RevertOfAdmin(r, c) == change[c] # NoChange /\ change[c].owner \in Admins /\ LockToRevert(r, c)

\* The address of the time of the request is put back, whatever it is now and
\* whoever of the other table has it, and the sessions end.  A request in flight
\* stays.
CommitRevert(r, owners) ==
    /\ req[r].at = "reverting"
    /\ LET c == req[r].change
           p == change[c].owner IN
          /\ p \in owners
          /\ ~OwnerLocked(p)
          /\ Unique(change[c].old, p)
          /\ Swap(p, change[c].old, {c})
          /\ change' = [change EXCEPT ![c].state = "reverted"]
          /\ live' = live \ {p}
          /\ req' = Ended({r}, change[c].old)

RevertEmailChange(r)      == CommitRevert(r, Users)
RevertAdminEmailChange(r) == CommitRevert(r, Admins)

\* An admin corrects a user's address: only the users' own index is in the way, and
\* a request in flight stays.
AdminUpdateCustomerUserEmail(u, address) ==
    /\ Exists(u)
    /\ ~OwnerLocked(u)
    /\ email[u] # address /\ Unique(address, u)
    /\ Swap(u, address, {})
    /\ req' = Ended({}, address)
    /\ UNCHANGED <<change, live>>

PostAddress(u) == \E address \in Addresses : AdminUpdateCustomerUserEmail(u, address)

\* A check fails, a deadlock is broken, the process stops: all is rolled back.
Abort(r) ==
    /\ req[r] # Idle
    /\ req' = [req EXCEPT ![r] = Idle]
    /\ UNCHANGED <<email, change, live, moved>>

Next ==
    \/ \E p \in People :
          \/ \E address \in Addresses : CreateAdmin(p, address) \/ CreateCustomer(p, address)
          \/ Login(p)
    \/ \E u \in Users : PostAddress(u)
    \/ \E r \in Requests :
          \/ \E p \in People, new \in Addresses : AskOfUser(r, p, new) \/ AskOfAdmin(r, p, new)
          \/ \E c \in Changes :
                \/ RequestEmailChange(r, c) \/ RequestAdminEmailChange(r, c)
                \/ VerifyOfUser(r, c) \/ VerifyOfAdmin(r, c)
                \/ RevertOfUser(r, c) \/ RevertOfAdmin(r, c)
          \/ LockAndCheck(r)
          \/ VerifyEmailChange(r) \/ VerifyAdminEmailChange(r)
          \/ RevertEmailChange(r) \/ RevertAdminEmailChange(r)
          \/ Abort(r)

Spec == Init /\ [][Next]_vars
-----------------------------------------------------------------------------
TypeOK ==
    /\ email \in [People -> Addresses \cup {NoAddress}]
    /\ change \in [Changes -> {NoChange} \cup ChangeRow]
    /\ live \subseteq People
    /\ req \in [Requests -> Transactions]
    /\ moved \subseteq Changes

Verifies(r) == req[r].at = "swapping" /\ change'[req[r].change].state = "verified"

\* An address comes to be shared only across the tables, and never by a change that an
\* account verifies, unless the address was given to the other account between the
\* lookup and the commit: what shares addresses is a creation, a correction, a revert,
\* or a change that one of these or another change has passed.
SharedAddressIsExplained ==
    [][\A p, q \in People :
          p # q /\ email[p] # email[q] /\ email'[p] = email'[q] =>
              /\ TableOf(p) # TableOf(q)
              /\ \A r \in Requests : Verifies(r) => req[r].crossed]_vars

\* A mailed link works once, and the link of a request that a newer one has cancelled
\* does not work, even if it was being followed when the newer one came ("A user may
\* have only ONE in-flight request at a time").
LinksWorkOnce ==
    [][\A c \in Changes : change'[c].state # change[c].state =>
          <<change[c].state, change'[c].state>> \in
              {<<"none", "asked">>, <<"asked", "cancelled">>, <<"asked", "verified">>,
               <<"verified", "reverted">>}]_change

\* The notice of a change goes to the address that is left, and a revert undoes the
\* change it was mailed for, unless something else changed the address since: an
\* admin's correction, or another change or revert of the same account.
NoticesReachTheAddressLeft ==
    [][\A c \in Changes :
          /\ change[c].state = "asked" /\ change'[c].state = "verified" /\ c \notin moved =>
                email[change[c].owner] = change[c].old
          /\ change[c].state = "verified" /\ change'[c].state = "reverted" /\ c \notin moved =>
                email[change[c].owner] = change[c].new]_vars

\* Why these hold.  A request that follows a link holds its row, and nobody else does;
\* one that holds an account is the only one to, and has seen its address; the looks
\* at the other table that nothing crossed still hold; sessions are of accounts.
FollowersAgree ==
    \A r \in Requests :
        Following(r) =>
            change[req[r].change].state = IF req[r].at = "reverting" THEN "verified" ELSE "asked"
LinksAreHeldAlone ==
    \A r, q \in Requests :
        Following(r) /\ Following(q) /\ req[r].change = req[q].change => r = q
OwnersAreHeldAlone ==
    \A r, q \in Requests, p \in People : Holding(r, p) /\ Holding(q, p) => r = q
AddressesAreSeen ==
    /\ \A r \in Requests : req[r].at = "asking" => email[req[r].owner] = req[r].old
    /\ \A c \in Changes \ moved :
          /\ change[c].state = "asked" => email[change[c].owner] = change[c].old
          /\ change[c].state = "verified" => email[change[c].owner] = change[c].new
LooksHold ==
    \A r \in Requests :
        req[r].at = "swapping" /\ ~req[r].crossed =>
            Free(change[req[r].change].new, change[req[r].change].owner)

SessionsAreOfAccounts == \A p \in live : Exists(p)

LinkInv ==
    /\ TypeOK
    /\ FollowersAgree
    /\ LinksAreHeldAlone
    /\ OwnersAreHeldAlone
    /\ AddressesAreSeen
    /\ LooksHold
    /\ SessionsAreOfAccounts
=============================================================================
