-------------------------- MODULE EmailChange_proofs --------------------------
(***************************************************************************)
(* Theorems about changes of e-mail addresses, for every set of admins, of *)
(* users, of addresses, of links and of requests in flight.                *)
(***************************************************************************)
EXTENDS EmailChange, TLAPS

\* What a request refers to, by where it is.
LEMMA TransactionParts ==
    ASSUME NEW o \in Transactions
    PROVE  /\ o.at = "asking" => o.owner \in People /\ o.old \in Addresses /\ o.new \in Addresses
           /\ o.at \in {"verifying", "reverting", "swapping"} => o.change \in Changes
           /\ o.at = "swapping" => [o EXCEPT !.crossed = TRUE] \in Transactions
           /\ o = Idle \/ o.at \in {"asking", "verifying", "reverting", "swapping"}
  <1>1. CASE o.at = "swapping"
    <2>1. o \in [at : {"swapping"}, change : Changes, crossed : BOOLEAN]
      BY <1>1 DEF Transactions, Idle
    <2> QED BY <2>1 DEF Transactions
  <1>2. CASE o.at # "swapping"
    BY <1>2 DEF Transactions, Idle
  <1> QED BY <1>1, <1>2

LEMMA TransactionKinds ==
    /\ Idle \in Transactions
    /\ \A p \in People, old, new \in Addresses :
          [at |-> "asking", owner |-> p, old |-> old, new |-> new] \in Transactions
    /\ \A c \in Changes, at \in {"verifying", "reverting"} :
          [at |-> at, change |-> c] \in Transactions
    /\ \A c \in Changes :
          [at |-> "swapping", change |-> c, crossed |-> FALSE] \in Transactions
  BY DEF Transactions, Idle

\* A row that is there is of a change, and says of whom.
LEMMA ChangeParts ==
    ASSUME TypeOK, NEW c \in Changes, change[c].state # "none"
    PROVE  change[c] \in ChangeRow /\ change[c].owner \in People
  BY DEF TypeOK, NoChange, ChangeRow

\* The row a follower holds is there.
LEMMA FollowedParts ==
    ASSUME TypeOK, FollowersAgree, NEW r \in Requests, Following(r)
    PROVE  /\ req[r].change \in Changes
           /\ change[req[r].change].state # "none"
           /\ change[req[r].change] \in ChangeRow
           /\ change[req[r].change].owner \in People
  <1>1. req[r].change \in Changes
    BY TransactionParts DEF TypeOK, Following
  <1>2. change[req[r].change].state # "none"
    BY DEF FollowersAgree
  <1> QED BY <1>1, <1>2, ChangeParts

(***************************************************************************)
(* The actions, without the names the routes give them.                    *)
(***************************************************************************)

\* A session starts, a request begins or ends, and no row changes.
Quiet == UNCHANGED <<email, change, moved>>

LEMMA Steps ==
    ASSUME Next
    PROVE  \/ \E p \in People, address \in Addresses : Create(p, address)
           \/ \E p \in People : Login(p)
           \/ \E u \in Users, address \in Addresses : AdminUpdateCustomerUserEmail(u, address)
           \/ \E r \in Requests, p \in People, new \in Addresses : LockOwner(r, p, new)
           \/ \E r \in Requests, c \in Changes : InsertChange(r, c)
           \/ \E r \in Requests, c \in Changes : LockToVerify(r, c)
           \/ \E r \in Requests, c \in Changes : LockToRevert(r, c)
           \/ \E r \in Requests : LockAndCheck(r)
           \/ \E r \in Requests : CommitVerify(r, Users) \/ CommitVerify(r, Admins)
           \/ \E r \in Requests : CommitRevert(r, Users) \/ CommitRevert(r, Admins)
           \/ \E r \in Requests : Abort(r)
  BY DEF Next, CreateAdmin, CreateCustomer, PostAddress, AskOfUser, AskOfAdmin,
         RequestEmailChange, RequestAdminEmailChange, VerifyOfUser, VerifyOfAdmin,
         RevertOfUser, RevertOfAdmin, VerifyEmailChange, VerifyAdminEmailChange,
         RevertEmailChange, RevertAdminEmailChange

(***************************************************************************)
(* A request that ends, and the swaps it crosses.                          *)
(***************************************************************************)

\* What is left of the other requests when some are done and an address is given.
LEMMA EndedRequests ==
    ASSUME TypeOK, NEW done, NEW address, req' = Ended(done, address)
    PROVE  /\ req' \in [Requests -> Transactions]
           /\ \A q \in Requests :
                 \/ req'[q] = Idle
                 \/ /\ q \notin done /\ req[q].at = "swapping"
                    /\ req'[q].at = "swapping" /\ req'[q].change = req[q].change
                    /\ req'[q].crossed
                 \/ /\ q \notin done /\ req'[q] = req[q]
                    /\ req[q].at = "swapping" => change[req[q].change].new # address
           /\ \A q \in done \cap Requests : req'[q] = Idle
  <1>1. ASSUME NEW q \in Requests
        PROVE  /\ req'[q] \in Transactions
               /\ \/ req'[q] = Idle
                  \/ /\ q \notin done /\ req[q].at = "swapping"
                     /\ req'[q].at = "swapping" /\ req'[q].change = req[q].change
                     /\ req'[q].crossed
                  \/ /\ q \notin done /\ req'[q] = req[q]
                     /\ req[q].at = "swapping" => change[req[q].change].new # address
    <2> DEFINE Crossed ==
            q \notin done /\ req[q].at = "swapping" /\ change[req[q].change].new = address
    <2>1. req[q] \in Transactions
      BY DEF TypeOK
    <2>2. CASE q \in done
      BY <2>2, TransactionKinds DEF Ended
    <2>3. CASE q \notin done /\ ~Crossed
      BY <2>1, <2>3 DEF Ended
    <2>4. CASE Crossed
      <3>1. req'[q] = [req[q] EXCEPT !.crossed = TRUE]
        BY <2>4 DEF Ended
      <3>2. /\ req'[q].at = "swapping" /\ req'[q].change = req[q].change
            /\ req'[q].crossed
        BY <2>1, <2>4, <3>1 DEF Transactions, Idle
      <3> QED BY <2>1, <2>4, <3>1, <3>2, TransactionParts
    <2> QED BY <2>2, <2>3, <2>4
  <1>2. \A q \in done \cap Requests : req'[q] = Idle
    BY DEF Ended
  <1>3. req' \in [Requests -> Transactions]
    BY <1>1 DEF Ended
  <1> QED BY <1>1, <1>2, <1>3

\* Nobody holds a link or an account when all others are done or as they were.
LEMMA EndedHolds ==
    ASSUME TypeOK, FollowersAgree, LinksAreHeldAlone, OwnersAreHeldAlone,
           NEW done, NEW address, req' = Ended(done, address),
           \A q \in Requests \ done :
              Following(q) => change'[req[q].change] = change[req[q].change]
    PROVE  FollowersAgree' /\ LinksAreHeldAlone' /\ OwnersAreHeldAlone'
  <1>1. ASSUME NEW q \in Requests, Following(q)'
        PROVE  /\ q \notin done /\ Following(q)
               /\ req'[q].at = req[q].at /\ req'[q].change = req[q].change
    BY <1>1, EndedRequests DEF Following, Idle
  <1>2. ASSUME NEW q \in Requests, NEW p \in People, Holding(q, p)'
        PROVE  Holding(q, p)
    <2>1. CASE req'[q].at = "asking"
      BY <1>2, <2>1, EndedRequests DEF Holding, Idle
    <2>2. CASE req'[q].at = "swapping"
      <3>1. Following(q)'
        BY <2>2 DEF Following
      <3> QED BY <1>1, <1>2, <2>2, <3>1 DEF Holding
    <2> QED BY <1>2, <2>1, <2>2 DEF Holding
  <1>3. FollowersAgree'
    BY <1>1 DEF FollowersAgree
  <1>4. LinksAreHeldAlone'
    BY <1>1 DEF LinksAreHeldAlone
  <1>5. OwnersAreHeldAlone'
    BY <1>2 DEF OwnersAreHeldAlone
  <1> QED BY <1>3, <1>4, <1>5

(***************************************************************************)
(* An address that changes hands.                                          *)
(***************************************************************************)

\* What everybody relied on about the account is forgotten or still right.
LEMMA SwapSeen ==
    ASSUME TypeOK, AddressesAreSeen, NEW p \in People, NEW address \in Addresses,
           NEW by, NEW done, Swap(p, address, by), req' = Ended(done, address),
           \A q \in Requests \ done : ~(req[q].at = "asking" /\ req[q].owner = p),
           \A c \in Changes \ by : change'[c] = change[c],
           \A c \in Changes \cap by :
              /\ change'[c].owner = p /\ change'[c].state # "asked"
              /\ change'[c].state = "verified" => change'[c].new = address
    PROVE  AddressesAreSeen'
  <1>1. /\ email'[p] = address
        /\ \A q \in People \ {p} : email'[q] = email[q]
    BY DEF TypeOK, Swap
  <1>2. ASSUME NEW q \in Requests, req'[q].at = "asking"
        PROVE  email'[req'[q].owner] = req'[q].old
    <2>1. q \notin done /\ req'[q] = req[q]
      BY <1>2, EndedRequests DEF Idle
    <2>2. req[q].owner \in People /\ req[q].owner # p
      BY <1>2, <2>1, TransactionParts DEF TypeOK
    <2> QED BY <1>1, <1>2, <2>1, <2>2 DEF AddressesAreSeen
  <1>3. ASSUME NEW c \in Changes, c \notin moved', change'[c].state \in {"asked", "verified"}
        PROVE  /\ change'[c].state = "asked" => email'[change'[c].owner] = change'[c].old
               /\ change'[c].state = "verified" => email'[change'[c].owner] = change'[c].new
    <2>1. CASE c \in by
      BY <1>1, <1>3, <2>1
    <2>2. CASE c \notin by
      <3>1. change'[c] = change[c] /\ c \notin moved
        BY <1>3, <2>2 DEF Swap
      <3>2. change[c].owner \in People
        BY <1>3, <3>1, ChangeParts
      <3>3. change[c].owner # p
        BY <1>3, <2>2, <3>1 DEF Swap, Of
      <3> QED BY <1>1, <1>3, <3>1, <3>2, <3>3 DEF AddressesAreSeen
    <2> QED BY <2>1, <2>2
  <1> QED BY <1>2, <1>3 DEF AddressesAreSeen

\* A swap under way to this address is crossed, and what the others saw still holds.
LEMMA SwapLooks ==
    ASSUME TypeOK, LooksHold, NEW p \in People, NEW address \in Addresses, NEW by,
           NEW done, Swap(p, address, by), req' = Ended(done, address),
           \A q \in Requests \ done :
              Following(q) => change'[req[q].change] = change[req[q].change]
    PROVE  LooksHold'
  <1> SUFFICES ASSUME NEW q \in Requests, req'[q].at = "swapping", ~req'[q].crossed
               PROVE  Free(change[req[q].change].new, change[req[q].change].owner)'
    BY DEF LooksHold
  <1>1. /\ q \notin done /\ req'[q] = req[q]
        /\ change[req[q].change].new # address
    BY EndedRequests DEF Idle
  <1>2. /\ change'[req[q].change] = change[req[q].change]
        /\ Free(change[req[q].change].new, change[req[q].change].owner)
    BY <1>1 DEF Following, LooksHold
  <1>3. \A x \in People : email'[x] = IF x = p THEN address ELSE email[x]
    BY DEF TypeOK, Swap
  <1> QED BY <1>1, <1>2, <1>3 DEF Free

\* Sessions are still of accounts.
LEMMA SwapSessions ==
    ASSUME TypeOK, SessionsAreOfAccounts, NEW p \in People, NEW address \in Addresses,
           NEW by, Swap(p, address, by), live' \subseteq live
    PROVE  SessionsAreOfAccounts'
  BY DEF TypeOK, Swap, SessionsAreOfAccounts, Exists

\* If two accounts come to share an address, one is the account it was given to, and
\* the other is of the other table and had it before.
LEMMA SwapShares ==
    ASSUME TypeOK, NEW p \in People, NEW address \in Addresses, NEW by,
           Swap(p, address, by), Unique(address, p),
           NEW x \in People, NEW y \in People,
           x # y, email[x] # email[y], email'[x] = email'[y]
    PROVE  TableOf(x) # TableOf(y) /\ ~Free(address, p)
  <1>1. \A q \in People : email'[q] = IF q = p THEN address ELSE email[q]
    BY DEF TypeOK, Swap
  <1>2. PICK q \in People \ {p} : {x, y} = {p, q} /\ email[q] = address
    BY <1>1
  <1>3. q \notin TableOf(p) /\ q \in TableOf(q) /\ p \in TableOf(p)
    BY <1>2 DEF Unique, TableOf, People
  <1>4. TableOf(p) # TableOf(q)
    BY <1>3
  <1> QED BY <1>2, <1>4 DEF Free

\* An address is given to an account outside every change: by a creation or a correction.
LEMMA GiveStep ==
    ASSUME LinkInv, NEW p \in People, NEW address \in Addresses,
           \A q \in Requests : ~(req[q].at = "asking" /\ req[q].owner = p),
           Swap(p, address, {}), req' = Ended({}, address), UNCHANGED <<change, live>>
    PROVE  LinkInv'
  <1>1. TypeOK /\ AddressesAreSeen /\ LooksHold /\ SessionsAreOfAccounts
    BY DEF LinkInv
  <1>2. TypeOK'
    <2>1. /\ email' \in [People -> Addresses \cup {NoAddress}]
          /\ moved' \subseteq Changes
      BY <1>1 DEF TypeOK, Swap, Of
    <2>2. req' \in [Requests -> Transactions]
      BY <1>1, EndedRequests
    <2> QED BY <1>1, <2>1, <2>2 DEF TypeOK
  <1>3. FollowersAgree' /\ LinksAreHeldAlone' /\ OwnersAreHeldAlone'
    BY EndedHolds DEF LinkInv
  <1>4. AddressesAreSeen'
    BY <1>1, SwapSeen
  <1>5. LooksHold'
    BY <1>1, SwapLooks
  <1>6. SessionsAreOfAccounts'
    BY <1>1, SwapSessions
  <1> QED BY <1>2, <1>3, <1>4, <1>5, <1>6 DEF LinkInv

LEMMA CreateStep ==
    ASSUME LinkInv, NEW p \in People, NEW address \in Addresses, Create(p, address)
    PROVE  LinkInv'
  <1>1. ASSUME NEW q \in Requests, req[q].at = "asking", req[q].owner = p
        PROVE  FALSE
    <2>1. email[p] = req[q].old /\ req[q].old \in Addresses
      BY <1>1, TransactionParts DEF LinkInv, TypeOK, AddressesAreSeen
    <2> QED BY <2>1 DEF Create, Exists
  <1> QED BY <1>1, GiveStep DEF Create

LEMMA CorrectionStep ==
    ASSUME LinkInv, NEW u \in Users, NEW address \in Addresses,
           AdminUpdateCustomerUserEmail(u, address)
    PROVE  LinkInv'
  <1>1. u \in People
    BY DEF People
  <1>2. \A q \in Requests : ~(req[q].at = "asking" /\ req[q].owner = u)
    BY <1>1 DEF AdminUpdateCustomerUserEmail, OwnerLocked, Holding
  <1> QED BY <1>1, <1>2, GiveStep DEF AdminUpdateCustomerUserEmail

LEMMA VerifyStep ==
    ASSUME LinkInv, NEW r \in Requests, NEW owners, CommitVerify(r, owners)
    PROVE  LinkInv'
  <1> DEFINE c == req[r].change
             p == change[c].owner
  <1> USE DEF CommitVerify
  <1>1. TypeOK /\ FollowersAgree /\ AddressesAreSeen /\ LooksHold /\ SessionsAreOfAccounts
    BY DEF LinkInv
  <1>2. Following(r) /\ req[r].at = "swapping"
    BY DEF Following
  <1>3. /\ c \in Changes /\ p \in People /\ change[c] \in ChangeRow
        /\ change[c].new \in Addresses
    BY <1>1, <1>2, FollowedParts DEF ChangeRow
  <1>4. /\ change'[c] = [change[c] EXCEPT !.state = "verified"]
        /\ \A d \in Changes \ {c} : change'[d] = change[d]
    BY <1>1, <1>3 DEF TypeOK
  <1>5. /\ change'[c].state = "verified" /\ change'[c].owner = p
        /\ change'[c].new = change[c].new /\ change'[c] \in ChangeRow
    BY <1>3, <1>4 DEF ChangeRow
  <1>6. TypeOK'
    <2>1. change' \in [Changes -> {NoChange} \cup ChangeRow]
      BY <1>1, <1>3, <1>4, <1>5 DEF TypeOK
    <2>2. email' \in [People -> Addresses \cup {NoAddress}] /\ moved' \subseteq Changes
      BY <1>1, <1>3 DEF TypeOK, Swap, Of
    <2>3. req' \in [Requests -> Transactions]
      BY <1>1, EndedRequests
    <2> QED BY <1>1, <2>1, <2>2, <2>3 DEF TypeOK
  <1>0. \A q \in Requests \ {r} :
            Following(q) => change'[req[q].change] = change[req[q].change]
    BY <1>1, <1>2, <1>4, FollowedParts DEF LinkInv, LinksAreHeldAlone
  <1>7. FollowersAgree' /\ LinksAreHeldAlone' /\ OwnersAreHeldAlone'
    BY <1>0, EndedHolds DEF LinkInv
  <1>8. AddressesAreSeen'
    <2>1. Holding(r, p)
      BY <1>2 DEF Holding
    <2>2. \A q \in Requests \ {r} : ~(req[q].at = "asking" /\ req[q].owner = p)
      BY <1>3, <2>1 DEF LinkInv, OwnersAreHeldAlone, Holding
    <2> QED BY <1>1, <1>3, <1>4, <1>5, <2>2, SwapSeen
  <1>9. LooksHold'
    BY <1>0, <1>1, <1>3, SwapLooks
  <1>10. SessionsAreOfAccounts'
    BY <1>1, <1>3, SwapSessions
  <1> QED BY <1>6, <1>7, <1>8, <1>9, <1>10 DEF LinkInv

LEMMA RevertStep ==
    ASSUME LinkInv, NEW r \in Requests, NEW owners, CommitRevert(r, owners)
    PROVE  LinkInv'
  <1> DEFINE c == req[r].change
             p == change[c].owner
  <1> USE DEF CommitRevert
  <1>1. TypeOK /\ FollowersAgree /\ AddressesAreSeen /\ LooksHold /\ SessionsAreOfAccounts
    BY DEF LinkInv
  <1>2. Following(r) /\ req[r].at = "reverting"
    BY DEF Following
  <1>3. /\ c \in Changes /\ p \in People /\ change[c] \in ChangeRow
        /\ change[c].old \in Addresses
    BY <1>1, <1>2, FollowedParts DEF ChangeRow
  <1>4. /\ change'[c] = [change[c] EXCEPT !.state = "reverted"]
        /\ \A d \in Changes \ {c} : change'[d] = change[d]
    BY <1>1, <1>3 DEF TypeOK
  <1>5. /\ change'[c].state = "reverted" /\ change'[c].owner = p
        /\ change'[c] \in ChangeRow
    BY <1>3, <1>4 DEF ChangeRow
  <1>6. TypeOK'
    <2>1. change' \in [Changes -> {NoChange} \cup ChangeRow]
      BY <1>1, <1>3, <1>4, <1>5 DEF TypeOK
    <2>2. email' \in [People -> Addresses \cup {NoAddress}] /\ moved' \subseteq Changes
      BY <1>1, <1>3 DEF TypeOK, Swap, Of
    <2>3. req' \in [Requests -> Transactions]
      BY <1>1, EndedRequests
    <2> QED BY <1>1, <1>3, <2>1, <2>2, <2>3 DEF TypeOK
  <1>0. \A q \in Requests \ {r} :
            Following(q) => change'[req[q].change] = change[req[q].change]
    BY <1>1, <1>2, <1>4, FollowedParts DEF LinkInv, LinksAreHeldAlone
  <1>7. FollowersAgree' /\ LinksAreHeldAlone' /\ OwnersAreHeldAlone'
    BY <1>0, EndedHolds DEF LinkInv
  <1>8. AddressesAreSeen'
    <2>1. \A q \in Requests : ~(req[q].at = "asking" /\ req[q].owner = p)
      BY DEF OwnerLocked, Holding
    <2> QED BY <1>1, <1>3, <1>4, <1>5, <2>1, SwapSeen
  <1>9. LooksHold'
    BY <1>0, <1>1, <1>3, SwapLooks
  <1>10. SessionsAreOfAccounts'
    BY <1>1, <1>3, SwapSessions
  <1> QED BY <1>6, <1>7, <1>8, <1>9, <1>10 DEF LinkInv

(***************************************************************************)
(* A request that moves on, while no row changes.                          *)
(***************************************************************************)
LEMMA RequestMoves ==
    ASSUME LinkInv, NEW r \in Requests, NEW o \in Transactions,
           req' = [req EXCEPT ![r] = o], Quiet, live' = live,
           o.at \in {"verifying", "swapping", "reverting"} =>
              /\ change[o.change].state = IF o.at = "reverting" THEN "verified" ELSE "asked"
              /\ \A q \in Requests \ {r} : Following(q) => req[q].change # o.change,
           o.at = "asking" =>
              /\ email[o.owner] = o.old
              /\ \A q \in Requests \ {r} : ~Holding(q, o.owner),
           o.at = "swapping" =>
              /\ \A q \in Requests \ {r} : ~Holding(q, change[o.change].owner)
              /\ Free(change[o.change].new, change[o.change].owner)
    PROVE  LinkInv'
  <1> USE DEF Quiet
  <1>1. req'[r] = o /\ \A q \in Requests \ {r} : req'[q] = req[q]
    BY DEF LinkInv, TypeOK
  <1>2. TypeOK'
    BY DEF LinkInv, TypeOK
  <1>3. FollowersAgree'
    BY <1>1 DEF LinkInv, FollowersAgree, Following
  <1>4. LinksAreHeldAlone'
    BY <1>1 DEF LinkInv, LinksAreHeldAlone, Following
  <1>5. OwnersAreHeldAlone'
    <2>1. ASSUME NEW q \in Requests, NEW p \in People, q # r
          PROVE  Holding(q, p)' <=> Holding(q, p)
      BY <1>1, <2>1 DEF Holding
    <2>2. ASSUME NEW q \in Requests, NEW p \in People, q # r, Holding(q, p)', Holding(r, p)'
          PROVE  FALSE
      BY <1>1, <2>1, <2>2 DEF Holding
    <2>3. \A q, x \in Requests, p \in People : Holding(q, p) /\ Holding(x, p) => q = x
      BY DEF LinkInv, OwnersAreHeldAlone
    <2> QED BY <2>1, <2>2, <2>3 DEF OwnersAreHeldAlone
  <1>6. AddressesAreSeen'
    BY <1>1 DEF LinkInv, AddressesAreSeen
  <1>7. LooksHold'
    BY <1>1 DEF LinkInv, LooksHold, Free
  <1>8. SessionsAreOfAccounts'
    BY DEF LinkInv, SessionsAreOfAccounts, Exists
  <1> QED BY <1>2, <1>3, <1>4, <1>5, <1>6, <1>7, <1>8 DEF LinkInv

LEMMA LoginStep ==
    ASSUME LinkInv, NEW p \in People, Login(p)
    PROVE  LinkInv'
  BY DEF Login, LinkInv, TypeOK, FollowersAgree, LinksAreHeldAlone, OwnersAreHeldAlone,
         AddressesAreSeen, LooksHold, SessionsAreOfAccounts, Exists, Following, Holding, Free

LEMMA AskStep ==
    ASSUME LinkInv, NEW r \in Requests, NEW p \in People, NEW new \in Addresses,
           LockOwner(r, p, new)
    PROVE  LinkInv'
  <1> DEFINE o == [at |-> "asking", owner |-> p, old |-> email[p], new |-> new]
  <1>1. o \in Transactions
    BY TransactionKinds DEF LinkInv, SessionsAreOfAccounts, Exists, LockOwner
  <1>2. \A q \in Requests : ~Holding(q, p)
    BY DEF LockOwner, OwnerLocked
  <1> QED BY <1>1, <1>2, RequestMoves DEF LockOwner, Begin, Quiet

LEMMA FollowStep ==
    ASSUME LinkInv, NEW r \in Requests, NEW c \in Changes,
           LockToVerify(r, c) \/ LockToRevert(r, c)
    PROVE  LinkInv'
  <1> USE DEF Follow, Begin, Quiet
  <1>1. \A q \in Requests : Following(q) => req[q].change # c
    BY DEF LockToVerify, LockToRevert, ChangeLocked
  <1>2. CASE LockToVerify(r, c)
    <2>1. [at |-> "verifying", change |-> c] \in Transactions
      BY TransactionKinds
    <2> QED BY <1>1, <1>2, <2>1, RequestMoves DEF LockToVerify
  <1>3. CASE LockToRevert(r, c)
    <2>1. [at |-> "reverting", change |-> c] \in Transactions
      BY TransactionKinds
    <2> QED BY <1>1, <1>3, <2>1, RequestMoves DEF LockToRevert
  <1> QED BY <1>2, <1>3

LEMMA CheckStep ==
    ASSUME LinkInv, NEW r \in Requests, LockAndCheck(r)
    PROVE  LinkInv'
  <1> DEFINE c == req[r].change
             o == [at |-> "swapping", change |-> c, crossed |-> FALSE]
  <1>1. Following(r) /\ req[r].at = "verifying"
    BY DEF LockAndCheck, Following
  <1>2. c \in Changes /\ change[c].state = "asked"
    BY <1>1, FollowedParts DEF LinkInv, FollowersAgree
  <1>3. o \in Transactions
    BY <1>2, TransactionKinds
  <1>4. \A q \in Requests \ {r} : Following(q) => req[q].change # c
    BY <1>1 DEF LinkInv, LinksAreHeldAlone
  <1>5. \A q \in Requests : ~Holding(q, change[c].owner)
    BY DEF LockAndCheck, OwnerLocked
  <1> QED BY <1>2, <1>3, <1>4, <1>5, RequestMoves DEF LockAndCheck, Quiet

LEMMA AbortStep ==
    ASSUME LinkInv, NEW r \in Requests, Abort(r)
    PROVE  LinkInv'
  BY TransactionKinds, RequestMoves DEF Abort, Quiet, Idle

LEMMA InsertStep ==
    ASSUME LinkInv, NEW r \in Requests, NEW c \in Changes, InsertChange(r, c)
    PROVE  LinkInv'
  <1> DEFINE p == req[r].owner
  <1> USE DEF InsertChange
  <1>1. TypeOK /\ FollowersAgree /\ AddressesAreSeen
    BY DEF LinkInv
  <1>2. p \in People /\ req[r].old \in Addresses /\ req[r].new \in Addresses
    BY <1>1, TransactionParts DEF TypeOK
  <1>3. /\ change'[c] = [state |-> "asked", owner |-> p, old |-> req[r].old, new |-> req[r].new]
        /\ \A d \in Changes \ {c} :
              \/ change'[d] = change[d]
              \/ d \in Of(p, "asked") /\ change'[d] = [change[d] EXCEPT !.state = "cancelled"]
    BY <1>1 DEF TypeOK
  <1>4. \A d \in Of(p, "asked") :
            /\ change[d] \in ChangeRow
            /\ [change[d] EXCEPT !.state = "cancelled"] \in ChangeRow
            /\ [change[d] EXCEPT !.state = "cancelled"].state = "cancelled"
    BY <1>1, ChangeParts DEF Of, ChangeRow
  <1>5. req'[r] = Idle /\ \A q \in Requests \ {r} : req'[q] = req[q]
    BY <1>1 DEF TypeOK
  <1>6. TypeOK'
    <2>1. change'[c] \in ChangeRow
      BY <1>2, <1>3 DEF ChangeRow
    <2>2. change' \in [Changes -> {NoChange} \cup ChangeRow]
      BY <1>1, <1>3, <1>4, <2>1 DEF TypeOK
    <2>3. req' \in [Requests -> Transactions]
      BY <1>1, TransactionKinds DEF TypeOK
    <2> QED BY <1>1, <2>2, <2>3 DEF TypeOK
  <1>7. ASSUME NEW q \in Requests, Following(q)'
        PROVE  /\ q # r /\ Following(q) /\ req'[q] = req[q]
               /\ change'[req[q].change] = change[req[q].change]
    <2>1. q # r /\ req'[q] = req[q] /\ Following(q)
      BY <1>5, <1>7 DEF Following, Idle
    <2>2. req[q].change \in Changes /\ change[req[q].change].state # "none"
      BY <1>1, <2>1, FollowedParts
    <2>3. req[q].change # c
      BY <2>2 DEF NoChange
    <2>4. req[q].change \notin Of(p, "asked")
      BY <2>1 DEF ChangeLocked
    <2> QED BY <1>3, <2>1, <2>2, <2>3, <2>4
  <1>8. FollowersAgree' /\ LinksAreHeldAlone'
    <2>1. FollowersAgree'
      <3> SUFFICES ASSUME NEW q \in Requests, Following(q)'
                   PROVE  change'[req'[q].change].state =
                             IF req'[q].at = "reverting" THEN "verified" ELSE "asked"
        BY DEF FollowersAgree
      <3>1. /\ req'[q] = req[q] /\ Following(q)
            /\ change'[req[q].change] = change[req[q].change]
        BY <1>7
      <3> QED BY <1>1, <3>1 DEF FollowersAgree
    <2>2. LinksAreHeldAlone'
      BY <1>7 DEF LinkInv, LinksAreHeldAlone
    <2> QED BY <2>1, <2>2
  <1>9. OwnersAreHeldAlone'
    <2>1. ASSUME NEW q \in Requests, NEW x \in People, Holding(q, x)'
          PROVE  Holding(q, x)
      <3>1. CASE req'[q].at = "asking"
        BY <1>5, <2>1, <3>1 DEF Holding, Idle
      <3>2. CASE req'[q].at = "swapping"
        <4>1. Following(q)'
          BY <3>2 DEF Following
        <4>2. req'[q] = req[q] /\ change'[req[q].change] = change[req[q].change]
          BY <1>5, <1>7, <4>1
        <4> QED BY <2>1, <3>2, <4>2 DEF Holding
      <3> QED BY <2>1, <3>1, <3>2 DEF Holding
    <2>2. \A q, x \in Requests, y \in People : Holding(q, y) /\ Holding(x, y) => q = x
      BY DEF LinkInv, OwnersAreHeldAlone
    <2> QED BY <2>1, <2>2 DEF OwnersAreHeldAlone
  <1>10. AddressesAreSeen'
    <2>1. email[p] = req[r].old
      BY <1>1 DEF AddressesAreSeen
    <2>2. ASSUME NEW q \in Requests, req'[q].at = "asking"
          PROVE  email'[req'[q].owner] = req'[q].old
      BY <1>1, <1>5, <2>2 DEF AddressesAreSeen, Idle
    <2>3. ASSUME NEW d \in Changes \ moved, change'[d].state \in {"asked", "verified"}
          PROVE  /\ change'[d].state = "asked" => email[change'[d].owner] = change'[d].old
                 /\ change'[d].state = "verified" => email[change'[d].owner] = change'[d].new
      <3>1. CASE d = c
        BY <1>3, <2>1, <3>1
      <3>2. CASE d # c
        <4>1. change'[d] = change[d]
          BY <1>3, <1>4, <2>3, <3>2
        <4> QED BY <1>1, <4>1 DEF AddressesAreSeen
      <3> QED BY <3>1, <3>2
    <2> QED BY <2>2, <2>3 DEF AddressesAreSeen
  <1>11. LooksHold'
    <2> SUFFICES ASSUME NEW q \in Requests, req'[q].at = "swapping", ~req'[q].crossed
                 PROVE  Free(change[req[q].change].new, change[req[q].change].owner)'
      BY DEF LooksHold
    <2>1. Following(q)'
      BY DEF Following
    <2>2. req'[q] = req[q] /\ change'[req[q].change] = change[req[q].change]
      BY <1>7, <2>1
    <2>3. Free(change[req[q].change].new, change[req[q].change].owner)
      BY <2>2 DEF LinkInv, LooksHold
    <2> QED BY <2>2, <2>3 DEF Free
  <1>12. SessionsAreOfAccounts'
    BY DEF LinkInv, SessionsAreOfAccounts, Exists
  <1> QED BY <1>6, <1>8, <1>9, <1>10, <1>11, <1>12 DEF LinkInv

(***************************************************************************)
(* The theorems.                                                           *)
(***************************************************************************)

LEMMA InitLinks == Init => LinkInv
  <1> SUFFICES ASSUME Init PROVE LinkInv
    OBVIOUS
  <1>1. TypeOK
    BY TransactionKinds DEF Init, TypeOK
  <1>2. FollowersAgree /\ LinksAreHeldAlone /\ OwnersAreHeldAlone /\ AddressesAreSeen
    BY DEF Init, FollowersAgree, LinksAreHeldAlone, OwnersAreHeldAlone, AddressesAreSeen,
           Following, Holding, Idle, NoChange
  <1>3. LooksHold
    BY DEF Init, LooksHold, Idle
  <1>4. SessionsAreOfAccounts
    BY DEF Init, SessionsAreOfAccounts
  <1> QED BY <1>1, <1>2, <1>3, <1>4 DEF LinkInv

LEMMA StepLinks == LinkInv /\ [Next]_vars => LinkInv'
  <1> SUFFICES ASSUME LinkInv, [Next]_vars PROVE LinkInv'
    OBVIOUS
  <1>1. CASE Next
    BY <1>1, Steps, CreateStep, LoginStep, CorrectionStep, AskStep, InsertStep, FollowStep,
       CheckStep, VerifyStep, RevertStep, AbortStep
  <1>2. CASE UNCHANGED vars
    BY <1>2 DEF vars, LinkInv, TypeOK, FollowersAgree, LinksAreHeldAlone, OwnersAreHeldAlone,
                AddressesAreSeen, LooksHold, SessionsAreOfAccounts, Exists, Following,
                Holding, Free
  <1> QED BY <1>1, <1>2

\* Links and accounts are held by one request at a time, and what it has looked at
\* holds until it commits or is crossed.
THEOREM LinkInvariant == Spec => []LinkInv
  BY InitLinks, StepLinks, PTL DEF Spec

\* Accounts, links and requests have the types the code gives them.
THEOREM LinkTypeCorrect == Spec => []TypeOK
  <1>1. LinkInv => TypeOK
    BY DEF LinkInv
  <1> QED BY <1>1, LinkInvariant, PTL

\* However changes, reverts, creations and corrections overlap, an address comes to be
\* shared across the tables only, and by a verified change only if the address was given
\* to the other account after the look for it.
THEOREM SharingExplained == Spec => SharedAddressIsExplained
  <1> DEFINE Explained ==
        \A p, q \in People :
            p # q /\ email[p] # email[q] /\ email'[p] = email'[q] =>
                /\ TableOf(p) # TableOf(q)
                /\ \A r \in Requests : Verifies(r) => req[r].crossed
  <1>1. ASSUME LinkInv, Next
        PROVE  Explained
    <2>0. TypeOK /\ FollowersAgree /\ LooksHold
      BY <1>1 DEF LinkInv
    <2>1. CASE email' = email
      BY <2>1
    <2>2. ASSUME NEW p \in People, NEW address \in Addresses, Unique(address, p),
                 Swap(p, address, {}), change' = change
          PROVE  Explained
      <3>1. \A r \in Requests : ~Verifies(r)
        BY <2>0, <2>2 DEF Verifies, FollowersAgree, Following
      <3> QED BY <2>0, <2>2, <3>1, SwapShares
    <2>3. ASSUME NEW p \in People, NEW address \in Addresses, Create(p, address)
          PROVE  Explained
      BY <2>2, <2>3 DEF Create
    <2>4. ASSUME NEW u \in Users, NEW address \in Addresses,
                 AdminUpdateCustomerUserEmail(u, address)
          PROVE  Explained
      <3>1. u \in People
        BY DEF People
      <3> QED BY <2>2, <2>4, <3>1 DEF AdminUpdateCustomerUserEmail
    <2>5. ASSUME NEW r \in Requests, NEW owners, CommitRevert(r, owners)
          PROVE  Explained
      <3> DEFINE c == req[r].change
                 p == change[c].owner
      <3>1. Following(r) /\ change[c].state = "verified"
        BY <2>0, <2>5 DEF CommitRevert, Following, FollowersAgree
      <3>2. c \in Changes /\ p \in People /\ change[c].old \in Addresses
        BY <2>0, <3>1, FollowedParts DEF ChangeRow
      <3>3. ASSUME NEW q \in Requests, Verifies(q)
            PROVE  FALSE
        <4>1. change[req[q].change].state = "asked"
          BY <2>0, <3>3 DEF Verifies, FollowersAgree, Following
        <4>2. change'[req[q].change] = change[req[q].change]
          BY <2>0, <2>5, <3>1, <4>1 DEF CommitRevert, TypeOK
        <4> QED BY <3>3, <4>1, <4>2 DEF Verifies
      <3>4. Unique(change[c].old, p) /\ Swap(p, change[c].old, {c})
        BY <2>5 DEF CommitRevert
      <3> HIDE DEF c, p
      <3> QED BY <2>0, <3>2, <3>3, <3>4, SwapShares
    <2>6. ASSUME NEW r \in Requests, NEW owners, CommitVerify(r, owners)
          PROVE  Explained
      <3> DEFINE c == req[r].change
                 p == change[c].owner
      <3>1. Following(r) /\ req[r].at = "swapping"
        BY <2>6 DEF CommitVerify, Following
      <3>2. c \in Changes /\ p \in People /\ change[c].new \in Addresses
        BY <2>0, <3>1, FollowedParts DEF ChangeRow
      <3>3. ASSUME NEW q \in Requests, Verifies(q)
            PROVE  q = r
        <4>1. Following(q) /\ change[req[q].change].state = "asked"
          BY <2>0, <3>3 DEF Verifies, FollowersAgree, Following
        <4>2. req[q].change # c => change'[req[q].change] = change[req[q].change]
          BY <2>0, <2>6 DEF CommitVerify, TypeOK
        <4>3. req[q].change = c
          BY <3>3, <4>1, <4>2 DEF Verifies
        <4> QED BY <1>1, <3>1, <4>1, <4>3 DEF LinkInv, LinksAreHeldAlone
      <3>4. Unique(change[c].new, p) /\ Swap(p, change[c].new, {c})
        BY <2>6 DEF CommitVerify
      <3>5. ~req[r].crossed => Free(change[c].new, p)
        BY <2>0, <3>1 DEF LooksHold
      <3> HIDE DEF c, p
      <3> QED BY <2>0, <3>2, <3>3, <3>4, <3>5, SwapShares
    <2> QED BY <1>1, <2>1, <2>3, <2>4, <2>5, <2>6, Steps
            DEF Login, LockOwner, InsertChange, LockToVerify, LockToRevert, Follow,
                LockAndCheck, Abort
  <1>2. ASSUME UNCHANGED vars
        PROVE  Explained
    BY <1>2 DEF vars
  <1>3. LinkInv /\ [Next]_vars => [Explained]_vars
    BY <1>1
  <1> QED BY <1>3, LinkInvariant, PTL DEF Spec, SharedAddressIsExplained

\* What one step may make of a link: nothing, or the next state of its life.
Onward(c) ==
    \/ change'[c] = change[c]
    \/ change[c].state = "none" /\ change'[c].state = "asked"
    \/ change[c].state = "asked" /\ change'[c].state = "cancelled"
    \/ /\ change[c].state = "asked" /\ change'[c].state = "verified"
       /\ change'[c].owner = change[c].owner
    \/ change[c].state = "verified" /\ change'[c].state = "reverted"

LEMMA LinksGoOn ==
    ASSUME LinkInv, Next, NEW c \in Changes
    PROVE  Onward(c)
  <1>1. TypeOK /\ FollowersAgree
    BY DEF LinkInv
  <1>2. ASSUME NEW r \in Requests, NEW d \in Changes, InsertChange(r, d)
        PROVE  Onward(c)
    <2>1. CASE c = d
      BY <1>1, <1>2, <2>1 DEF InsertChange, TypeOK, NoChange, Onward
    <2>2. CASE c # d /\ c \in Of(req[r].owner, "asked")
      <3>1. change[c] \in ChangeRow /\ change[c].state = "asked"
        BY <1>1, <2>2, ChangeParts DEF Of
      <3>2. change'[c] = [change[c] EXCEPT !.state = "cancelled"]
        BY <1>2, <2>2 DEF InsertChange
      <3> QED BY <3>1, <3>2 DEF ChangeRow, Onward
    <2>3. CASE c # d /\ c \notin Of(req[r].owner, "asked")
      BY <1>2, <2>3 DEF InsertChange, Onward
    <2> QED BY <2>1, <2>2, <2>3
  <1>3. ASSUME NEW r \in Requests, NEW owners, CommitVerify(r, owners)
        PROVE  Onward(c)
    <2>1. Following(r) /\ req[r].at = "swapping"
      BY <1>3 DEF CommitVerify, Following
    <2>2. change[req[r].change].state = "asked" /\ change[req[r].change] \in ChangeRow
      BY <1>1, <2>1, FollowedParts DEF FollowersAgree
    <2>3. change' = [change EXCEPT ![req[r].change].state = "verified"]
      BY <1>3 DEF CommitVerify
    <2>4. CASE c = req[r].change
      <3>1. change'[c] = [change[c] EXCEPT !.state = "verified"]
        BY <1>1, <2>3, <2>4 DEF TypeOK
      <3> QED BY <2>2, <2>4, <3>1 DEF ChangeRow, Onward
    <2>5. CASE c # req[r].change
      BY <1>1, <2>3, <2>5 DEF TypeOK, Onward
    <2> QED BY <2>4, <2>5
  <1>4. ASSUME NEW r \in Requests, NEW owners, CommitRevert(r, owners)
        PROVE  Onward(c)
    <2>1. Following(r) /\ req[r].at = "reverting"
      BY <1>4 DEF CommitRevert, Following
    <2>2. change[req[r].change].state = "verified" /\ change[req[r].change] \in ChangeRow
      BY <1>1, <2>1, FollowedParts DEF FollowersAgree
    <2>3. change' = [change EXCEPT ![req[r].change].state = "reverted"]
      BY <1>4 DEF CommitRevert
    <2>4. CASE c = req[r].change
      <3>1. change'[c] = [change[c] EXCEPT !.state = "reverted"]
        BY <1>1, <2>3, <2>4 DEF TypeOK
      <3> QED BY <2>2, <2>4, <3>1 DEF ChangeRow, Onward
    <2>5. CASE c # req[r].change
      BY <1>1, <2>3, <2>5 DEF TypeOK, Onward
    <2> QED BY <2>4, <2>5
  <1>5. ASSUME UNCHANGED change
        PROVE  Onward(c)
    BY <1>5 DEF Onward
  <1> QED BY <1>2, <1>3, <1>4, <1>5, Steps
          DEF Create, Login, AdminUpdateCustomerUserEmail, LockOwner, LockToVerify, LockToRevert,
              Follow, LockAndCheck, Abort

\* A mailed link works once, and not after a newer request has cancelled it, also when
\* it was being followed as the newer one came.
THEOREM LinksWork == Spec => LinksWorkOnce
  <1> DEFINE Lives ==
        \A c \in Changes : change'[c].state # change[c].state =>
            <<change[c].state, change'[c].state>> \in
                {<<"none", "asked">>, <<"asked", "cancelled">>, <<"asked", "verified">>,
                 <<"verified", "reverted">>}
  <1>1. LinkInv /\ [Next]_vars => [Lives]_change
    <2>1. ASSUME LinkInv, Next PROVE Lives
      BY <2>1, LinksGoOn DEF Onward
    <2>2. ASSUME UNCHANGED vars PROVE UNCHANGED change
      BY <2>2 DEF vars
    <2> QED BY <2>1, <2>2
  <1> QED BY <1>1, LinkInvariant, PTL DEF Spec, LinksWorkOnce

\* The notice of a change reaches the address that is left, and a revert undoes the
\* change it was mailed for, unless something else has moved the address since.
THEOREM NoticesReach == Spec => NoticesReachTheAddressLeft
  <1> DEFINE Reached ==
        \A c \in Changes :
          /\ change[c].state = "asked" /\ change'[c].state = "verified" /\ c \notin moved =>
                email[change[c].owner] = change[c].old
          /\ change[c].state = "verified" /\ change'[c].state = "reverted" /\ c \notin moved =>
                email[change[c].owner] = change[c].new
  <1>1. LinkInv => Reached
    BY DEF LinkInv, AddressesAreSeen
  <1> QED BY <1>1, LinkInvariant, PTL DEF NoticesReachTheAddressLeft
=============================================================================
