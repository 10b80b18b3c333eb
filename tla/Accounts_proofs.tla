--------------------------- MODULE Accounts_proofs ---------------------------
(***************************************************************************)
(* Theorems about a customer's accounts, for every set of users, of        *)
(* sessions and of requests in flight and whatever the bounds.             *)
(***************************************************************************)
EXTENDS Accounts, TLAPS

\* What a suspension or an archival and the sessions rely on, and what links do.
ClosingInv == ClosersAlone /\ SuspendsActive /\ MintersMeet /\ ClosersKnow /\ SurvivorsOverlapped
LinkInv    == HoldersAlone /\ LinksAreLast

\* What an operation refers to, by its kind.
LEMMA OperationParts ==
    ASSUME NEW o \in Operations
    PROVE  /\ o.op \in MintingOps =>
                 o.user \in Users /\ o.link \in Nat /\ o.since \in Nat /\ o.met \in BOOLEAN
           /\ o.op \in {"request", "authreset"} => o.user \in Users
           /\ o.op = "second" => o.sid \in Sids
           /\ o.op \in {"suspend", "archive", "authreset"} => o.rows \subseteq Sids
           /\ o.op = "idle" => o = Idle
  BY DEF Operations, Idle, MintingOps

LEMMA OperationKinds ==
    /\ Idle \in Operations
    /\ \A op \in MintingOps, u \in Users, n, e \in Nat, met \in BOOLEAN :
          [op |-> op, user |-> u, link |-> n, since |-> e, met |-> met] \in Operations
    /\ \A u \in Users : [op |-> "request", user |-> u] \in Operations
    /\ \A s \in Sids : [op |-> "second", sid |-> s] \in Operations
    /\ \A op \in {"suspend", "archive"}, rows \in SUBSET Sids :
          [op |-> op, rows |-> rows] \in Operations
    /\ \A u \in Users, rows \in SUBSET Sids :
          [op |-> "authreset", user |-> u, rows |-> rows] \in Operations
  BY DEF Operations, Idle, MintingOps

\* An operation that is met is what it was.
LEMMA MetParts ==
    ASSUME NEW o \in Operations, o.op \in MintingOps
    PROVE  LET m == [o EXCEPT !.met = TRUE] IN
              /\ m \in Operations
              /\ m.op = o.op /\ m.user = o.user /\ m.link = o.link /\ m.since = o.since /\ m.met
  <1>1. o \in [op : MintingOps, user : Users, link : Nat, since : Nat, met : BOOLEAN]
    BY DEF Operations, MintingOps
  <1> QED BY <1>1 DEF Operations

\* A reset that is granted the row is what it was.
LEMMA GrantedParts ==
    ASSUME NEW o \in Operations, o.op = "waiting"
    PROVE  LET g == [o EXCEPT !.op = "reset"] IN
              /\ g \in Operations
              /\ g.op = "reset" /\ g.user = o.user /\ g.link = o.link
              /\ g.since = o.since /\ g.met = o.met
  <1>1. o \in [op : MintingOps, user : Users, link : Nat, since : Nat, met : BOOLEAN]
    BY DEF Operations, MintingOps
  <1> QED BY <1>1 DEF Operations, MintingOps

\* A session that exists is a row, and the others are not live.
LEMMA SessionParts ==
    ASSUME TypeOK, NEW s \in Sids
    PROVE  /\ Exists(s) => sess[s] \in Session
           /\ sess[s] \in {Unused, Gone} => ~Exists(s)
  BY DEF TypeOK, Exists, Session, Unused, Gone

\* One request moves on, and the others are as they were.
LEMMA OneMoves ==
    ASSUME TypeOK, NEW r \in Requests, NEW o \in Operations, req' = [req EXCEPT ![r] = o]
    PROVE  /\ req' \in [Requests -> Operations]
           /\ req'[r] = o
           /\ \A q \in Requests \ {r} : req'[q] = req[q]
  BY DEF TypeOK

\* A session is minted as the operation says.
LEMMA Minting ==
    ASSUME TypeOK, NEW r \in Requests, Mints(r), NEW level \in {"half", "full"}, Mint(r, level)
    PROVE  /\ sess' \in [Sids -> Session \cup {Unused, Gone}]
           /\ \A s \in Sids :
                 \/ sess'[s] = sess[s]
                 \/ /\ sess'[s].since = req[r].since /\ sess'[s].met = req[r].met
                    /\ Exists(s)'
  <1>1. PICK s \in Sids :
          /\ sess[s] = Unused
          /\ sess' = [sess EXCEPT ![s] =
                [user |-> req[r].user, level |-> level, revoked |-> FALSE,
                 since |-> req[r].since, met |-> req[r].met]]
    BY DEF Mint
  <1>2. /\ req[r].user \in Users /\ req[r].since \in Nat /\ req[r].met \in BOOLEAN
    BY OperationParts DEF TypeOK, Mints
  <1>3. [user |-> req[r].user, level |-> level, revoked |-> FALSE,
         since |-> req[r].since, met |-> req[r].met] \in Session
    BY <1>2 DEF Session
  <1>4. sess' \in [Sids -> Session \cup {Unused, Gone}]
    BY <1>1, <1>3 DEF TypeOK
  <1>5. /\ sess'[s].since = req[r].since /\ sess'[s].met = req[r].met /\ sess'[s].level = level
        /\ \A t \in Sids \ {s} : sess'[t] = sess[t]
    BY <1>1 DEF TypeOK
  <1> QED BY <1>4, <1>5 DEF Exists

(***************************************************************************)
(* What keeps the two parts, whichever the action.                         *)
(***************************************************************************)

\* Every live session was live before, or is minted by one of the requests that move.
SessionsFollow(moving) ==
    \A s \in Sids : Live(s)' =>
        \/ Live(s) /\ sess'[s].since = sess[s].since /\ sess'[s].met = sess[s].met
        \/ \E r \in moving : /\ Mints(r) /\ sess'[s].since = req[r].since
                             /\ sess'[s].met = req[r].met

\* No customer is closed or reopened, and an operation that begins to mint knows
\* whether a suspension is under way.
LEMMA ClosingKept ==
    ASSUME AccountsInv, NEW moving \in SUBSET Requests, UNCHANGED <<status, epoch>>,
           \A q \in Requests \ moving : req'[q] = req[q],
           \A r \in moving : ~Closes(r)',
           \A r \in moving : Mints(r)' =>
              \/ req'[r].since = epoch /\ (CustomerLocked => req'[r].met)
              \/ Mints(r) /\ req'[r].since = req[r].since /\ req'[r].met = req[r].met,
           SessionsFollow(moving)
    PROVE  ClosingInv'
  <1>1. TypeOK /\ ClosersAlone /\ SuspendsActive /\ MintersMeet /\ ClosersKnow
        /\ SurvivorsOverlapped
    BY DEF AccountsInv
  <1>2. ASSUME NEW q \in Requests, Closes(q)'
        PROVE  Closes(q) /\ req'[q] = req[q]
    BY <1>2 DEF Closes
  <1>3. ClosersAlone'
    BY <1>1, <1>2 DEF ClosersAlone
  <1>4. SuspendsActive'
    BY <1>1, <1>2 DEF SuspendsActive, Closes
  <1>5. CustomerLocked' => CustomerLocked
    BY <1>2 DEF CustomerLocked
  <1>6. MintersMeet'
    <2> SUFFICES ASSUME NEW q \in Requests, Mints(q)', CustomerLocked' \/ req'[q].since < epoch
                 PROVE  req'[q].met
      BY DEF MintersMeet
    <2>1. CASE q \in moving
      BY <1>1, <1>5, <2>1 DEF TypeOK, MintersMeet
    <2>2. CASE q \notin moving
      BY <1>1, <1>5, <2>2 DEF MintersMeet, Mints
    <2> QED BY <2>1, <2>2
  <1>7. ClosersKnow'
    <2> SUFFICES ASSUME NEW q \in Requests, NEW s \in Sids, Closes(q)', Live(s)',
                        ~sess'[s].met
                 PROVE  s \in req'[q].rows
      BY DEF ClosersKnow
    <2>1. Closes(q) /\ req'[q] = req[q] /\ CustomerLocked
      BY <1>2 DEF CustomerLocked
    <2>2. CASE Live(s) /\ ~sess[s].met
      BY <1>1, <2>1, <2>2 DEF ClosersKnow
    <2>3. ASSUME NEW r \in moving, Mints(r), sess'[s].met = req[r].met
          PROVE  FALSE
      BY <1>1, <2>1, <2>3 DEF MintersMeet
    <2> QED BY <2>2, <2>3 DEF SessionsFollow
  <1>8. SurvivorsOverlapped'
    <2> SUFFICES ASSUME NEW s \in Sids, Live(s)', sess'[s].since < epoch
                 PROVE  sess'[s].met
      BY DEF SurvivorsOverlapped
    <2>1. CASE Live(s) /\ sess'[s].since = sess[s].since /\ sess'[s].met = sess[s].met
      BY <1>1, <2>1 DEF SurvivorsOverlapped
    <2>2. ASSUME NEW r \in moving, Mints(r), sess'[s].since = req[r].since,
                 sess'[s].met = req[r].met
          PROVE  sess'[s].met
      BY <1>1, <2>2 DEF MintersMeet
    <2> QED BY <2>1, <2>2 DEF SessionsFollow
  <1> QED BY <1>3, <1>4, <1>6, <1>7, <1>8 DEF ClosingInv

\* Whoever takes a user's row finds it free, the others hold what they held, and the
\* rows they hold stay.
TakesFree(moving) ==
    \A r \in moving, u \in Users : Holds(r, u)' =>
        /\ \A q \in Requests \ {r} : ~Holds(q, u)
        /\ req'[r].op \in {"welcome", "reset"} =>
              req'[r].link = Len(links'[u]) /\ ~user'[u].used
OthersHold(moving) ==
    \A q \in Requests \ moving :
        \/ req'[q] = req[q]
        \/ /\ Mints(q) /\ req'[q].op = req[q].op /\ req'[q].user = req[q].user
           /\ req'[q].link = req[q].link
HeldStays(moving) ==
    \A q \in Requests \ moving, u \in Users : Holds(q, u) =>
        links'[u] = links[u] /\ user'[u].used = user[u].used

LEMMA LinksKept ==
    ASSUME AccountsInv, TypeOK', NEW moving \in SUBSET Requests, \A r, q \in moving : r = q,
           TakesFree(moving), OthersHold(moving), HeldStays(moving)
    PROVE  LinkInv'
  <1> USE DEF TakesFree, OthersHold, HeldStays
  <1>1. TypeOK /\ HoldersAlone /\ LinksAreLast
    BY DEF AccountsInv
  <1>2. ASSUME NEW q \in Requests \ moving, NEW u \in Users
        PROVE  Holds(q, u)' <=> Holds(q, u)
    BY DEF Holds, Mints
  <1>3. HoldersAlone'
    <2> SUFFICES ASSUME NEW q \in Requests, NEW x \in Requests, NEW u \in Users,
                        Holds(q, u)', Holds(x, u)', q # x
                 PROVE  FALSE
      BY DEF HoldersAlone
    <2>1. CASE q \in moving
      BY <1>2, <2>1
    <2>2. CASE x \in moving
      BY <1>2, <2>2
    <2>3. CASE q \notin moving /\ x \notin moving
      BY <1>1, <1>2, <2>3 DEF HoldersAlone
    <2> QED BY <2>1, <2>2, <2>3
  <1>4. LinksAreLast'
    <2> SUFFICES ASSUME NEW q \in Requests, req'[q].op \in {"welcome", "reset"}
                 PROVE  req'[q].link = Len(links'[req'[q].user]) /\ ~user'[req'[q].user].used
      BY DEF LinksAreLast
    <2>1. PICK u \in Users : u = req'[q].user
      BY OperationParts DEF TypeOK, MintingOps
    <2>2. Holds(q, u)'
      BY <2>1 DEF Holds
    <2>3. CASE q \in moving
      BY <2>1, <2>2, <2>3
    <2>4. CASE q \notin moving
      <3>1. Holds(q, u) /\ req[q].op \in {"welcome", "reset"}
            /\ req'[q].user = req[q].user /\ req'[q].link = req[q].link
        BY <1>2, <2>1, <2>2, <2>4 DEF Holds
      <3>2. links'[u] = links[u] /\ user'[u].used = user[u].used
        BY <2>4, <3>1
      <3> QED BY <1>1, <2>1, <3>1, <3>2 DEF LinksAreLast
    <2> QED BY <2>3, <2>4
  <1> QED BY <1>3, <1>4 DEF LinkInv

(***************************************************************************)
(* One step, action by action.                                             *)
(***************************************************************************)

\* Requests that begin and read, or begin by taking a user's row.
LEMMA BeginStep ==
    ASSUME AccountsInv, NEW r \in Requests, NEW u \in Users,
           \/ \E n \in 1 .. MaxLinks : LockInvite(r, u, n) \/ BeginReset(r, u, n)
           \/ VerifyLogin(r, u)
    PROVE  AccountsInv'
  <1>1. TypeOK
    BY DEF AccountsInv
  <1>2. PICK op \in MintingOps, n \in Nat :
          /\ StartMinting(r, op, u, n)
          /\ op \in {"welcome", "reset"} => Usable(u, n) /\ ~UserLocked(u)
    BY AccountsAssumption DEF AccountsAssumption, LockInvite, BeginReset, VerifyLogin, MintingOps
  <1>3. UNCHANGED <<status, user, links, sess, epoch>>
    BY DEF LockInvite, BeginReset, VerifyLogin
  <1> DEFINE o == [op |-> op, user |-> u, link |-> n, since |-> epoch, met |-> CustomerLocked]
  <1>4. CustomerLocked \in BOOLEAN
    BY DEF CustomerLocked
  <1>5. o \in Operations
    BY <1>1, <1>4, OperationKinds DEF TypeOK
  <1>6. /\ req' \in [Requests -> Operations] /\ req'[r] = o
        /\ \A q \in Requests \ {r} : req'[q] = req[q]
    BY <1>1, <1>2, <1>5, OneMoves DEF StartMinting, Start
  <1>7. TypeOK'
    BY <1>1, <1>3, <1>6 DEF TypeOK
  <1>8. ClosingInv'
    <2>1. SessionsFollow({r})
      BY <1>3 DEF SessionsFollow, Live, Exists
    <2> QED BY <1>3, <1>6, <2>1, ClosingKept DEF Closes, MintingOps
  <1>9. LinkInv'
    <2>1. ASSUME NEW x \in Users, Holds(r, x)'
          PROVE  /\ \A q \in Requests \ {r} : ~Holds(q, x)
                 /\ req'[r].link = Len(links'[x]) /\ ~user'[x].used
      <3>1. x = u /\ op \in {"welcome", "reset"}
        BY <1>6, <2>1 DEF Holds, MintingOps
      <3> QED BY <1>2, <1>3, <1>6, <3>1 DEF UserLocked, Usable
    <2>2. TakesFree({r})
      BY <2>1 DEF TakesFree
    <2>3. OthersHold({r}) /\ HeldStays({r})
      BY <1>3, <1>6 DEF OthersHold, HeldStays
    <2> QED BY <1>7, <2>2, <2>3, LinksKept
  <1> QED BY <1>7, <1>8, <1>9 DEF AccountsInv, ClosingInv, LinkInv

\* A reset that was waiting for the user's row is granted it.
LEMMA GrantStep ==
    ASSUME AccountsInv, NEW r \in Requests, LockReset(r)
    PROVE  AccountsInv'
  <1>1. TypeOK
    BY DEF AccountsInv
  <1>2. UNCHANGED <<status, user, links, sess, epoch>>
    BY DEF LockReset
  <1> DEFINE o == [req[r] EXCEPT !.op = "reset"]
  <1>3. /\ o \in Operations /\ o.op = "reset" /\ o.user = req[r].user /\ o.link = req[r].link
        /\ o.since = req[r].since /\ o.met = req[r].met
    BY <1>1, GrantedParts DEF LockReset, TypeOK
  <1>4. req' = [req EXCEPT ![r] = o]
    BY DEF LockReset
  <1> HIDE DEF o
  <1>5. /\ req' \in [Requests -> Operations] /\ req'[r] = o
        /\ \A q \in Requests \ {r} : req'[q] = req[q]
    BY <1>1, <1>3, <1>4, OneMoves
  <1>6. TypeOK'
    BY <1>1, <1>2, <1>5 DEF TypeOK
  <1>7. ClosingInv'
    <2>1. SessionsFollow({r})
      BY <1>2 DEF SessionsFollow, Live, Exists
    <2>2. ~Closes(r)' /\ Mints(r)
      BY <1>3, <1>5 DEF Closes, Mints, MintingOps, LockReset
    <2> QED BY <1>2, <1>3, <1>5, <2>1, <2>2, ClosingKept
  <1>8. LinkInv'
    <2>1. ASSUME NEW x \in Users, Holds(r, x)'
          PROVE  /\ \A q \in Requests \ {r} : ~Holds(q, x)
                 /\ req'[r].link = Len(links'[x]) /\ ~user'[x].used
      <3>1. x = req[r].user
        BY <1>3, <1>5, <2>1 DEF Holds
      <3> QED BY <1>2, <1>3, <1>5, <3>1 DEF LockReset, UserLocked, Usable
    <2>2. TakesFree({r})
      BY <2>1 DEF TakesFree
    <2>3. OthersHold({r}) /\ HeldStays({r})
      BY <1>2, <1>5 DEF OthersHold, HeldStays
    <2> QED BY <1>6, <2>2, <2>3, LinksKept
  <1> QED BY <1>6, <1>7, <1>8 DEF AccountsInv, ClosingInv, LinkInv

\* Requests that end and mint a session.
LEMMA MintStep ==
    ASSUME AccountsInv, NEW r \in Requests,
           CompleteWelcome(r) \/ CompleteReset(r) \/ CreateSession(r)
    PROVE  AccountsInv'
  <1>1. TypeOK
    BY DEF AccountsInv
  <1>2. Mints(r) /\ req[r].user \in Users
    BY <1>1, OperationParts
       DEF CompleteWelcome, CompleteReset, CreateSession, Mints, MintingOps, TypeOK
  <1>3. /\ sess' \in [Sids -> Session \cup {Unused, Gone}]
        /\ \A s \in Sids :
              \/ sess'[s] = sess[s]
              \/ /\ sess'[s].since = req[r].since /\ sess'[s].met = req[r].met
                 /\ Exists(s)'
    BY <1>1, <1>2, Minting DEF CompleteWelcome, CompleteReset, CreateSession
  <1>4. /\ req' \in [Requests -> Operations] /\ req'[r] = Idle
        /\ \A q \in Requests \ {r} : req'[q] = req[q]
    BY <1>1, OneMoves, OperationKinds
       DEF CompleteWelcome, CompleteReset, CreateSession, End
  <1>5. UNCHANGED <<status, links, epoch>>
    BY DEF CompleteWelcome, CompleteReset, CreateSession
  <1>6. /\ user' \in [Users -> UserRow]
        /\ \A u \in Users : ~Holds(r, u) => user'[u] = user[u]
    <2>1. CASE CompleteWelcome(r)
      BY <1>1, <1>2, <2>1 DEF CompleteWelcome, TypeOK, UserRow, Holds
    <2>2. CASE CompleteReset(r)
      BY <1>1, <1>2, <2>2 DEF CompleteReset, TypeOK, UserRow, Holds
    <2>3. CASE CreateSession(r)
      BY <1>1, <2>3 DEF CreateSession, TypeOK
    <2> QED BY <2>1, <2>2, <2>3
  <1>7. TypeOK'
    BY <1>1, <1>3, <1>4, <1>5, <1>6 DEF TypeOK
  <1>8. ClosingInv'
    <2>1. SessionsFollow({r})
      <3> SUFFICES ASSUME NEW s \in Sids, Live(s)'
                   PROVE  \/ Live(s) /\ sess'[s].since = sess[s].since /\ sess'[s].met = sess[s].met
                          \/ /\ Mints(r) /\ sess'[s].since = req[r].since
                             /\ sess'[s].met = req[r].met
        BY DEF SessionsFollow
      <3>1. CASE sess'[s] = sess[s]
        BY <3>1 DEF Live, Exists
      <3> QED BY <1>2, <1>3, <3>1
    <2> QED BY <1>4, <1>5, <2>1, ClosingKept DEF Closes, Mints, Idle, MintingOps
  <1>9. LinkInv'
    <2>1. TakesFree({r}) /\ OthersHold({r})
      BY <1>4 DEF TakesFree, OthersHold, Holds, Idle
    <2>2. ASSUME NEW q \in Requests \ {r}, NEW u \in Users, Holds(q, u)
          PROVE  links'[u] = links[u] /\ user'[u].used = user[u].used
      <3>1. CASE Holds(r, u)
        BY <2>2, <3>1 DEF AccountsInv, HoldersAlone
      <3>2. CASE ~Holds(r, u)
        BY <1>5, <1>6, <3>2
      <3> QED BY <3>1, <3>2
    <2>3. HeldStays({r})
      BY <2>2 DEF HeldStays
    <2> QED BY <1>7, <2>1, <2>3, LinksKept
  <1> QED BY <1>7, <1>8, <1>9 DEF AccountsInv, ClosingInv, LinkInv

\* Requests that read or end, or take a user's row, and change no row.
LEMMA QuietStep ==
    ASSUME AccountsInv, NEW r \in Requests,
           \/ \E u \in Users : RequestReset(r, u) \/ ResetAuth(r, u)
           \/ \E s \in Sids : CheckCode(r, s)
           \/ Abort(r)
    PROVE  AccountsInv'
  <1>1. TypeOK
    BY DEF AccountsInv
  <1>2. UNCHANGED <<status, user, links, sess, epoch>>
    BY DEF RequestReset, ResetAuth, CheckCode, Abort
  <1>3. PICK o \in Operations :
          /\ req' = [req EXCEPT ![r] = o]
          /\ o.op \notin MintingOps \cup {"suspend", "archive"}
          /\ o.op = "authreset" => ~UserLocked(o.user)
    <2>1. ASSUME NEW u \in Users, RequestReset(r, u)
          PROVE  [op |-> "request", user |-> u] \in Operations
      BY OperationKinds
    <2>2. ASSUME NEW u \in Users, ResetAuth(r, u)
          PROVE  [op |-> "authreset", user |-> u, rows |-> SessionsOf(u)] \in Operations
      <3>1. SessionsOf(u) \in SUBSET Sids
        BY DEF SessionsOf
      <3> QED BY <3>1, OperationKinds
    <2>3. ASSUME NEW s \in Sids, CheckCode(r, s)
          PROVE  [op |-> "second", sid |-> s] \in Operations
      BY OperationKinds
    <2>4. CASE \E u \in Users : RequestReset(r, u)
      BY <2>1, <2>4 DEF RequestReset, Start, MintingOps
    <2>5. CASE \E u \in Users : ResetAuth(r, u)
      BY <2>2, <2>5 DEF ResetAuth, Start, MintingOps
    <2>6. CASE \E s \in Sids : CheckCode(r, s)
      BY <2>3, <2>6 DEF CheckCode, Start, MintingOps
    <2>7. CASE Abort(r)
      BY <2>7, OperationKinds DEF Abort, End, Idle, MintingOps
    <2> QED BY <2>4, <2>5, <2>6, <2>7
  <1>4. /\ req' \in [Requests -> Operations] /\ req'[r] = o
        /\ \A q \in Requests \ {r} : req'[q] = req[q]
    BY <1>1, <1>3, OneMoves
  <1>5. TypeOK'
    BY <1>1, <1>2, <1>4 DEF TypeOK
  <1>6. ClosingInv'
    <2>1. SessionsFollow({r})
      BY <1>2 DEF SessionsFollow, Live, Exists
    <2> QED BY <1>2, <1>3, <1>4, <2>1, ClosingKept DEF Closes, Mints
  <1>7. LinkInv'
    <2>1. TakesFree({r})
      BY <1>3, <1>4 DEF TakesFree, Holds, UserLocked, MintingOps
    <2>2. OthersHold({r}) /\ HeldStays({r})
      BY <1>2, <1>4 DEF OthersHold, HeldStays
    <2> QED BY <1>5, <2>1, <2>2, LinksKept
  <1> QED BY <1>5, <1>6, <1>7 DEF AccountsInv, ClosingInv, LinkInv

\* Requests that end and write a user's row with a new link.
LEMMA MailStep ==
    ASSUME AccountsInv, NEW r \in Requests, MailReset(r) \/ CommitResetAuth(r)
    PROVE  AccountsInv'
  <1> DEFINE u == req[r].user
  <1>1. TypeOK
    BY DEF AccountsInv
  <1>2. u \in Users
    BY <1>1, OperationParts DEF MailReset, CommitResetAuth, TypeOK
  <1>3. /\ req' \in [Requests -> Operations] /\ req'[r] = Idle
        /\ \A q \in Requests \ {r} : req'[q] = req[q]
    BY <1>1, OneMoves, OperationKinds DEF MailReset, CommitResetAuth, End
  <1>5. UNCHANGED <<status, epoch>>
    BY DEF MailReset, CommitResetAuth
  <1>6. /\ sess' \in [Sids -> Session \cup {Unused, Gone}]
        /\ \A s \in Sids : sess'[s] = sess[s] \/ sess'[s] = Gone
    BY <1>1 DEF MailReset, CommitResetAuth, TypeOK
  <1>7. /\ user' \in [Users -> UserRow]
        /\ \A x \in Users \ {u} : user'[x] = user[x] /\ links'[x] = links[x]
    <2>1. CASE MailReset(r)
      BY <1>1, <1>2, <2>1 DEF MailReset, Invite, TypeOK, UserRow
    <2>2. CASE CommitResetAuth(r)
      <3>1. /\ user' = [user EXCEPT ![u].password = FALSE, ![u].factor = FALSE,
                                    ![u].used = FALSE, ![u].expired = FALSE]
            /\ Invite(u, "welcome")
        BY <2>2 DEF CommitResetAuth
      <3>2. user' \in [Users -> UserRow]
        <4> DEFINE a == [user EXCEPT ![u].password = FALSE]
                   b == [a EXCEPT ![u].factor = FALSE]
                   c == [b EXCEPT ![u].used = FALSE]
        <4>1. a \in [Users -> UserRow]
          BY <1>1, <1>2 DEF TypeOK, UserRow
        <4>2. b \in [Users -> UserRow]
          <5> HIDE DEF a
          <5> QED BY <1>2, <4>1 DEF UserRow
        <4>3. c \in [Users -> UserRow]
          <5> HIDE DEF b
          <5> QED BY <1>2, <4>2 DEF UserRow
        <4>4. user' = [c EXCEPT ![u].expired = FALSE]
          BY <3>1
        <4> HIDE DEF c
        <4> QED BY <1>2, <4>3, <4>4 DEF UserRow
      <3>3. \A x \in Users \ {u} : user'[x] = user[x]
        BY <1>1, <1>2, <3>1 DEF TypeOK
      <3>4. \A x \in Users \ {u} : links'[x] = links[x]
        BY <1>1, <1>2, <3>1 DEF TypeOK, Invite
      <3> QED BY <3>2, <3>3, <3>4
    <2> QED BY <2>1, <2>2
  <1>8. links' \in [Users -> Seq(Link)]
    <2>1. PICK page \in {"welcome", "reset"} : Invite(u, page)
      BY DEF MailReset, CommitResetAuth
    <2>2. [page |-> page] \in Link
      BY DEF Link
    <2> QED BY <1>1, <1>2, <2>1, <2>2 DEF Invite, TypeOK
  <1>9. TypeOK'
    BY <1>1, <1>3, <1>5, <1>6, <1>7, <1>8 DEF TypeOK
  <1>10. ClosingInv'
    <2>1. SessionsFollow({r})
      BY <1>6 DEF SessionsFollow, Live, Exists, Gone
    <2> QED BY <1>3, <1>5, <2>1, ClosingKept DEF Closes, Mints, Idle, MintingOps
  <1>11. LinkInv'
    <2>1. TakesFree({r}) /\ OthersHold({r})
      BY <1>3 DEF TakesFree, OthersHold, Holds, Idle
    <2>2. ASSUME NEW q \in Requests \ {r}, NEW x \in Users, Holds(q, x)
          PROVE  x # u
      <3>1. CASE MailReset(r)
        BY <2>2, <3>1 DEF MailReset, UserLocked
      <3>2. CASE CommitResetAuth(r)
        <4>1. Holds(r, u)
          BY <3>2 DEF CommitResetAuth, Holds
        <4> QED BY <1>2, <2>2, <4>1 DEF AccountsInv, HoldersAlone
      <3> QED BY <3>1, <3>2
    <2>3. HeldStays({r})
      BY <1>7, <2>2 DEF HeldStays
    <2> QED BY <1>9, <2>1, <2>3, LinksKept
  <1> QED BY <1>9, <1>10, <1>11 DEF AccountsInv, ClosingInv, LinkInv

\* The second factor is passed.
LEMMA StepUpStep ==
    ASSUME AccountsInv, NEW r \in Requests, StepUp(r)
    PROVE  AccountsInv'
  <1> DEFINE t == req[r].sid
  <1>1. TypeOK
    BY DEF AccountsInv
  <1>2. t \in Sids
    BY <1>1, OperationParts DEF StepUp, TypeOK
  <1>3. /\ req' \in [Requests -> Operations] /\ req'[r] = Idle
        /\ \A q \in Requests \ {r} : req'[q] = req[q]
    BY <1>1, OneMoves, OperationKinds DEF StepUp, End
  <1>4. UNCHANGED <<status, user, links, epoch>>
    BY DEF StepUp
  <1>5. /\ sess' \in [Sids -> Session \cup {Unused, Gone}]
        /\ \A s \in Sids :
              \/ sess'[s] = sess[s]
              \/ /\ Exists(s) /\ sess'[s].revoked = sess[s].revoked
                 /\ sess'[s].since = sess[s].since /\ sess'[s].met = sess[s].met
    <2>1. CASE Exists(t)
      <3>1. sess[t] \in Session
        BY <1>1, <1>2, <2>1, SessionParts
      <3>2. sess' = [sess EXCEPT ![t].level = "full"]
        BY <2>1 DEF StepUp
      <3>3. /\ [sess[t] EXCEPT !.level = "full"] \in Session
            /\ [sess[t] EXCEPT !.level = "full"].revoked = sess[t].revoked
            /\ [sess[t] EXCEPT !.level = "full"].since = sess[t].since
            /\ [sess[t] EXCEPT !.level = "full"].met = sess[t].met
        BY <3>1 DEF Session
      <3> QED BY <1>1, <1>2, <2>1, <3>2, <3>3 DEF TypeOK
    <2>2. CASE ~Exists(t)
      BY <1>1, <2>2 DEF StepUp, TypeOK
    <2> QED BY <2>1, <2>2
  <1>6. TypeOK'
    BY <1>1, <1>3, <1>4, <1>5 DEF TypeOK
  <1>7. ClosingInv'
    <2>1. SessionsFollow({r})
      BY <1>5 DEF SessionsFollow, Live, Exists
    <2> QED BY <1>3, <1>4, <2>1, ClosingKept DEF Closes, Mints, Idle, MintingOps
  <1>8. LinkInv'
    <2>1. TakesFree({r}) /\ OthersHold({r}) /\ HeldStays({r})
      BY <1>3, <1>4 DEF TakesFree, OthersHold, HeldStays, Holds, Idle
    <2> QED BY <1>6, <2>1, LinksKept
  <1> QED BY <1>6, <1>7, <1>8 DEF AccountsInv, ClosingInv, LinkInv

\* What happens in one statement: a correction, the end of a link or of a session.
LEMMA StatementStep ==
    ASSUME AccountsInv,
           \/ \E u \in Users : CorrectAddress(u) \/ ExpireLink(u)
           \/ \E s \in Sids : RevokeSession(s) \/ ExpireSession(s)
    PROVE  AccountsInv'
  <1>1. TypeOK
    BY DEF AccountsInv
  <1>2. UNCHANGED <<status, req, epoch>>
    BY DEF CorrectAddress, ExpireLink, RevokeSession, ExpireSession
  <1>3. /\ sess' \in [Sids -> Session \cup {Unused, Gone}]
        /\ \A s \in Sids : sess'[s] = sess[s] \/ ~Live(s)'
    <2>1. CASE \E u \in Users : CorrectAddress(u) \/ ExpireLink(u)
      BY <1>1, <2>1 DEF CorrectAddress, ExpireLink, TypeOK
    <2>2. ASSUME NEW s \in Sids, RevokeSession(s)
          PROVE  /\ sess' \in [Sids -> Session \cup {Unused, Gone}]
                 /\ \A x \in Sids : sess'[x] = sess[x] \/ ~Live(x)'
      <3>1. sess[s] \in Session
        BY <1>1, <2>2, SessionParts DEF RevokeSession, Live
      <3>2. /\ [sess[s] EXCEPT !.revoked = TRUE] \in Session
            /\ [sess[s] EXCEPT !.revoked = TRUE].revoked
        BY <3>1 DEF Session
      <3> QED BY <1>1, <2>2, <3>2 DEF RevokeSession, TypeOK, Live
    <2>3. ASSUME NEW s \in Sids, ExpireSession(s)
          PROVE  /\ sess' \in [Sids -> Session \cup {Unused, Gone}]
                 /\ \A x \in Sids : sess'[x] = sess[x] \/ ~Live(x)'
      BY <1>1, <2>3 DEF ExpireSession, TypeOK, Live, Exists, Gone
    <2> QED BY <2>1, <2>2, <2>3
  <1>4. /\ user' \in [Users -> UserRow] /\ links' \in [Users -> Seq(Link)]
        /\ \A u \in Users : UserLocked(u) => links'[u] = links[u]
        /\ \A u \in Users : user'[u].used = user[u].used
    <2>1. ASSUME NEW u \in Users, CorrectAddress(u)
          PROVE  /\ user' = user /\ links' \in [Users -> Seq(Link)]
                 /\ \A x \in Users : UserLocked(x) => links'[x] = links[x]
      <3>1. [page |-> "welcome"] \in Link
        BY DEF Link
      <3> QED BY <1>1, <2>1, <3>1 DEF CorrectAddress, Invite, TypeOK
    <2>2. ASSUME NEW u \in Users, ExpireLink(u)
          PROVE  /\ links' = links /\ user' \in [Users -> UserRow]
                 /\ \A x \in Users : user'[x].used = user[x].used
      BY <1>1, <2>2 DEF ExpireLink, TypeOK, UserRow
    <2>3. CASE \E s \in Sids : RevokeSession(s) \/ ExpireSession(s)
      BY <1>1, <2>3 DEF RevokeSession, ExpireSession, TypeOK
    <2> QED BY <1>1, <2>1, <2>2, <2>3 DEF TypeOK
  <1>5. TypeOK'
    BY <1>1, <1>2, <1>3, <1>4 DEF TypeOK
  <1>6. ClosingInv'
    <2>1. SessionsFollow({})
      BY <1>3 DEF SessionsFollow, Live, Exists
    <2> QED BY <1>2, <2>1, ClosingKept
  <1>7. LinkInv'
    <2>1. TakesFree({}) /\ OthersHold({}) /\ HeldStays({})
      BY <1>2, <1>4 DEF TakesFree, OthersHold, HeldStays, UserLocked
    <2> QED BY <1>5, <2>1, LinksKept
  <1> QED BY <1>5, <1>6, <1>7 DEF AccountsInv, ClosingInv, LinkInv

(***************************************************************************)
(* The customer's life cycle.                                              *)
(***************************************************************************)

\* A suspension or an archival meets those that mint, and sees the sessions there are.
LEMMA CloseStep ==
    ASSUME AccountsInv, NEW r \in Requests, NEW op \in {"suspend", "archive"}, Close(r, op)
    PROVE  AccountsInv'
  <1> DEFINE o == [op |-> op, rows |-> Unrevoked]
  <1>1. TypeOK /\ ClosersKnow /\ SurvivorsOverlapped
    BY DEF AccountsInv
  <1>2. UNCHANGED <<status, user, links, sess, epoch>> /\ req[r] = Idle /\ ~CustomerLocked
        /\ (op = "suspend" => status = "active")
    BY DEF Close, StartClosing
  <1>3. o \in Operations
    <2>1. Unrevoked \in SUBSET Sids
      BY DEF Unrevoked
    <2> QED BY <2>1, OperationKinds
  <1>4. ASSUME NEW q \in Requests
        PROVE  /\ req'[q] \in Operations
               /\ q = r => req'[q] = o
               /\ q # r /\ ~Mints(q) => req'[q] = req[q]
               /\ q # r /\ Mints(q) =>
                    /\ req'[q].op = req[q].op /\ req'[q].user = req[q].user
                    /\ req'[q].link = req[q].link /\ req'[q].met
    <2>1. req[q] \in Operations
      BY <1>1 DEF TypeOK
    <2>2. CASE q = r
      BY <1>3, <2>2 DEF Close, StartClosing
    <2>3. CASE q # r /\ ~Mints(q)
      BY <2>1, <2>3 DEF Close, StartClosing
    <2>4. CASE q # r /\ Mints(q)
      <3>1. req'[q] = [req[q] EXCEPT !.met = TRUE]
        BY <2>4 DEF Close, StartClosing
      <3> QED BY <2>1, <2>4, <3>1, MetParts DEF Mints
    <2> QED BY <2>2, <2>3, <2>4
  <1>5. TypeOK'
    <2>1. req' \in [Requests -> Operations]
      BY <1>4 DEF Close, StartClosing
    <2> QED BY <1>1, <1>2, <2>1 DEF TypeOK
  <1>6. ASSUME NEW q \in Requests, Closes(q)'
        PROVE  q = r
    <2>1. CASE q # r /\ Mints(q)
      BY <1>4, <1>6, <2>1 DEF Closes, Mints, MintingOps
    <2>2. CASE q # r /\ ~Mints(q)
      BY <1>2, <1>4, <1>6, <2>2 DEF Closes, CustomerLocked
    <2> QED BY <2>1, <2>2
  <1>7. ClosingInv'
    <2>1. ClosersAlone'
      BY <1>6 DEF ClosersAlone
    <2>2. SuspendsActive'
      BY <1>2, <1>4, <1>6 DEF SuspendsActive, Closes
    <2>3. MintersMeet'
      <3>1. ASSUME NEW q \in Requests, Mints(q)'
            PROVE  req'[q].met
        BY <1>4, <3>1 DEF Mints, MintingOps
      <3> QED BY <3>1 DEF MintersMeet
    <2>4. ClosersKnow'
      <3> SUFFICES ASSUME NEW q \in Requests, NEW s \in Sids, Closes(q)', Live(s)'
                   PROVE  s \in req'[q].rows
        BY DEF ClosersKnow
      <3>1. req'[q].rows = Unrevoked
        BY <1>4, <1>6
      <3>2. Live(s)
        BY <1>2 DEF Live, Exists
      <3> QED BY <3>1, <3>2 DEF Unrevoked
    <2>5. SurvivorsOverlapped'
      BY <1>1, <1>2 DEF SurvivorsOverlapped, Live, Exists
    <2> QED BY <2>1, <2>2, <2>3, <2>4, <2>5 DEF ClosingInv
  <1>8. LinkInv'
    <2>1. TakesFree({r})
      BY <1>4 DEF TakesFree, Holds
    <2>2. OthersHold({r})
      BY <1>4 DEF OthersHold
    <2>3. HeldStays({r})
      BY <1>2 DEF HeldStays
    <2> QED BY <1>5, <2>1, <2>2, <2>3, LinksKept
  <1> QED BY <1>5, <1>7, <1>8 DEF AccountsInv, ClosingInv, LinkInv

\* Of the sessions it did not see it leaves those that were minted by who met it.
LEMMA CommitCloseStep ==
    ASSUME AccountsInv, NEW r \in Requests, CommitClose(r)
    PROVE  AccountsInv'
  <1>1. TypeOK /\ ClosersAlone /\ MintersMeet /\ ClosersKnow /\ SurvivorsOverlapped
    BY DEF AccountsInv
  <1>2. Closes(r) /\ CustomerLocked
    BY DEF CommitClose, Closes, CustomerLocked
  <1>3. /\ req' \in [Requests -> Operations] /\ req'[r] = Idle
        /\ \A q \in Requests \ {r} : req'[q] = req[q]
    BY <1>1, OneMoves, OperationKinds DEF CommitClose, End
  <1>4. UNCHANGED <<user, links>> /\ epoch' = epoch + 1
    BY DEF CommitClose
  <1>5. ASSUME NEW s \in Sids
        PROVE  /\ sess'[s] \in Session \cup {Unused, Gone}
               /\ s \in req[r].rows /\ Exists(s) => sess'[s].revoked
               /\ s \in req[r].rows /\ ~Exists(s) => ~Live(s)'
               /\ s \notin req[r].rows => sess'[s] = sess[s]
    <2>1. CASE s \notin req[r].rows
      BY <1>1, <2>1 DEF CommitClose, TypeOK
    <2>2. CASE s \in req[r].rows /\ Exists(s)
      <3>1. sess'[s] = [sess[s] EXCEPT !.revoked = TRUE] /\ sess[s] \in Session
        BY <1>1, <2>2, SessionParts DEF CommitClose
      <3> QED BY <2>2, <3>1 DEF Session
    <2>3. CASE s \in req[r].rows /\ ~Exists(s)
      <3>1. sess'[s] = [sess[s] EXCEPT !.revoked = TRUE]
        BY <2>3 DEF CommitClose
      <3>2. sess[s] \in {Unused, Gone}
        BY <1>1, <2>3 DEF TypeOK, Exists, Session
      <3>3. sess'[s] = sess[s]
        BY <3>1, <3>2 DEF Unused, Gone
      <3> QED BY <2>3, <3>2, <3>3 DEF Live, Exists
    <2> QED BY <2>1, <2>2, <2>3
  <1>6. TypeOK'
    <2>1. sess' \in [Sids -> Session \cup {Unused, Gone}]
      BY <1>5 DEF CommitClose
    <2>2. status' \in {"active", "suspended", "archived"}
      BY DEF CommitClose
    <2> QED BY <1>1, <1>3, <1>4, <2>1, <2>2 DEF TypeOK
  <1>7. \A q \in Requests : ~Closes(q)'
    <2>1. \A q \in Requests \ {r} : ~Closes(q)
      BY <1>1, <1>2 DEF ClosersAlone
    <2> QED BY <1>3, <2>1 DEF Closes, Idle
  <1>8. ClosingInv'
    <2>1. ClosersAlone' /\ SuspendsActive' /\ ClosersKnow'
      BY <1>7 DEF ClosersAlone, SuspendsActive, ClosersKnow, Closes
    <2>2. MintersMeet'
      <3>1. ASSUME NEW q \in Requests, Mints(q)'
            PROVE  req'[q].met
        <4>1. q # r /\ req'[q] = req[q] /\ Mints(q)
          BY <1>3, <3>1 DEF Mints, Idle, MintingOps
        <4> QED BY <1>1, <1>2, <4>1 DEF MintersMeet
      <3> QED BY <3>1 DEF MintersMeet
    <2>3. SurvivorsOverlapped'
      <3> SUFFICES ASSUME NEW s \in Sids, Live(s)'
                   PROVE  sess'[s].met
        BY DEF SurvivorsOverlapped
      <3>1. s \notin req[r].rows
        BY <1>5 DEF Live
      <3>2. sess'[s] = sess[s] /\ Live(s)
        BY <1>5, <3>1 DEF Live, Exists
      <3> QED BY <1>1, <1>2, <3>1, <3>2 DEF ClosersKnow
    <2> QED BY <2>1, <2>2, <2>3 DEF ClosingInv
  <1>9. LinkInv'
    <2>1. TakesFree({r}) /\ OthersHold({r}) /\ HeldStays({r})
      BY <1>3, <1>4 DEF TakesFree, OthersHold, HeldStays, Holds, Idle
    <2> QED BY <1>6, <2>1, LinksKept
  <1> QED BY <1>6, <1>8, <1>9 DEF AccountsInv, ClosingInv, LinkInv

LEMMA ReactivateStep ==
    ASSUME AccountsInv, Reactivate
    PROVE  AccountsInv'
  <1>1. UNCHANGED <<user, links, sess, req, epoch>> /\ status' = "active"
    BY DEF Reactivate
  <1>2. TypeOK' /\ SuspendsActive'
    BY <1>1 DEF AccountsInv, TypeOK, SuspendsActive
  <1>3. ClosersAlone' /\ MintersMeet' /\ ClosersKnow' /\ SurvivorsOverlapped'
    BY <1>1 DEF AccountsInv, ClosersAlone, MintersMeet, ClosersKnow, SurvivorsOverlapped,
                Closes, Mints, CustomerLocked, Live, Exists
  <1>4. HoldersAlone' /\ LinksAreLast'
    BY <1>1 DEF AccountsInv, HoldersAlone, LinksAreLast, Holds
  <1> QED BY <1>2, <1>3, <1>4 DEF AccountsInv

(***************************************************************************)
(* The theorems.                                                           *)
(***************************************************************************)

LEMMA InitAccounts == Init => AccountsInv
  <1> SUFFICES ASSUME Init PROVE AccountsInv
    OBVIOUS
  <1>1. TypeOK
    BY OperationKinds DEF Init, TypeOK, UserRow, Link
  <1>2. ClosersAlone /\ SuspendsActive /\ MintersMeet /\ ClosersKnow /\ HoldersAlone
        /\ LinksAreLast
    BY DEF Init, ClosersAlone, SuspendsActive, MintersMeet, ClosersKnow, HoldersAlone,
           LinksAreLast, Idle, Closes, Mints, Holds, MintingOps
  <1>3. SurvivorsOverlapped
    BY DEF Init, SurvivorsOverlapped, Live, Exists, Unused
  <1> QED BY <1>1, <1>2, <1>3 DEF AccountsInv

LEMMA StepAccounts == AccountsInv /\ [Next]_vars => AccountsInv'
  <1> SUFFICES ASSUME AccountsInv, [Next]_vars PROVE AccountsInv'
    OBVIOUS
  <1>1. CASE Next
    BY <1>1, BeginStep, GrantStep, MintStep, QuietStep, MailStep, StepUpStep, StatementStep,
       CloseStep, CommitCloseStep, ReactivateStep DEF Next
  <1>2. CASE UNCHANGED vars
    BY <1>2 DEF vars, AccountsInv, TypeOK, ClosersAlone, SuspendsActive, MintersMeet,
                ClosersKnow, SurvivorsOverlapped, HoldersAlone, LinksAreLast, Closes, Mints,
                Holds, CustomerLocked, Live, Exists
  <1> QED BY <1>1, <1>2

\* The customer's row and each user's are held by one request at a time, and nothing a
\* suspension or a link relied on changes under its lock.
THEOREM AccountsInvariant == Spec => []AccountsInv
  BY InitAccounts, StepAccounts, PTL DEF Spec

\* The tables of the accounts, and the operations in flight, have the types the code
\* gives them.
THEOREM AccountsTypeCorrect == Spec => []TypeOK
  <1>1. AccountsInv => TypeOK
    BY DEF AccountsInv
  <1> QED BY <1>1, AccountsInvariant, PTL

\* A session from before a suspension or an archival outlives it only if the operation
\* that minted it overlapped it.
THEOREM SurvivorsExplained == Spec => []SurvivorsOverlapped
  <1>1. AccountsInv => SurvivorsOverlapped
    BY DEF AccountsInv
  <1> QED BY <1>1, AccountsInvariant, PTL

\* No interleaving brings an archived customer back.
THEOREM ArchivalIsFinal == Spec => ArchivedIsFinal
  <1>1. ASSUME AccountsInv, Next, status = "archived"
        PROVE  status' = "archived"
    <2>1. CASE Reactivate
      BY <1>1, <2>1 DEF Reactivate
    <2>2. ASSUME NEW r \in Requests, CommitClose(r)
          PROVE  status' = "archived"
      <3>1. req[r].op # "suspend"
        BY <1>1, <2>2 DEF AccountsInv, SuspendsActive
      <3> QED BY <2>2, <3>1 DEF CommitClose
    <2>3. CASE UNCHANGED status
      BY <1>1, <2>3
    <2> QED BY <1>1, <2>1, <2>2, <2>3
            DEF Next, LockInvite, BeginReset, LockReset, RequestReset, ResetAuth, VerifyLogin,
                CompleteWelcome, CompleteReset, MailReset, CommitResetAuth, CreateSession,
                StepUp, CheckCode, Close, Abort, CorrectAddress, ExpireLink, RevokeSession,
                ExpireSession
  <1>2. AccountsInv /\ [Next]_vars => [status = "archived" => status' = "archived"]_status
    <2>1. UNCHANGED vars => UNCHANGED status
      BY DEF vars
    <2> QED BY <1>1, <2>1
  <1> QED BY <1>2, AccountsInvariant, PTL DEF Spec, ArchivedIsFinal

\* A link that is being completed is the last one and unused until the completion
\* commits, whatever is mailed, reset or corrected meanwhile.
THEOREM LastLinkCompletes == Spec => OnlyTheLastLinkCompletes
  <1> DEFINE Completed ==
        \A r \in Requests :
          req[r].op \in {"welcome", "reset"} /\ sess' # sess /\ req'[r] # req[r] =>
              /\ req[r].link = Len(links[req[r].user])
              /\ ~user[req[r].user].used
  <1>1. AccountsInv => Completed
    BY DEF AccountsInv, LinksAreLast
  <1> QED BY <1>1, AccountsInvariant, PTL DEF OnlyTheLastLinkCompletes
=============================================================================
