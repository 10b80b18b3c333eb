----------------------------- MODULE Vault_proofs -----------------------------
(***************************************************************************)
(* Theorems about the credential vault, for every set of asks, of          *)
(* credentials, of sessions and of requests in flight: first about its     *)
(* services (Spec), then about its pages (RouteSpec), which do nothing     *)
(* that the services do not do, and about the edits.                       *)
(***************************************************************************)
EXTENDS VaultRoutes, FiniteSetTheorems, TLAPS

\* What an operation may be, kind by kind.
LEMMA OperationKinds ==
    /\ Idle \in Operations /\ Done \in Operations
    /\ \A q \in Asks : [op |-> "open", ask |-> q] \in Operations
    /\ \A q \in Asks, op \in {"decline", "cancel"} : [op |-> op, ask |-> q] \in Operations
    /\ \A q \in Asks, c \in Credentials : [op |-> "fulfil", ask |-> q, cred |-> c] \in Operations
    /\ \A c \in Credentials : [op |-> "add", cred |-> c] \in Operations
    /\ \A c \in Credentials :
          [op |-> "delete", step |-> "read", cred |-> c] \in Operations
    /\ \A s \in Sessions, c \in Credentials :
          [op |-> "view", step |-> "gated", session |-> s, cred |-> c] \in Operations
  BY DEF Operations, Idle, Done

\* What an operation refers to, by its kind.
LEMMA OperationParts ==
    ASSUME NEW o \in Operations
    PROVE  /\ o.op \in {"fulfil", "decline", "cancel", "open"} => o.ask \in Asks
           /\ o.op \in {"fulfil", "add", "view", "delete"} => o.cred \in Credentials
           /\ o.op = "view" =>
                 /\ o.session \in Sessions
                 /\ o = [op |-> "view", step |-> o.step, session |-> o.session, cred |-> o.cred]
           /\ o.op = "delete" => o = [op |-> "delete", step |-> o.step, cred |-> o.cred]
  BY DEF Operations

\* The next step of a view or of a delete is a step of it.
LEMMA OperationSteps ==
    ASSUME NEW o \in Operations
    PROVE  /\ o.op = "view" =>
                 \A step \in {"gated", "read", "committed"} :
                    [o EXCEPT !.step = step] \in Operations
           /\ o.op = "delete" =>
                 \A step \in {"read", "deleted"} : [o EXCEPT !.step = step] \in Operations
  <1>1. CASE o.op = "view"
    <2>1. o \in [op : {"view"}, step : {"gated", "read", "committed"},
                 session : Sessions, cred : Credentials]
      BY <1>1 DEF Operations
    <2> QED BY <1>1, <2>1 DEF Operations
  <1>2. CASE o.op = "delete"
    <2>1. o \in [op : {"delete"}, step : {"read", "deleted"}, cred : Credentials]
      BY <1>2 DEF Operations
    <2> QED BY <1>2, <2>1 DEF Operations
  <1> QED BY <1>1, <1>2

(***************************************************************************)
(* Type correctness.                                                       *)
(***************************************************************************)

LEMMA InitType == Init => TypeOK
  <1> SUFFICES ASSUME Init PROVE TypeOK
    OBVIOUS
  <1>1. ask \in [Asks -> Ask]
    BY DEF Init, Ask
  <1>2. req \in [Requests -> Operations]
    BY OperationKinds DEF Init
  <1> QED BY <1>1, <1>2 DEF Init, TypeOK

\* A request that ends, begins or moves on keeps the requests well typed.
LEMMA RequestType ==
    ASSUME TypeOK, NEW r \in Requests
    PROVE  /\ End(r) => req' \in [Requests -> Operations]
           /\ \A o \in Operations : Start(r, o) => req' \in [Requests -> Operations]
  BY OperationKinds DEF TypeOK, End, Start

LEMMA StepType == TypeOK /\ [Next]_vars => TypeOK'
  <1> SUFFICES ASSUME TypeOK, [Next]_vars PROVE TypeOK'
    OBVIOUS
  <1> USE DEF tables, trail
  <1>1. CASE Suspend \/ Reactivate
    BY <1>1 DEF TypeOK, Suspend, Reactivate, Sessions
  <1>2. ASSUME NEW r \in Requests, NEW q \in Asks,
               OpenAsk(r, q) \/ (\E op \in {"decline", "cancel"} : Resolve(r, q, op))
        PROVE  TypeOK'
    BY <1>2, OperationKinds, RequestType DEF TypeOK, OpenAsk, Resolve
  <1>3. ASSUME NEW r \in Requests, NEW q \in Asks, NEW c \in Credentials, Fulfil(r, q, c)
        PROVE  TypeOK'
    BY <1>3, OperationKinds, RequestType DEF TypeOK, Fulfil
  <1>4. ASSUME NEW r \in Requests, NEW c \in Credentials,
               \/ Add(r, c)
               \/ FindToDelete(r, c)
               \/ \E s \in Sessions : Gate(r, s, c)
        PROVE  TypeOK'
    BY <1>4, OperationKinds, RequestType DEF TypeOK, Add, FindToDelete, Gate
  <1>5. ASSUME NEW r \in Requests, CommitAsk(r)
        PROVE  TypeOK'
    <2>1. req[r].ask \in Asks
      BY <1>5, OperationParts DEF TypeOK, CommitAsk
    <2>2. ask[req[r].ask] \in [status : {"none", "open"} \cup Resolved,
                               filled : SUBSET Credentials]
      BY <2>1 DEF TypeOK, Ask
    <2>3. PICK st \in {"open", "not_applicable", "cancelled"} :
             ask' = [ask EXCEPT ![req[r].ask] = [ask[req[r].ask] EXCEPT !.status = st]]
      BY <1>5 DEF CommitAsk
    <2>4. [ask[req[r].ask] EXCEPT !.status = st] \in Ask
      BY <2>2 DEF Ask, Resolved
    <2>5. ask' \in [Asks -> Ask]
      BY <2>3, <2>4 DEF TypeOK
    <2> QED BY <1>5, <2>5, RequestType DEF TypeOK, CommitAsk
  <1>6. ASSUME NEW r \in Requests, CommitAdd(r)
        PROVE  TypeOK'
    BY <1>6, OperationParts, RequestType DEF TypeOK, CommitAdd
  <1>7. ASSUME NEW r \in Requests, CommitFulfil(r)
        PROVE  TypeOK'
    <2>1. req[r].ask \in Asks /\ req[r].cred \in Credentials
      BY <1>7, OperationParts DEF TypeOK, CommitFulfil
    <2>2. [status |-> "fulfilled", filled |-> {req[r].cred}] \in Ask
      BY <2>1 DEF Ask, Resolved
    <2>3. ask' \in [Asks -> Ask]
      BY <1>7, <2>2 DEF TypeOK, CommitFulfil
    <2> QED BY <1>7, <2>1, <2>3, RequestType DEF TypeOK, CommitFulfil
  <1>8. ASSUME NEW r \in Requests, CommitDelete(r)
        PROVE  TypeOK'
    <2>1. ASSUME NEW q \in Asks
          PROVE  [ask[q] EXCEPT !.filled = @ \ {req[r].cred}] \in Ask
      <3>1. ask[q] \in [status : {"none", "open"} \cup Resolved, filled : SUBSET Credentials]
        BY DEF TypeOK, Ask
      <3>2. ask[q].filled \ {req[r].cred} \in SUBSET Credentials
        BY <3>1
      <3> QED BY <3>1, <3>2 DEF Ask
    <2>2. ask' \in [Asks -> Ask]
      BY <1>8, <2>1 DEF CommitDelete
    <2>3. cred' \in [Credentials -> {"none", "live", "deleted"}]
      BY <1>8 DEF TypeOK, CommitDelete
    <2> QED BY <1>8, <2>2, <2>3, RequestType DEF TypeOK, CommitDelete
  <1>9. ASSUME NEW r \in Requests, Delete(r) \/ Read(r)
        PROVE  TypeOK'
    <2>1. req[r] \in Operations
      BY DEF TypeOK
    <2>2. CASE Delete(r)
      <3>1. [req[r] EXCEPT !.step = "deleted"] \in Operations
        BY <2>1, <2>2, OperationSteps DEF Delete
      <3> QED BY <2>2, <3>1 DEF TypeOK, Delete
    <2>3. CASE Read(r)
      <3>1. [req[r] EXCEPT !.step = "read"] \in Operations
        BY <2>1, <2>3, OperationSteps DEF Read
      <3> QED BY <2>3, <3>1 DEF TypeOK, Read
    <2> QED BY <1>9, <2>2, <2>3
  <1>10. ASSUME NEW r \in Requests, CommitView(r) \/ Show(r)
         PROVE  TypeOK'
    <2>1. req[r].session \in Sessions /\ req[r].cred \in Credentials
      BY <1>10, OperationParts DEF TypeOK, CommitView, Show
    <2>2. req' \in [Requests -> Operations]
      <3>1. CASE CommitView(r)
        <4>1. [req[r] EXCEPT !.step = "committed"] \in Operations
          BY <3>1, OperationSteps DEF TypeOK, CommitView
        <4> QED BY <3>1, <4>1 DEF TypeOK, CommitView
      <3>2. CASE Show(r)
        BY <3>2, RequestType DEF Show
      <3> QED BY <1>10, <3>1, <3>2
    <2>3. <<r, req[r].session, req[r].cred>> \in Views
      BY <2>1 DEF Views
    <2>4. vault' \in [Sessions -> {"open", "locked"}]
      BY <1>10, <2>1 DEF TypeOK, CommitView, Show
    <2> QED BY <1>10, <2>2, <2>3, <2>4 DEF TypeOK, CommitView, Show
  <1>11. ASSUME NEW r \in Requests, Abort(r)
         PROVE  TypeOK'
    BY <1>11, RequestType DEF TypeOK, Abort
  <1>12. ASSUME NEW s \in Sessions, Lapse(s) \/ LogIn(s)
         PROVE  TypeOK'
    BY <1>12 DEF TypeOK, Lapse, LogIn
  <1>13. ASSUME NEW s \in Sessions, NEW code \in {"right", "wrong"}, StepUp(s, code)
         PROVE  TypeOK'
    BY <1>13 DEF TypeOK, StepUp, FactorKey
  <1>14. CASE UNCHANGED vars
    BY <1>14 DEF TypeOK, vars
  <1> QED BY <1>1, <1>2, <1>3, <1>4, <1>5, <1>6, <1>7, <1>8, <1>9, <1>10, <1>11,
             <1>12, <1>13, <1>14 DEF Next

\* The tables, the requests in flight and the sessions stay what they are.
THEOREM VaultTypeCorrect == Spec => []TypeOK
  BY InitType, StepType, PTL DEF Spec

(***************************************************************************)
(* Why asks are resolved once.                                             *)
(***************************************************************************)

\* What a request that begins, ends or moves on leaves of the others.
LEMMA OthersStay ==
    ASSUME TypeOK, NEW r \in Requests
    PROVE  /\ End(r) => \A x \in Requests : req'[x] = IF x = r THEN Done ELSE req[x]
           /\ \A o \in Operations : Start(r, o) =>
                 /\ req[r] = Idle
                 /\ \A x \in Requests : req'[x] = IF x = r THEN o ELSE req[x]
           /\ Delete(r) \/ Read(r) \/ CommitView(r) =>
                 \A x \in Requests :
                    /\ req'[x].op = req[x].op
                    /\ req'[x].op \in {"view", "delete"} => req'[x].cred = req[x].cred
                    /\ req'[x].op = "view" => req'[x].session = req[x].session
                    /\ x # r => req'[x] = req[x]
                    /\ req[r].op \in {"view", "delete"}
  <1>1. End(r) => \A x \in Requests : req'[x] = IF x = r THEN Done ELSE req[x]
    BY DEF TypeOK, End
  <1>2. \A o \in Operations : Start(r, o) =>
           /\ req[r] = Idle
           /\ \A x \in Requests : req'[x] = IF x = r THEN o ELSE req[x]
    BY DEF TypeOK, Start
  <1>3. ASSUME Delete(r) \/ Read(r) \/ CommitView(r)
        PROVE  \A x \in Requests :
                  /\ req'[x].op = req[x].op
                  /\ req'[x].op \in {"view", "delete"} => req'[x].cred = req[x].cred
                  /\ req'[x].op = "view" => req'[x].session = req[x].session
                  /\ x # r => req'[x] = req[x]
                  /\ req[r].op \in {"view", "delete"}
    <2>1. req[r] \in Operations /\ req[r].op \in {"view", "delete"}
      BY <1>3 DEF TypeOK, Delete, Read, CommitView
    <2>2. PICK step \in {"read", "deleted", "committed"} :
             req' = [req EXCEPT ![r] = [req[r] EXCEPT !.step = step]]
      BY <1>3 DEF Delete, Read, CommitView
    <2>3. \A x \in Requests : req'[x] = IF x = r THEN [req[r] EXCEPT !.step = step] ELSE req[x]
      BY <2>2 DEF TypeOK
    <2>4. CASE req[r].op = "view"
      BY <2>1, <2>3, <2>4, OperationParts
    <2>5. CASE req[r].op = "delete"
      BY <2>1, <2>3, <2>5, OperationParts
    <2> QED BY <2>1, <2>4, <2>5
  <1> QED BY <1>1, <1>2, <1>3

\* A step that decides of no ask, and takes none up, keeps them held.
LEMMA AsksQuiet ==
    ASSUME AsksAreHeld,
           \A q \in Asks : ask'[q].status = ask[q].status,
           \A x \in Requests :
              req'[x].op \in {"fulfil", "decline", "cancel", "open"} =>
                  req'[x] = req[x] /\ req[x].ask \in Asks
    PROVE  AsksAreHeld'
  BY DEF AsksAreHeld, Resolving

LEMMA AsksStep == TypeOK /\ AsksAreHeld /\ [Next]_vars => AsksAreHeld'
  <1> SUFFICES ASSUME TypeOK, AsksAreHeld, [Next]_vars PROVE AsksAreHeld'
    OBVIOUS
  <1>0. \A x \in Requests : req[x].op \in {"fulfil", "decline", "cancel", "open"} =>
            req[x].ask \in Asks
    BY OperationParts DEF TypeOK
  <1>1. CASE UNCHANGED <<ask, req>>
    BY <1>0, <1>1, AsksQuiet
  <1>2. ASSUME NEW r \in Requests, NEW q \in Asks, OpenAsk(r, q)
        PROVE  AsksAreHeld'
    <2>1. ask[q].status = "none"
          /\ \A x \in Requests : req[x].op = "open" => req[x].ask # q
      BY <1>2 DEF OpenAsk, Unasked
    <2>2. \A x \in Requests : req'[x] = IF x = r THEN [op |-> "open", ask |-> q] ELSE req[x]
      BY <1>2, OthersStay, OperationKinds DEF OpenAsk
    <2>3. ask' = ask
      BY <1>2 DEF OpenAsk, tables
    <2> QED BY <2>1, <2>2, <2>3 DEF AsksAreHeld, Resolving
  <1>3. ASSUME NEW r \in Requests, NEW q \in Asks,
               \/ \E c \in Credentials : Fulfil(r, q, c)
               \/ \E op \in {"decline", "cancel"} : Resolve(r, q, op)
        PROVE  AsksAreHeld'
    <2>1. ask[q].status = "open" /\ \A x \in Requests : Resolving(x) => req[x].ask # q
      BY <1>3 DEF Fulfil, Resolve, AskLocked
    <2>2. PICK o \in Operations : o.op # "open" /\ o.ask = q /\ Start(r, o)
      BY <1>3, OperationKinds DEF Fulfil, Resolve
    <2>3. \A x \in Requests : req'[x] = IF x = r THEN o ELSE req[x]
      BY <2>2, OthersStay
    <2>4. ask' = ask
      BY <1>3 DEF Fulfil, Resolve, tables
    <2> QED BY <2>1, <2>2, <2>3, <2>4 DEF AsksAreHeld, Resolving
  <1>4. ASSUME NEW r \in Requests, CommitAsk(r) \/ CommitFulfil(r)
        PROVE  AsksAreHeld'
    <2>1. \A x \in Requests : req'[x] = IF x = r THEN Done ELSE req[x]
      BY <1>4, OthersStay DEF CommitAsk, CommitFulfil
    <2>2. /\ req[r].op = "open" \/ Resolving(r)
          /\ \A q \in Asks : q # req[r].ask => ask'[q] = ask[q]
      BY <1>4 DEF TypeOK, CommitAsk, CommitFulfil, Resolving
    <2>3. \A x \in Requests : x # r /\ (req[x].op = "open" \/ Resolving(x)) =>
              req[x].ask # req[r].ask
      BY <2>2 DEF AsksAreHeld, Resolving
    <2> QED BY <1>0, <2>1, <2>2, <2>3 DEF AsksAreHeld, Resolving, Done
  <1>5. ASSUME NEW r \in Requests, NEW c \in Credentials,
               \/ Add(r, c)
               \/ FindToDelete(r, c)
               \/ \E s \in Sessions : Gate(r, s, c)
        PROVE  AsksAreHeld'
    <2>1. PICK o \in Operations : o.op \in {"add", "delete", "view"} /\ Start(r, o)
      BY <1>5, OperationKinds DEF Add, FindToDelete, Gate
    <2>2. ask' = ask
      BY <1>5 DEF Add, FindToDelete, Gate, tables
    <2> QED BY <1>0, <2>1, <2>2, OthersStay, AsksQuiet
  <1>6. ASSUME NEW r \in Requests, CommitAdd(r) \/ CommitDelete(r) \/ Show(r) \/ Abort(r)
        PROVE  AsksAreHeld'
    <2>1. \A x \in Requests : req'[x] = IF x = r THEN Done ELSE req[x]
      BY <1>6, OthersStay DEF CommitAdd, CommitDelete, Show, Abort
    <2>2. \A q \in Asks : ask'[q].status = ask[q].status
      <3>1. CASE CommitDelete(r)
        BY <3>1 DEF TypeOK, Ask, CommitDelete
      <3> QED BY <1>6, <3>1 DEF CommitAdd, Show, Abort, tables
    <2> QED BY <1>0, <2>1, <2>2, AsksQuiet DEF Done
  <1>7. ASSUME NEW r \in Requests, Delete(r) \/ Read(r) \/ CommitView(r)
        PROVE  AsksAreHeld'
    <2>1. ask' = ask
      BY <1>7 DEF Delete, Read, CommitView, tables
    <2> QED BY <1>0, <1>7, <2>1, OthersStay, AsksQuiet
  <1>8. CASE \/ Suspend \/ Reactivate
             \/ \E s \in Sessions : \/ Lapse(s) \/ LogIn(s)
                                    \/ \E code \in {"right", "wrong"} : StepUp(s, code)
    BY <1>1, <1>8 DEF Suspend, Reactivate, Lapse, LogIn, StepUp, tables
  <1>9. CASE UNCHANGED vars
    BY <1>1, <1>9 DEF vars, tables
  <1> QED BY <1>2, <1>3, <1>4, <1>5, <1>6, <1>7, <1>8, <1>9 DEF Next

(***************************************************************************)
(* Why an ask leaves one credential, or none.                              *)
(***************************************************************************)

\* A step that takes no credential up, creates none and deletes none.
LEMMA CredentialsQuiet ==
    ASSUME CredentialsAreNew, made' = made,
           \A c \in Credentials : cred'[c] = "none" <=> cred[c] = "none",
           \A x \in Requests :
              req'[x].op \in {"fulfil", "add", "delete"} =>
                  /\ req'[x].op = req[x].op
                  /\ req'[x].cred = req[x].cred
                  /\ req[x].cred \in Credentials,
           made \in [Asks -> SUBSET Credentials]
    PROVE  CredentialsAreNew'
  BY DEF CredentialsAreNew, Creating

LEMMA CredentialsStep == TypeOK /\ CredentialsAreNew /\ [Next]_vars => CredentialsAreNew'
  <1> SUFFICES ASSUME TypeOK, CredentialsAreNew, [Next]_vars PROVE CredentialsAreNew'
    OBVIOUS
  <1> USE DEF tables, trail
  <1>0. /\ \A x \in Requests : req[x].op \in {"fulfil", "add", "delete"} =>
               req[x].cred \in Credentials
        /\ made \in [Asks -> SUBSET Credentials]
    BY OperationParts DEF TypeOK
  <1>1. CASE UNCHANGED <<cred, made, req>>
    BY <1>0, <1>1, CredentialsQuiet
  <1>2. ASSUME NEW r \in Requests, NEW c \in Credentials,
               Add(r, c) \/ \E q \in Asks : Fulfil(r, q, c)
        PROVE  CredentialsAreNew'
    <2>1. cred[c] = "none" /\ \A x \in Requests : Creating(x) => req[x].cred # c
      BY <1>2 DEF Add, Fulfil, Fresh
    <2>2. PICK o \in Operations : o.op # "delete" /\ o.cred = c /\ Start(r, o)
      BY <1>2, OperationKinds DEF Add, Fulfil
    <2>3. \A x \in Requests : req'[x] = IF x = r THEN o ELSE req[x]
      BY <2>2, OthersStay
    <2>4. cred' = cred /\ made' = made
      BY <1>2 DEF Add, Fulfil
    <2> QED BY <2>1, <2>2, <2>3, <2>4 DEF CredentialsAreNew, Creating
  <1>3. ASSUME NEW r \in Requests, NEW c \in Credentials, FindToDelete(r, c)
        PROVE  CredentialsAreNew'
    <2>1. cred[c] = "live"
      BY <1>3 DEF FindToDelete
    <2>2. PICK o \in Operations : o.op = "delete" /\ o.cred = c /\ Start(r, o)
      BY <1>3, OperationKinds DEF FindToDelete
    <2>3. \A x \in Requests : req'[x] = IF x = r THEN o ELSE req[x]
      BY <2>2, OthersStay
    <2>4. cred' = cred /\ made' = made
      BY <1>3 DEF FindToDelete
    <2> QED BY <2>1, <2>2, <2>3, <2>4 DEF CredentialsAreNew, Creating
  <1>4. ASSUME NEW r \in Requests, CommitAdd(r) \/ CommitFulfil(r)
        PROVE  CredentialsAreNew'
    <2>1. \A x \in Requests : req'[x] = IF x = r THEN Done ELSE req[x]
      BY <1>4, OthersStay DEF CommitAdd, CommitFulfil
    <2>2. /\ Creating(r)
          /\ \A c \in Credentials : cred'[c] = IF c = req[r].cred THEN "live" ELSE cred[c]
      BY <1>4 DEF TypeOK, CommitAdd, CommitFulfil, Creating
    <2>3. \A q \in Asks : made'[q] \subseteq made[q] \cup {req[r].cred}
      BY <1>0, <1>4 DEF CommitAdd, CommitFulfil
    <2>4. \A x \in Requests : x # r /\ Creating(x) => req[x].cred # req[r].cred
      BY <2>2 DEF CredentialsAreNew
    <2>5. req[r].cred \in Credentials
      BY <1>0, <2>2 DEF Creating
    <2> QED BY <1>0, <2>1, <2>2, <2>3, <2>4, <2>5 DEF CredentialsAreNew, Creating, Done
  <1>5. ASSUME NEW r \in Requests, CommitDelete(r)
        PROVE  CredentialsAreNew'
    <2>1. \A x \in Requests : req'[x] = IF x = r THEN Done ELSE req[x]
      BY <1>5, OthersStay DEF CommitDelete
    <2>2. \A c \in Credentials : cred'[c] = IF c = req[r].cred THEN "deleted" ELSE cred[c]
      BY <1>5 DEF TypeOK, CommitDelete
    <2>3. cred[req[r].cred] # "none" /\ made' = made
      BY <1>5 DEF CommitDelete, CredentialsAreNew
    <2>4. \A c \in Credentials : cred'[c] = "none" <=> cred[c] = "none"
      BY <2>2, <2>3
    <2> QED BY <1>0, <2>1, <2>3, <2>4, CredentialsQuiet DEF Done
  <1>6. ASSUME NEW r \in Requests,
               \/ CommitAsk(r) \/ Show(r) \/ Abort(r)
        PROVE  CredentialsAreNew'
    <2>1. \A x \in Requests : req'[x] = IF x = r THEN Done ELSE req[x]
      BY <1>6, OthersStay DEF CommitAsk, Show, Abort
    <2>2. cred' = cred /\ made' = made
      BY <1>6 DEF CommitAsk, Show, Abort
    <2> QED BY <1>0, <2>1, <2>2, CredentialsQuiet DEF Done
  <1>7. ASSUME NEW r \in Requests, Delete(r) \/ Read(r) \/ CommitView(r)
        PROVE  CredentialsAreNew'
    <2>1. cred' = cred /\ made' = made
      BY <1>7 DEF Delete, Read, CommitView
    <2> QED BY <1>0, <1>7, <2>1, OthersStay, CredentialsQuiet
  <1>8. ASSUME NEW r \in Requests,
               \/ \E q \in Asks : \/ OpenAsk(r, q)
                                  \/ \E op \in {"decline", "cancel"} : Resolve(r, q, op)
               \/ \E s \in Sessions, c \in Credentials : Gate(r, s, c)
        PROVE  CredentialsAreNew'
    <2>1. PICK o \in Operations :
             o.op \notin {"fulfil", "add", "delete"} /\ Start(r, o)
      BY <1>8, OperationKinds DEF OpenAsk, Resolve, Gate
    <2>2. cred' = cred /\ made' = made
      BY <1>8 DEF OpenAsk, Resolve, Gate
    <2> QED BY <1>0, <2>1, <2>2, OthersStay, CredentialsQuiet
  <1>9. CASE \/ Suspend \/ Reactivate
             \/ \E s \in Sessions : \/ Lapse(s) \/ LogIn(s)
                                    \/ \E code \in {"right", "wrong"} : StepUp(s, code)
             \/ UNCHANGED vars
    BY <1>1, <1>9 DEF Suspend, Reactivate, Lapse, LogIn, StepUp, vars
  <1> QED BY <1>2, <1>3, <1>4, <1>5, <1>6, <1>7, <1>8, <1>9 DEF Next

\* What a step may do to the asks: commit an ask, fulfil one, clear a pointer.
LEMMA AskSteps ==
    ASSUME TypeOK, [Next]_vars
    PROVE  \/ UNCHANGED <<ask, made>>
           \/ \E r \in Requests : CommitAsk(r) \/ CommitFulfil(r) \/ CommitDelete(r)
  BY DEF Next, vars, tables, trail, Suspend, Reactivate, OpenAsk, Add, Fulfil, Resolve,
         CommitAdd, FindToDelete, Delete, Gate, Read, CommitView, Show, Abort, Lapse,
         LogIn, StepUp

LEMMA MadeStep ==
    TypeOK /\ AsksAreHeld /\ MadeByFulfilment /\ [Next]_vars => MadeByFulfilment'
  <1> SUFFICES ASSUME TypeOK, AsksAreHeld, MadeByFulfilment, [Next]_vars
               PROVE  MadeByFulfilment'
    OBVIOUS
  <1>1. CASE UNCHANGED <<ask, made>>
    BY <1>1 DEF MadeByFulfilment
  <1>2. ASSUME NEW r \in Requests, CommitAsk(r)
        PROVE  MadeByFulfilment'
    <2>1. /\ ask[req[r].ask].status \in {"none", "open"}
          /\ made' = made
          /\ \A q \in Asks : q # req[r].ask => ask'[q] = ask[q]
      BY <1>2 DEF TypeOK, AsksAreHeld, Resolving, CommitAsk, trail
    <2>2. ASSUME req[r].ask \in Asks
          PROVE  ask'[req[r].ask].status # "fulfilled"
      BY <1>2, <2>2 DEF TypeOK, Ask, CommitAsk
    <2> QED BY <2>1, <2>2 DEF MadeByFulfilment
  <1>3. ASSUME NEW r \in Requests, CommitFulfil(r)
        PROVE  MadeByFulfilment'
    <2>1. req[r].ask \in Asks /\ req[r].cred \in Credentials
      BY <1>3, OperationParts DEF TypeOK, CommitFulfil
    <2>2. ask[req[r].ask].status = "open"
      BY <1>3 DEF AsksAreHeld, Resolving, CommitFulfil
    <2>3. made[req[r].ask] = {}
      BY <2>1, <2>2 DEF MadeByFulfilment
    <2>4. /\ made'[req[r].ask] = {req[r].cred}
          /\ ask'[req[r].ask].status = "fulfilled"
          /\ \A q \in Asks : q # req[r].ask => ask'[q] = ask[q] /\ made'[q] = made[q]
      BY <1>3, <2>1, <2>3 DEF TypeOK, CommitFulfil
    <2> QED BY <2>1, <2>4 DEF MadeByFulfilment
  <1>4. ASSUME NEW r \in Requests, CommitDelete(r)
        PROVE  MadeByFulfilment'
    <2>1. made' = made /\ \A q \in Asks : ask'[q].status = ask[q].status
      BY <1>4 DEF TypeOK, Ask, CommitDelete, trail
    <2> QED BY <2>1 DEF MadeByFulfilment
  <1> QED BY <1>1, <1>2, <1>3, <1>4, AskSteps

\* What a step may do to the credentials: besides asks, a credential is added.
LEMMA TableSteps ==
    ASSUME TypeOK, [Next]_vars
    PROVE  \/ UNCHANGED <<ask, cred, made>>
           \/ \E r \in Requests :
                 CommitAsk(r) \/ CommitAdd(r) \/ CommitFulfil(r) \/ CommitDelete(r)
  BY DEF Next, vars, tables, trail, Suspend, Reactivate, OpenAsk, Add, Fulfil, Resolve,
         FindToDelete, Delete, Gate, Read, CommitView, Show, Abort, Lapse, LogIn, StepUp

LEMMA PointerStep ==
    /\ TypeOK /\ AsksAreHeld /\ CredentialsAreNew /\ MadeByFulfilment
    /\ PointerTellsDeletion
    /\ [Next]_vars
    => PointerTellsDeletion'
  <1> SUFFICES ASSUME TypeOK, AsksAreHeld, CredentialsAreNew, MadeByFulfilment,
                      PointerTellsDeletion, [Next]_vars,
                      NEW q \in Asks, ask'[q].status = "fulfilled"
               PROVE  ask'[q].filled = {c \in made'[q] : cred'[c] = "live"}
    BY DEF PointerTellsDeletion
  <1> DEFINE Pointed == ask[q].filled = {c \in made[q] : cred[c] = "live"}
  <1>0. made[q] \subseteq Credentials
    BY DEF TypeOK
  <1>1. CASE UNCHANGED <<ask, cred, made>>
    BY <1>1 DEF PointerTellsDeletion
  <1>2. ASSUME NEW r \in Requests, CommitAsk(r)
        PROVE  ask'[q].filled = {c \in made'[q] : cred'[c] = "live"}
    <2>1. q # req[r].ask
      BY <1>2 DEF TypeOK, Ask, CommitAsk
    <2>2. ask'[q] = ask[q] /\ made' = made /\ cred' = cred
      BY <1>2, <2>1 DEF TypeOK, CommitAsk, trail
    <2> QED BY <2>2 DEF PointerTellsDeletion
  <1>3. ASSUME NEW r \in Requests, CommitAdd(r)
        PROVE  ask'[q].filled = {c \in made'[q] : cred'[c] = "live"}
    <2>1. cred[req[r].cred] = "none"
      BY <1>3 DEF CommitAdd, CredentialsAreNew, Creating
    <2>2. req[r].cred \notin made[q]
      BY <2>1 DEF CredentialsAreNew
    <2>3. /\ ask' = ask /\ made' = made
          /\ \A c \in Credentials : c # req[r].cred => cred'[c] = cred[c]
      BY <1>3 DEF TypeOK, CommitAdd, trail
    <2>4. Pointed
      BY <2>3 DEF PointerTellsDeletion
    <2> QED BY <1>0, <2>2, <2>3, <2>4
  <1>4. ASSUME NEW r \in Requests, CommitFulfil(r)
        PROVE  ask'[q].filled = {c \in made'[q] : cred'[c] = "live"}
    <2>1. req[r].ask \in Asks /\ req[r].cred \in Credentials
      BY <1>4, OperationParts DEF TypeOK, CommitFulfil
    <2>2. /\ \A c \in Credentials : cred'[c] = IF c = req[r].cred THEN "live" ELSE cred[c]
          /\ made'[q] = IF q = req[r].ask THEN made[q] \cup {req[r].cred} ELSE made[q]
          /\ ask'[q].filled = IF q = req[r].ask THEN {req[r].cred} ELSE ask[q].filled
          /\ q # req[r].ask => ask'[q] = ask[q]
      BY <1>4 DEF TypeOK, CommitFulfil
    <2>3. CASE q = req[r].ask
      <3>1. ask[q].status = "open"
        BY <1>4, <2>3 DEF CommitFulfil, AsksAreHeld, Resolving
      <3>2. made[q] = {}
        BY <3>1 DEF MadeByFulfilment
      <3> QED BY <2>1, <2>2, <2>3, <3>2
    <2>4. CASE q # req[r].ask
      <3>1. cred[req[r].cred] = "none"
        BY <1>4 DEF CommitFulfil, CredentialsAreNew, Creating
      <3>2. req[r].cred \notin made[q]
        BY <3>1 DEF CredentialsAreNew
      <3>3. Pointed
        BY <2>2, <2>4 DEF PointerTellsDeletion
      <3> QED BY <1>0, <2>2, <2>4, <3>2, <3>3
    <2> QED BY <2>3, <2>4
  <1>5. ASSUME NEW r \in Requests, CommitDelete(r)
        PROVE  ask'[q].filled = {c \in made'[q] : cred'[c] = "live"}
    <2>1. /\ made' = made
          /\ ask'[q].status = ask[q].status
          /\ ask'[q].filled = ask[q].filled \ {req[r].cred}
          /\ \A c \in Credentials :
                cred'[c] = IF c = req[r].cred THEN "deleted" ELSE cred[c]
      BY <1>5 DEF TypeOK, Ask, CommitDelete, trail
    <2>2. Pointed
      BY <2>1 DEF PointerTellsDeletion
    <2> QED BY <1>0, <2>1, <2>2
  <1> QED BY <1>1, <1>2, <1>3, <1>4, <1>5, TableSteps

(***************************************************************************)
(* Why contents that were shown are audited.                               *)
(***************************************************************************)

\* A step that commits no view and shows none.
LEMMA ViewsQuiet ==
    ASSUME CommittedViewsAreAudited, ViewsAreAudited, UNCHANGED <<audited, shown>>,
           \A x \in Requests :
              req'[x].op = "view" /\ req'[x].step = "committed" => req'[x] = req[x]
    PROVE  CommittedViewsAreAudited' /\ ViewsAreAudited'
  BY DEF CommittedViewsAreAudited, ViewsAreAudited

LEMMA ViewsStep ==
    TypeOK /\ CommittedViewsAreAudited /\ ViewsAreAudited /\ [Next]_vars
    => CommittedViewsAreAudited' /\ ViewsAreAudited'
  <1> DEFINE Audited == CommittedViewsAreAudited /\ ViewsAreAudited
  <1> SUFFICES ASSUME TypeOK, Audited, [Next]_vars PROVE Audited'
    OBVIOUS
  <1> USE DEF tables, trail
  <1>1. CASE UNCHANGED <<audited, shown, req>>
    BY <1>1, ViewsQuiet
  <1>2. ASSUME NEW r \in Requests, CommitView(r)
        PROVE  Audited'
    <2>1. /\ \A x \in Requests : x # r => req'[x] = req[x]
          /\ req'[r].session = req[r].session
          /\ req'[r].cred = req[r].cred
      BY <1>2, OthersStay DEF CommitView
    <2>2. audited' = audited \cup {<<r, req[r].session, req[r].cred>>} /\ shown' = shown
      BY <1>2 DEF CommitView
    <2> QED BY <2>1, <2>2 DEF CommittedViewsAreAudited, ViewsAreAudited
  <1>3. ASSUME NEW r \in Requests, Show(r)
        PROVE  Audited'
    <2>1. \A x \in Requests : req'[x] = IF x = r THEN Done ELSE req[x]
      BY <1>3, OthersStay DEF Show
    <2>2. <<r, req[r].session, req[r].cred>> \in audited
      BY <1>3 DEF Show, CommittedViewsAreAudited
    <2>3. audited' = audited /\ shown' = shown \cup {<<r, req[r].session, req[r].cred>>}
      BY <1>3 DEF Show
    <2> QED BY <2>1, <2>2, <2>3 DEF CommittedViewsAreAudited, ViewsAreAudited, Done
  <1>4. ASSUME NEW r \in Requests, Delete(r) \/ Read(r)
        PROVE  Audited'
    <2>1. /\ \A x \in Requests : x # r => req'[x] = req[x]
          /\ req'[r].op = "view" => req'[r].step = "read"
      <3>1. CASE Delete(r)
        BY <3>1, OthersStay DEF Delete
      <3>2. CASE Read(r)
        <4>1. req'[r] = [req[r] EXCEPT !.step = "read"]
          BY <3>2 DEF TypeOK, Read
        <4> QED BY <3>2, <4>1, OthersStay, OperationParts DEF TypeOK, Read
      <3> QED BY <1>4, <3>1, <3>2
    <2>2. UNCHANGED <<audited, shown>>
      BY <1>4 DEF Delete, Read
    <2> QED BY <2>1, <2>2, ViewsQuiet
  <1>5. ASSUME NEW r \in Requests,
               CommitAsk(r) \/ CommitAdd(r) \/ CommitFulfil(r) \/ CommitDelete(r) \/ Abort(r)
        PROVE  Audited'
    <2>1. \A x \in Requests : req'[x] = IF x = r THEN Done ELSE req[x]
      BY <1>5, OthersStay DEF CommitAsk, CommitAdd, CommitFulfil, CommitDelete, Abort
    <2>2. UNCHANGED <<audited, shown>>
      BY <1>5 DEF CommitAsk, CommitAdd, CommitFulfil, CommitDelete, Abort
    <2> QED BY <2>1, <2>2, ViewsQuiet DEF Done
  <1>6. ASSUME NEW r \in Requests,
               \/ \E q \in Asks : \/ OpenAsk(r, q)
                                  \/ \E c \in Credentials : Fulfil(r, q, c)
                                  \/ \E op \in {"decline", "cancel"} : Resolve(r, q, op)
               \/ \E c \in Credentials : \/ Add(r, c)
                                         \/ FindToDelete(r, c)
                                         \/ \E s \in Sessions : Gate(r, s, c)
        PROVE  Audited'
    <2>1. PICK o \in Operations : (o.op = "view" => o.step = "gated") /\ Start(r, o)
      BY <1>6, OperationKinds DEF OpenAsk, Fulfil, Resolve, Add, FindToDelete, Gate
    <2>2. \A x \in Requests : req'[x] = IF x = r THEN o ELSE req[x]
      BY <2>1, OthersStay
    <2>3. UNCHANGED <<audited, shown>>
      BY <1>6 DEF OpenAsk, Fulfil, Resolve, Add, FindToDelete, Gate
    <2> QED BY <2>1, <2>2, <2>3, ViewsQuiet
  <1>7. CASE \/ Suspend \/ Reactivate
             \/ \E s \in Sessions : \/ Lapse(s) \/ LogIn(s)
                                    \/ \E code \in {"right", "wrong"} : StepUp(s, code)
             \/ UNCHANGED vars
    BY <1>1, <1>7 DEF Suspend, Reactivate, Lapse, LogIn, StepUp, vars
  <1> QED BY <1>2, <1>3, <1>4, <1>5, <1>6, <1>7 DEF Next

(***************************************************************************)
(* The inductive invariant, and what follows from it.                      *)
(***************************************************************************)

LEMMA InitInv == Init => VaultInv
  BY InitType DEF Init, VaultInv, AsksAreHeld, CredentialsAreNew, MadeByFulfilment,
                  PointerTellsDeletion, CommittedViewsAreAudited, ViewsAreAudited,
                  Resolving, Creating, Idle

LEMMA StepInv == VaultInv /\ [Next]_vars => VaultInv'
  BY StepType, AsksStep, CredentialsStep, MadeStep, PointerStep, ViewsStep DEF VaultInv

\* The invariant that the theorems below rest on holds of every instance.
THEOREM VaultInvariant == Spec => []VaultInv
  BY InitInv, StepInv, PTL DEF Spec

\* Whoever fulfils, declines or cancels an ask at the same time, the ask is
\* decided once: each of the three holds it and has seen it open.
THEOREM AsksResolved == Spec => AsksResolveOnce
  <1>1. VaultInv /\ [Next]_vars =>
          [\A q \in Asks : ask[q].status \in Resolved => ask'[q].status = ask[q].status]_ask
    <2> SUFFICES ASSUME VaultInv, [Next]_vars, NEW q \in Asks, ask[q].status \in Resolved
                 PROVE  ask'[q].status = ask[q].status
      OBVIOUS
    <2>0. TypeOK /\ AsksAreHeld
      BY DEF VaultInv
    <2>1. CASE UNCHANGED <<ask, made>>
      BY <2>1
    <2>2. ASSUME NEW r \in Requests, CommitAsk(r) \/ CommitFulfil(r)
          PROVE  ask'[q].status = ask[q].status
      <3>1. ask[req[r].ask].status \in {"none", "open"}
        BY <2>0, <2>2 DEF CommitAsk, CommitFulfil, AsksAreHeld, Resolving
      <3>2. q # req[r].ask
        BY <3>1 DEF Resolved
      <3> QED BY <2>0, <2>2, <3>2 DEF TypeOK, CommitAsk, CommitFulfil
    <2>3. ASSUME NEW r \in Requests, CommitDelete(r)
          PROVE  ask'[q].status = ask[q].status
      BY <2>0, <2>3 DEF TypeOK, Ask, CommitDelete
    <2> QED BY <2>0, <2>1, <2>2, <2>3, AskSteps
  <1> QED BY <1>1, VaultInvariant, PTL DEF Spec, AsksResolveOnce

\* A fulfilled ask has led to one credential, any other ask to none: a loser of
\* a race leaves no credential behind.
THEOREM OneCredential == Spec => []OneCredentialPerAsk
  <1>1. VaultInv => OneCredentialPerAsk
    <2> SUFFICES ASSUME VaultInv, NEW q \in Asks
                 PROVE  Cardinality(made[q]) = IF ask[q].status = "fulfilled" THEN 1 ELSE 0
      BY DEF OneCredentialPerAsk
    <2>1. CASE ask[q].status = "fulfilled"
      BY <2>1, FS_Singleton DEF VaultInv, MadeByFulfilment
    <2>2. CASE ask[q].status # "fulfilled"
      BY <2>2, FS_EmptySet DEF VaultInv, MadeByFulfilment
    <2> QED BY <2>1, <2>2
  <1> QED BY <1>1, VaultInvariant, PTL

\* The pointer of a fulfilled ask is empty exactly when its credential has been
\* deleted, which is how the read side tells the two cases apart.
THEOREM PointersTell == Spec => []PointerTellsDeletion
  <1>1. VaultInv => PointerTellsDeletion
    BY DEF VaultInv
  <1> QED BY <1>1, VaultInvariant, PTL

\* Contents leave the server only after the audit row of their view is committed.
THEOREM ViewsAudited == Spec => []ViewsAreAudited
  <1>1. VaultInv => ViewsAreAudited
    BY DEF VaultInv
  <1> QED BY <1>1, VaultInvariant, PTL
-----------------------------------------------------------------------------
(***************************************************************************)
(* The pages.                                                              *)
(***************************************************************************)

\* What a page is about, by what it is for.
LEMMA PageParts ==
    ASSUME NEW p \in Pages
    PROVE  /\ p.for \in {"fulfil", "decline", "cancel"} => p.ask \in Asks
           /\ p.for \in {"delete", "reveal"} => p.cred \in Credentials
           /\ p.for = "reveal" => p.session \in Sessions
  BY DEF Pages

LEMMA PageKinds ==
    /\ NoPage \in Pages
    /\ \A f \in {"request", "add"} : [for |-> f] \in Pages
    /\ \A f \in {"fulfil", "decline", "cancel"}, q \in Asks : [for |-> f, ask |-> q] \in Pages
    /\ \A c \in Credentials : [for |-> "delete", cred |-> c] \in Pages
    /\ \A s \in Sessions, c \in Credentials :
          [for |-> "reveal", session |-> s, cred |-> c] \in Pages
  BY DEF Pages, NoPage

\* A page that has checked its session is about to call a service.
LEMMA PageIsVisit ==
    ASSUME NEW r \in Requests, NEW s \in Sessions, PageOfRequest(r, s)
    PROVE  \E asking \in Pages : Visit(r, asking)
  <1>1. CASE \/ PostRequestOfAdmin(r, s)
             \/ PostCredentialOfCustomer(r, s) \/ PostCredentialOfAdmin(r, s)
    BY <1>1, PageKinds
       DEF PostRequestOfAdmin, PostCredentialOfCustomer, PostCredentialOfAdmin
  <1>2. ASSUME NEW q \in Asks,
               PostFulfil(r, s, q) \/ PostNotApplicable(r, s, q) \/ PostCancel(r, s, q)
        PROVE  \E asking \in Pages : Visit(r, asking)
    BY <1>2, PageKinds DEF PostFulfil, PostNotApplicable, PostCancel
  <1>3. ASSUME NEW c \in Credentials,
               \/ PostDeleteOfCustomer(r, s, c) \/ PostDeleteOfAdmin(r, s, c)
               \/ RevealToCustomer(r, s, c) \/ RevealToAdmin(r, s, c)
        PROVE  \E asking \in Pages : Visit(r, asking)
    BY <1>3, PageKinds
       DEF PostDeleteOfCustomer, PostDeleteOfAdmin, RevealToCustomer, RevealToAdmin
  <1> QED BY <1>1, <1>2, <1>3 DEF PageOfRequest

LEMMA EditLeavesVault ==
    ASSUME NEW e \in Edits, EditStep(e)
    PROVE  UNCHANGED <<vars, page, stepped>>
  BY DEF EditStep, PostEditOfCustomer, PostEditOfAdmin, BeginEdit, FindToEdit,
         SaveContents, SaveScope, AbortEdit

\* Requests are about what there is.
PagesType == page \in [Requests -> Pages]

LEMMA PagesStep == PagesType /\ [RouteNext]_routeVars => PagesType'
  <1> SUFFICES ASSUME PagesType, [RouteNext]_routeVars PROVE PagesType'
    OBVIOUS
  <1>1. CASE UNCHANGED page
    BY <1>1 DEF PagesType
  <1>2. ASSUME NEW r \in Requests, NEW s \in Sessions, PageOfRequest(r, s)
        PROVE  PagesType'
    BY <1>2, PageIsVisit DEF PagesType, Visit
  <1>3. ASSUME NEW r \in Requests, Call(r)
        PROVE  PagesType'
    BY <1>3, PageKinds DEF PagesType, Call
  <1>4. ASSUME NEW r \in Requests, NEW scope \in Scopes, CommitAddTo(r, scope)
        PROVE  UNCHANGED page
    BY <1>4 DEF CommitAddTo
  <1>5. ASSUME NEW e \in Edits, EditStep(e)
        PROVE  UNCHANGED page
    BY <1>5, EditLeavesVault
  <1>6. ASSUME NEW s \in Sessions, NEW code \in {"right", "wrong"}, PostStepUp(s, code)
        PROVE  UNCHANGED page
    BY <1>6 DEF PostStepUp
  <1>7. ASSUME NEW s \in AdminSessions, StepLapses(s)
        PROVE  UNCHANGED page
    BY <1>7 DEF StepLapses
  <1> QED BY <1>1, <1>2, <1>3, <1>4, <1>5, <1>6, <1>7 DEF RouteNext, routeVars

\* What a page calls is an operation of a service.
LEMMA CallIsServiceStep ==
    ASSUME PagesType, NEW r \in Requests, Call(r)
    PROVE  Next
  <1> DEFINE p == page[r]
  <1>0. p \in Pages
    BY DEF PagesType
  <1>1. ASSUME p.for = "request", NEW q \in Asks, OpenAsk(r, q)
        PROVE  Next
    BY <1>1 DEF Next
  <1>2. CASE p.for = "fulfil" /\ \E c \in Credentials : Fulfil(r, p.ask, c)
    BY <1>0, <1>2, PageParts DEF Next
  <1>3. CASE p.for \in {"decline", "cancel"} /\ Resolve(r, p.ask, p.for)
    BY <1>0, <1>3, PageParts DEF Next
  <1>4. CASE p.for = "add" /\ \E c \in Credentials : Add(r, c)
    BY <1>4 DEF Next
  <1>5. CASE p.for = "delete" /\ FindToDelete(r, p.cred)
    BY <1>0, <1>5, PageParts DEF Next
  <1>6. CASE p.for = "reveal" /\ Gate(r, p.session, p.cred)
    BY <1>0, <1>6, PageParts DEF Next
  <1> QED BY <1>1, <1>2, <1>3, <1>4, <1>5, <1>6 DEF Call

\* Every step of the pages is a step of the services, or leaves them alone.
LEMMA RouteStepIsServiceStep ==
    PagesType /\ [RouteNext]_routeVars => [Next]_vars
  <1> SUFFICES ASSUME PagesType, [RouteNext]_routeVars PROVE [Next]_vars
    OBVIOUS
  <1>1. CASE Suspend \/ Reactivate
    BY <1>1 DEF Next
  <1>2. ASSUME NEW r \in Requests, NEW s \in Sessions, PageOfRequest(r, s)
        PROVE  UNCHANGED vars
    BY <1>2, PageIsVisit DEF Visit
  <1>3. ASSUME NEW r \in Requests, Call(r)
        PROVE  Next
    BY <1>3, CallIsServiceStep
  <1>4. ASSUME NEW r \in Requests,
               ServiceStep(r) \/ \E scope \in Scopes : CommitAddTo(r, scope)
        PROVE  Next
    BY <1>4 DEF ServiceStep, CommitAddTo, Next
  <1>5. ASSUME NEW e \in Edits, EditStep(e)
        PROVE  UNCHANGED vars
    BY <1>5, EditLeavesVault
  <1>6. ASSUME NEW s \in Sessions,
               \/ LapseOf(s) \/ LogIn(s)
               \/ \E code \in {"right", "wrong"} : PostStepUp(s, code)
        PROVE  Next
    BY <1>6 DEF LapseOf, PostStepUp, Next
  <1>7. ASSUME NEW s \in AdminSessions, StepLapses(s)
        PROVE  UNCHANGED vars
    BY <1>7 DEF StepLapses
  <1>8. CASE UNCHANGED routeVars
    BY <1>8 DEF routeVars
  <1> QED BY <1>1, <1>2, <1>3, <1>4, <1>5, <1>6, <1>7, <1>8 DEF RouteNext

\* The pages implement the services: a run of the pages, seen through the
\* variables of Vault, is a run of Vault.
THEOREM PagesFollowServices == RouteSpec => Spec
  <1>1. RouteInit => Init /\ PagesType
    BY PageKinds DEF RouteInit, PagesType
  <1> QED BY <1>1, PagesStep, RouteStepIsServiceStep, PTL DEF RouteSpec, Spec

\* Whichever pages race, a fulfilled ask has led to one credential.
THEOREM PagesFulfilOnce == RouteSpec => []OneCredentialPerAsk
  BY PagesFollowServices, OneCredential, PTL

\* Contents reach neither page before the audit row of their view is committed.
THEOREM PagesAuditViews == RouteSpec => []ViewsAreAudited
  BY PagesFollowServices, ViewsAudited, PTL

(***************************************************************************)
(* The trail of the edits.                                                 *)
(***************************************************************************)

\* An edit under way is of a credential, and one that has read it knows a project.
LEMMA EditParts ==
    ASSUME NEW o \in Editing, o.op = "edit"
    PROVE  /\ o.cred \in Credentials /\ o.at \in Nat
           /\ o.step = "found" =>
                 /\ o.from \in Scopes /\ o.stale \in BOOLEAN
                 /\ [o EXCEPT !.stale = TRUE] \in Editing
  BY DEF Editing

\* The time of a transaction is a number.
LEMMA TimesCount == 1 + Cardinality({x \in Edits : edit[x] # Idle}) \in Nat
  BY EditsAreFinite, FS_Subset, FS_CardinalityType

LEMMA RouteInitType == RouteInit => RouteTypeOK
  BY PageKinds DEF RouteInit, RouteTypeOK, Scopes, AuditRow, Editing, Idle

LEMMA RouteStepType == TypeOK /\ RouteTypeOK /\ [RouteNext]_routeVars => RouteTypeOK'
  <1> SUFFICES ASSUME TypeOK, RouteTypeOK, [RouteNext]_routeVars PROVE RouteTypeOK'
    OBVIOUS
  <1>0. page' \in [Requests -> Pages]
    BY PagesStep DEF PagesType, RouteTypeOK
  <1>1. CASE UNCHANGED <<stepped, edits>>
    BY <1>0, <1>1 DEF RouteTypeOK, edits
  <1>2. ASSUME NEW r \in Requests,
               (\E s \in Sessions : PageOfRequest(r, s)) \/ Call(r)
        PROVE  UNCHANGED <<stepped, edits>>
    BY <1>2, PageIsVisit DEF Visit, Call
  <1>3. ASSUME NEW r \in Requests, NEW scope \in Scopes, CommitAddTo(r, scope)
        PROVE  RouteTypeOK'
    <2>1. [at |-> 0, project |-> scope] \in AuditRow
      BY DEF AuditRow
    <2> QED BY <1>0, <1>3, <2>1 DEF RouteTypeOK, CommitAddTo
  <1>4. ASSUME NEW e \in Edits, EditStep(e)
        PROVE  RouteTypeOK'
    <2>0. stepped' = stepped
      BY <1>4, EditLeavesVault
    <2>1. Done \in Editing
      BY DEF Editing, Done
    <2>2. ASSUME NEW c \in Credentials, BeginEdit(e, c)
          PROVE  RouteTypeOK'
      <3> DEFINE at == 1 + Cardinality({x \in Edits : edit[x] # Idle})
      <3>1. at \in Nat
        BY TimesCount
      <3>2. [op |-> "edit", step |-> "begun", cred |-> c, at |-> at] \in Editing
        BY <3>1 DEF Editing
      <3> QED BY <1>0, <2>0, <2>2, <3>2 DEF RouteTypeOK, BeginEdit
    <2>3. ASSUME FindToEdit(e)
          PROVE  RouteTypeOK'
      <3>1. edit[e].cred \in Credentials /\ edit[e].at \in Nat
        BY <2>3, EditParts DEF RouteTypeOK, FindToEdit
      <3>2. project[edit[e].cred] \in Scopes
        BY <3>1 DEF RouteTypeOK
      <3>3. [op |-> "edit", step |-> "found", cred |-> edit[e].cred, at |-> edit[e].at,
             from |-> project[edit[e].cred], stale |-> FALSE] \in Editing
        BY <3>1, <3>2 DEF Editing
      <3> QED BY <1>0, <2>0, <2>3, <3>3 DEF RouteTypeOK, FindToEdit
    <2>4. ASSUME CanWrite(e)
          PROVE  /\ edit[e].cred \in Credentials /\ edit[e].from \in Scopes
                 /\ \A scope \in Scopes :
                       Told(e, scope) => told' \in [Credentials -> AuditRow]
      <3>1. edit[e].cred \in Credentials /\ edit[e].at \in Nat /\ edit[e].from \in Scopes
        BY <2>4, EditParts DEF RouteTypeOK, CanWrite
      <3>2. \A scope \in Scopes : [at |-> edit[e].at, project |-> scope] \in AuditRow
        BY <3>1 DEF AuditRow
      <3> QED BY <3>1, <3>2 DEF RouteTypeOK, Told
    <2>5. CASE AbortEdit(e)
      BY <1>0, <2>0, <2>1, <2>5 DEF RouteTypeOK, AbortEdit, EndEdit
    <2>6. CASE SaveContents(e)
      <3>1. CanWrite(e) /\ ToldFromRead(e)
        BY <2>6 DEF SaveContents
      <3>2. told' \in [Credentials -> AuditRow] /\ crossed' \subseteq Credentials
        BY <2>4, <3>1 DEF ToldFromRead, RouteTypeOK
      <3> QED BY <1>0, <2>0, <2>1, <2>6, <3>2 DEF RouteTypeOK, SaveContents, EndEdit
    <2>7. ASSUME NEW scope \in Scopes, SaveScope(e, scope)
          PROVE  RouteTypeOK'
      <3>1. CanWrite(e)
        BY <2>7 DEF SaveScope
      <3>2. told' \in [Credentials -> AuditRow] /\ crossed' \subseteq Credentials
        BY <2>4, <2>7, <3>1 DEF SaveScope, RouteTypeOK
      <3>3. project' \in [Credentials -> Scopes]
        BY <2>7 DEF SaveScope, RouteTypeOK
      <3>4. ASSUME NEW x \in Edits
            PROVE  edit'[x] \in Editing
        <4>1. edit'[x] \in {Done, edit[x]} \/
              (edit[x].op = "edit" /\ edit[x].step = "found"
               /\ edit'[x] = [edit[x] EXCEPT !.stale = TRUE])
          BY <2>7 DEF SaveScope
        <4> QED BY <2>1, <4>1, EditParts DEF RouteTypeOK
      <3>5. edit' \in [Edits -> Editing]
        BY <2>7, <3>4 DEF SaveScope
      <3> QED BY <1>0, <2>0, <3>2, <3>3, <3>5 DEF RouteTypeOK
    <2> QED BY <1>4, <2>2, <2>3, <2>5, <2>6, <2>7
            DEF EditStep, PostEditOfCustomer, PostEditOfAdmin
  <1>5. ASSUME NEW s \in Sessions, NEW code \in {"right", "wrong"}, PostStepUp(s, code)
        PROVE  RouteTypeOK'
    BY <1>0, <1>5 DEF RouteTypeOK, PostStepUp, edits
  <1>6. ASSUME NEW s \in AdminSessions, StepLapses(s)
        PROVE  RouteTypeOK'
    BY <1>0, <1>6 DEF RouteTypeOK, StepLapses, edits
  <1>7. CASE UNCHANGED <<page, stepped, edits>> \/ UNCHANGED routeVars
    BY <1>1, <1>7 DEF routeVars
  <1> QED BY <1>1, <1>2, <1>3, <1>4, <1>5, <1>6, <1>7 DEF RouteNext

\* The newest row names the project of every credential that is not deleted, of one
\* to come included, unless edits have crossed.
TrailIsRight ==
    \A c \in Credentials :
        cred[c] # "deleted" /\ c \notin crossed => told[c].project = project[c]

EditsInv == EditsAreOfCreated /\ ReadsAreFresh /\ TrailIsRight
RouteInv == VaultInv /\ RouteTypeOK /\ EditsInv

\* A credential is created once and stays deleted.
LEMMA CredentialsMoveOn ==
    ASSUME VaultInv, [Next]_vars, NEW c \in Credentials
    PROVE  /\ cred[c] # "none" => cred'[c] # "none"
           /\ cred[c] = "deleted" => cred'[c] = "deleted"
           /\ cred[c] \in {"none", "live", "deleted"}
  <1>0. TypeOK /\ CredentialsAreNew
    BY DEF VaultInv
  <1>1. CASE UNCHANGED <<ask, cred, made>>
    BY <1>0, <1>1 DEF TypeOK
  <1>2. ASSUME NEW r \in Requests, CommitAsk(r)
        PROVE  cred' = cred
    BY <1>2 DEF CommitAsk
  <1>3. ASSUME NEW r \in Requests, CommitAdd(r) \/ CommitFulfil(r)
        PROVE  /\ cred[req[r].cred] = "none"
               /\ cred'[c] = IF c = req[r].cred THEN "live" ELSE cred[c]
    BY <1>0, <1>3 DEF TypeOK, CredentialsAreNew, Creating, CommitAdd, CommitFulfil
  <1>4. ASSUME NEW r \in Requests, CommitDelete(r)
        PROVE  cred'[c] = IF c = req[r].cred THEN "deleted" ELSE cred[c]
    BY <1>0, <1>4 DEF TypeOK, CommitDelete
  <1>5. cred[c] \in {"none", "live", "deleted"}
    BY <1>0 DEF TypeOK
  <1> QED BY <1>0, <1>1, <1>2, <1>3, <1>4, <1>5, TableSteps

\* A step that edits nothing keeps the trail right.
LEMMA TrailQuiet ==
    ASSUME RouteInv, [Next]_vars, UNCHANGED edits
    PROVE  EditsInv'
  <1>0. RouteTypeOK /\ VaultInv /\ EditsAreOfCreated /\ ReadsAreFresh /\ TrailIsRight
    BY DEF RouteInv, EditsInv
  <1>1. ASSUME NEW e \in Edits, edit[e].op = "edit"
        PROVE  /\ cred'[edit[e].cred] # "none"
               /\ cred'[edit[e].cred] = "live" => cred[edit[e].cred] = "live"
    <2>1. edit[e].cred \in Credentials
      BY <1>0, <1>1, EditParts DEF RouteTypeOK
    <2> QED BY <1>0, <1>1, <2>1, CredentialsMoveOn DEF EditsAreOfCreated
  <1>2. ASSUME NEW c \in Credentials, cred'[c] # "deleted", c \notin crossed
        PROVE  told[c].project = project[c]
    BY <1>0, <1>2, CredentialsMoveOn DEF TrailIsRight
  <1>3. EditsAreOfCreated'
    BY <1>1 DEF EditsAreOfCreated, edits
  <1>4. ReadsAreFresh'
    BY <1>0, <1>1 DEF ReadsAreFresh, edits
  <1>5. TrailIsRight'
    BY <1>2 DEF TrailIsRight, edits
  <1> QED BY <1>3, <1>4, <1>5 DEF EditsInv

\* A credential is added to a project: no edit is of it yet.
LEMMA AddStep ==
    ASSUME RouteInv, [Next]_vars, NEW r \in Requests, NEW scope \in Scopes,
           CommitAddTo(r, scope)
    PROVE  EditsInv'
  <1>0. RouteTypeOK /\ VaultInv /\ EditsAreOfCreated /\ ReadsAreFresh /\ TrailIsRight
    BY DEF RouteInv, EditsInv
  <1>1. edit' = edit /\ crossed' = crossed /\ cred[req[r].cred] = "none"
    BY <1>0 DEF CommitAddTo, CommitAdd, VaultInv, CredentialsAreNew, Creating
  <1>2. \A c \in Credentials :
           \/ c = req[r].cred /\ told'[c].project = scope /\ project'[c] = scope
           \/ c # req[r].cred /\ told'[c] = told[c] /\ project'[c] = project[c]
    BY <1>0 DEF CommitAddTo, RouteTypeOK
  <1>3. ASSUME NEW e \in Edits, edit[e].op = "edit"
        PROVE  /\ edit[e].cred \in Credentials /\ edit[e].cred # req[r].cred
               /\ cred'[edit[e].cred] # "none"
               /\ cred'[edit[e].cred] = "live" => cred[edit[e].cred] = "live"
    <2>1. edit[e].cred \in Credentials /\ cred[edit[e].cred] # "none"
      BY <1>0, <1>3, EditParts DEF RouteTypeOK, EditsAreOfCreated
    <2> QED BY <1>0, <1>1, <2>1, CredentialsMoveOn
  <1>4. EditsAreOfCreated'
    BY <1>1, <1>3 DEF EditsAreOfCreated
  <1>5. ReadsAreFresh'
    BY <1>0, <1>1, <1>2, <1>3 DEF ReadsAreFresh
  <1>6. TrailIsRight'
    BY <1>0, <1>1, <1>2, CredentialsMoveOn DEF TrailIsRight
  <1> QED BY <1>4, <1>5, <1>6 DEF EditsInv

\* The beginning, the read and the failure of an edit tell nothing.
LEMMA EditReads ==
    ASSUME RouteInv, NEW e \in Edits,
           (\E c \in Credentials : BeginEdit(e, c)) \/ FindToEdit(e) \/ AbortEdit(e)
    PROVE  EditsInv'
  <1>0. RouteTypeOK /\ EditsAreOfCreated /\ ReadsAreFresh /\ TrailIsRight
    BY DEF RouteInv, EditsInv
  <1>1. UNCHANGED <<cred, project, told, crossed>>
    BY DEF BeginEdit, FindToEdit, AbortEdit, vars, tables
  <1>2. PICK o : /\ \A x \in Edits : edit'[x] = IF x = e THEN o ELSE edit[x]
                 /\ o.op = "edit" => /\ cred[o.cred] # "none"
                                     /\ o.step = "found" => o.from = project[o.cred]
    <2>1. CASE AbortEdit(e)
      BY <1>0, <2>1 DEF AbortEdit, EndEdit, RouteTypeOK, Done
    <2>2. ASSUME NEW c \in Credentials, BeginEdit(e, c)
          PROVE  \E o : /\ \A x \in Edits : edit'[x] = IF x = e THEN o ELSE edit[x]
                        /\ o.op = "edit" =>
                              /\ cred[o.cred] # "none"
                              /\ o.step = "found" => o.from = project[o.cred]
      <3>1. PICK at : edit' = [edit EXCEPT ![e] =
                         [op |-> "edit", step |-> "begun", cred |-> c, at |-> at]]
        BY <2>2 DEF BeginEdit
      <3> DEFINE o == [op |-> "edit", step |-> "begun", cred |-> c, at |-> at]
      <3>2. \A x \in Edits : edit'[x] = IF x = e THEN o ELSE edit[x]
        BY <1>0, <3>1 DEF RouteTypeOK
      <3>3. o.step # "found" /\ cred[o.cred] # "none"
        BY <2>2 DEF BeginEdit
      <3> HIDE DEF o
      <3> QED BY <3>2, <3>3
    <2>3. CASE FindToEdit(e)
      BY <1>0, <2>3 DEF FindToEdit, RouteTypeOK
    <2> QED BY <2>1, <2>2, <2>3
  <1> QED BY <1>0, <1>1, <1>2 DEF EditsInv, EditsAreOfCreated, ReadsAreFresh, TrailIsRight

\* Contents are saved: unless the credential has moved since the read, the row that
\* the edit writes names the project it is in.
LEMMA ContentsStep ==
    ASSUME RouteInv, NEW e \in Edits, SaveContents(e)
    PROVE  EditsInv'
  <1>0. RouteTypeOK /\ EditsAreOfCreated /\ ReadsAreFresh /\ TrailIsRight
    BY DEF RouteInv, EditsInv
  <1>1. UNCHANGED <<cred, project>>
    BY DEF SaveContents, vars, tables
  <1>2. \A x \in Edits : edit'[x] = IF x = e THEN Done ELSE edit[x]
    BY <1>0 DEF SaveContents, EndEdit, RouteTypeOK
  <1>3. ASSUME NEW c \in Credentials, cred[c] # "deleted", c \notin crossed'
        PROVE  told'[c].project = project[c]
    <2>1. CanWrite(e) /\ ToldFromRead(e)
      BY DEF SaveContents
    <2>2. edit[e].op = "edit" /\ edit[e].step = "found"
      BY <2>1 DEF CanWrite
    <2>3. CASE Overtaken(e)
      BY <1>0, <1>3, <2>1, <2>3 DEF ToldFromRead, Told, TrailIsRight
    <2>4. CASE ~Overtaken(e) /\ c # edit[e].cred
      <3>1. told'[c] = told[c] /\ c \notin crossed
        BY <1>0, <1>3, <2>1, <2>4 DEF ToldFromRead, Told, RouteTypeOK
      <3> QED BY <1>0, <1>3, <3>1 DEF TrailIsRight
    <2>5. CASE ~Overtaken(e) /\ c = edit[e].cred
      <3>1. ~edit[e].stale
        BY <1>3, <2>1, <2>5 DEF ToldFromRead
      <3>2. cred[c] = "live"
        <4>1. cred[c] # "none"
          BY <1>0, <2>2, <2>5 DEF EditsAreOfCreated
        <4> QED BY <1>3, <4>1 DEF RouteInv, VaultInv, TypeOK
      <3>3. edit[e].from = project[c]
        BY <1>0, <2>2, <2>5, <3>1, <3>2 DEF ReadsAreFresh
      <3>4. told'[c] = [at |-> edit[e].at, project |-> edit[e].from]
        BY <1>0, <2>1, <2>5 DEF ToldFromRead, Told, RouteTypeOK
      <3> QED BY <3>3, <3>4
    <2> QED BY <2>3, <2>4, <2>5
  <1>4. EditsAreOfCreated'
    BY <1>0, <1>1, <1>2 DEF EditsAreOfCreated, Done
  <1>5. ReadsAreFresh'
    BY <1>0, <1>1, <1>2 DEF ReadsAreFresh, Done
  <1>6. TrailIsRight'
    BY <1>1, <1>3 DEF TrailIsRight
  <1> QED BY <1>4, <1>5, <1>6 DEF EditsInv

\* The project is saved: those that have read the credential have read it too early,
\* and the row names where it now is, unless a later edit has told something else.
LEMMA ScopeStep ==
    ASSUME RouteInv, NEW e \in Edits, NEW scope \in Scopes, SaveScope(e, scope)
    PROVE  EditsInv'
  <1>0. RouteTypeOK /\ EditsAreOfCreated /\ ReadsAreFresh /\ TrailIsRight
    BY DEF RouteInv, EditsInv
  <1> DEFINE d == edit[e].cred
  <1>1. /\ cred' = cred
        /\ edit[e].op = "edit" /\ edit[e].step = "found"
        /\ Told(e, scope)
        /\ crossed' = IF Overtaken(e) THEN crossed \cup {d} ELSE crossed \ {d}
    BY DEF SaveScope, CanWrite, vars, tables
  <1>2. d \in Credentials /\ cred[d] # "none"
    BY <1>0, <1>1, EditParts DEF RouteTypeOK, EditsAreOfCreated
  <1>3. \A c \in Credentials :
           project'[c] = IF c = d /\ cred[c] = "live" THEN scope ELSE project[c]
    BY <1>0 DEF SaveScope, RouteTypeOK
  <1>4. ASSUME NEW x \in Edits, edit'[x].op = "edit"
        PROVE  /\ x # e /\ edit[x].op = "edit"
               /\ edit'[x].cred = edit[x].cred /\ edit'[x].step = edit[x].step
               /\ edit[x].step = "found" =>
                     /\ edit'[x].from = edit[x].from
                     /\ edit'[x].stale = IF edit[x].cred = d THEN TRUE ELSE edit[x].stale
    <2>1. edit'[x] = CASE x = e -> Done
                       [] x # e /\ edit[x].op = "edit" /\ edit[x].step = "found"
                          /\ edit[x].cred = d -> [edit[x] EXCEPT !.stale = TRUE]
                       [] OTHER -> edit[x]
      BY DEF SaveScope
    <2>2. x # e
      BY <1>4, <2>1 DEF Done
    <2>3. CASE edit[x].op = "edit" /\ edit[x].step = "found" /\ edit[x].cred = d
      <3>1. edit'[x] = [edit[x] EXCEPT !.stale = TRUE]
        BY <2>1, <2>2, <2>3
      <3>2. edit[x] \in [op : {"edit"}, step : {"found"}, cred : Credentials, at : Nat,
                         from : Scopes, stale : BOOLEAN]
        BY <1>0, <2>3 DEF RouteTypeOK, Editing
      <3> QED BY <2>2, <2>3, <3>1, <3>2
    <2>4. CASE ~(edit[x].op = "edit" /\ edit[x].step = "found" /\ edit[x].cred = d)
      <3>1. edit'[x] = edit[x]
        BY <2>1, <2>2, <2>4
      <3> QED BY <1>4, <2>2, <2>4, <3>1
    <2> QED BY <2>3, <2>4
  <1> HIDE DEF d
  <1>5. EditsAreOfCreated'
    BY <1>0, <1>1, <1>4 DEF EditsAreOfCreated
  <1>6. ReadsAreFresh'
    <2> SUFFICES ASSUME NEW x \in Edits, edit'[x].op = "edit", edit'[x].step = "found",
                        ~edit'[x].stale, cred'[edit'[x].cred] = "live"
                 PROVE  edit'[x].from = project'[edit'[x].cred]
      BY DEF ReadsAreFresh
    <2>1. /\ edit[x].op = "edit" /\ edit[x].step = "found" /\ edit[x].cred # d
          /\ ~edit[x].stale /\ edit'[x].from = edit[x].from /\ edit'[x].cred = edit[x].cred
      BY <1>4
    <2>2. edit[x].cred \in Credentials
      BY <1>0, <2>1, EditParts DEF RouteTypeOK
    <2> QED BY <1>0, <1>1, <1>3, <2>1, <2>2 DEF ReadsAreFresh
  <1>7. TrailIsRight'
    <2> SUFFICES ASSUME NEW c \in Credentials, cred[c] # "deleted", c \notin crossed'
                 PROVE  told'[c].project = project'[c]
      BY <1>1 DEF TrailIsRight
    <2>1. CASE c # d
      <3>1. told'[c] = told[c] /\ c \notin crossed
        BY <1>0, <1>1, <2>1 DEF Told, RouteTypeOK, d
      <3> QED BY <1>0, <1>3, <2>1, <3>1 DEF TrailIsRight
    <2>2. CASE c = d
      <3>1. ~Overtaken(e)
        BY <1>1, <2>2
      <3>2. cred[c] = "live"
        BY <1>2, <2>2 DEF RouteInv, VaultInv, TypeOK
      <3>3. told'[c] = [at |-> edit[e].at, project |-> scope]
        BY <1>0, <1>1, <2>2, <3>1 DEF Told, RouteTypeOK, d
      <3> QED BY <1>3, <2>2, <3>2, <3>3
    <2> QED BY <2>1, <2>2
  <1> QED BY <1>5, <1>6, <1>7 DEF EditsInv

LEMMA TrailStep == RouteInv /\ [RouteNext]_routeVars => EditsInv'
  <1> SUFFICES ASSUME RouteInv, [RouteNext]_routeVars PROVE EditsInv'
    OBVIOUS
  <1>0. [Next]_vars
    BY RouteStepIsServiceStep DEF RouteInv, RouteTypeOK, PagesType
  <1>1. CASE UNCHANGED edits
    BY <1>0, <1>1, TrailQuiet
  <1>2. ASSUME NEW r \in Requests,
               (\E s \in Sessions : PageOfRequest(r, s)) \/ Call(r)
        PROVE  UNCHANGED edits
    BY <1>2, PageIsVisit DEF Visit, Call
  <1>3. ASSUME NEW r \in Requests, NEW scope \in Scopes, CommitAddTo(r, scope)
        PROVE  EditsInv'
    BY <1>0, <1>3, AddStep
  <1>4. ASSUME NEW e \in Edits, EditStep(e)
        PROVE  EditsInv'
    <2>1. CASE \/ \E s \in Sessions, c \in Credentials :
                     PostEditOfCustomer(e, s, c) \/ PostEditOfAdmin(e, s, c)
               \/ FindToEdit(e) \/ AbortEdit(e)
      BY <2>1, EditReads DEF PostEditOfCustomer, PostEditOfAdmin
    <2> QED BY <1>4, <2>1, ContentsStep, ScopeStep DEF EditStep
  <1>5. ASSUME NEW s \in Sessions, NEW code \in {"right", "wrong"}, PostStepUp(s, code)
        PROVE  UNCHANGED edits
    BY <1>5 DEF PostStepUp
  <1>6. ASSUME NEW s \in AdminSessions, StepLapses(s)
        PROVE  UNCHANGED edits
    BY <1>6 DEF StepLapses
  <1>7. CASE UNCHANGED <<page, stepped, edits>> \/ UNCHANGED routeVars
    BY <1>1, <1>7 DEF routeVars
  <1> QED BY <1>1, <1>2, <1>3, <1>4, <1>5, <1>6, <1>7 DEF RouteNext

THEOREM RouteInvariant == RouteSpec => []RouteInv
  <1>1. RouteInit => RouteInv
    <2> SUFFICES ASSUME RouteInit PROVE RouteInv
      OBVIOUS
    <2>1. VaultInv
      BY InitInv DEF RouteInit
    <2>2. EditsInv
      BY DEF RouteInit, EditsInv, EditsAreOfCreated, ReadsAreFresh, TrailIsRight, Idle
    <2> QED BY <2>1, <2>2, RouteInitType DEF RouteInv
  <1>2. RouteInv /\ [RouteNext]_routeVars => RouteInv'
    <2> SUFFICES ASSUME RouteInv, [RouteNext]_routeVars PROVE RouteInv'
      OBVIOUS
    <2>1. [Next]_vars
      BY RouteStepIsServiceStep DEF RouteInv, RouteTypeOK, PagesType
    <2>2. VaultInv'
      BY <2>1, StepInv DEF RouteInv
    <2>3. RouteTypeOK'
      BY RouteStepType DEF RouteInv, VaultInv
    <2> QED BY <2>2, <2>3, TrailStep DEF RouteInv
  <1> QED BY <1>1, <1>2, PTL DEF RouteSpec

\* Pages, edits, additions and sessions keep their types.
THEOREM RouteTypeCorrect == RouteSpec => []RouteTypeOK
  <1>1. RouteInv => RouteTypeOK
    BY DEF RouteInv
  <1> QED BY <1>1, RouteInvariant, PTL

\* Of every credential that exists the newest row of the feed names the project it is
\* in, unless that row is of one of two edits that crossed.
THEOREM TrailTells == RouteSpec => []TrailTellsProject
  <1>1. RouteInv => TrailTellsProject
    BY DEF RouteInv, EditsInv, TrailIsRight, TrailTellsProject
  <1> QED BY <1>1, RouteInvariant, PTL
=============================================================================
