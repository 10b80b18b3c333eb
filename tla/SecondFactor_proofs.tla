-------------------------- MODULE SecondFactor_proofs --------------------------
(***************************************************************************)
(* Theorems about an account's second factor, for every set of sessions,   *)
(* of codes and of requests in flight and whatever the bounds.             *)
(***************************************************************************)
EXTENDS SecondFactor, FiniteSetTheorems, TLAPS

Codes == CodeIds \cup {NoCode}

\* What a request has read, by where it is.
LEMMA RequestParts ==
    ASSUME NEW o \in Requested
    PROVE  /\ o.at = "login" => o.password \in 1 .. MaxPasswords
           /\ o.at \in {"code", "passed", "changing"} => o.session \in Sessions
           /\ o.at = "code" => [o EXCEPT !.at = "passed"] \in Requested
           /\ o.at = "code" => [o EXCEPT !.at = "passed"].at = "passed"
           /\ o.at = "consuming" => o.session \in Sessions \cup {"none"}
           /\ o.at \in {"consuming", "resetting", "regenerating"} =>
                 /\ o.code \in Codes /\ o.set \in 1 .. MaxSets /\ o.left \subseteq CodeIds
                 /\ o.crossed \in BOOLEAN
           /\ o.at = "idle" => o = Idle
  <1>1. CASE o.at = "code"
    <2>1. o \in [at : {"code", "passed", "changing"}, session : Sessions]
      BY <1>1 DEF Requested, Idle
    <2> QED BY <1>1, <2>1 DEF Requested
  <1>2. CASE o.at # "code"
    BY <1>2 DEF Requested, Idle, Codes, NoCode
  <1> QED BY <1>1, <1>2

LEMMA RequestKinds ==
    /\ Idle \in Requested
    /\ \A n \in 1 .. MaxPasswords : [at |-> "login", password |-> n] \in Requested
    /\ \A s \in Sessions, at \in {"code", "passed", "changing"} :
          [at |-> at, session |-> s] \in Requested
  BY DEF Requested, Idle

\* What is read is what is stored.
LEMMA ReadingParts ==
    ASSUME TypeOK, NEW at \in {"consuming", "resetting", "regenerating"},
           NEW s \in Sessions \cup {"none"}, NEW code \in Codes
    PROVE  LET o == Reading(at, s, code) IN
              /\ o \in Requested
              /\ o.at = at /\ o.session = s /\ o.code = code /\ ~o.crossed
              /\ o.set = codes.set /\ o.left = codes.left
  BY DEF TypeOK, Reading, Requested, Codes, NoCode

\* A request that is crossed has read what it had read.
LEMMA CrossedParts ==
    ASSUME NEW o \in Requested, o.at = "consuming"
    PROVE  LET x == [o EXCEPT !.crossed = TRUE] IN
              /\ x \in Requested
              /\ x.at = o.at /\ x.session = o.session /\ x.code = o.code
              /\ x.set = o.set /\ x.left = o.left /\ x.crossed
  <1>1. o \in [at : {"consuming", "resetting", "regenerating"},
               session : Sessions \cup {"none"}, code : CodeIds \cup {NoCode},
               set : 1 .. MaxSets, left : SUBSET CodeIds, crossed : BOOLEAN]
    BY DEF Requested, Idle
  <1> QED BY <1>1 DEF Requested

\* One request moves on, and the others are as they were.
LEMMA OneMoves ==
    ASSUME TypeOK, NEW r \in Requests, NEW o \in Requested, req' = [req EXCEPT ![r] = o]
    PROVE  /\ req' \in [Requests -> Requested]
           /\ req'[r] = o
           /\ \A q \in Requests \ {r} : req'[q] = req[q]
  BY DEF TypeOK

\* Codes are written: who had read them, and did not lock them, is crossed.
LEMMA Storing ==
    ASSUME TypeOK, NEW r \in Requests, HasRead(r), NEW set \in 1 .. MaxSets,
           NEW left \in SUBSET CodeIds, NEW next \in Requested, Store(r, set, left, next)
    PROVE  /\ codes' = [set |-> set, left |-> left]
           /\ codes' \in [set : 1 .. MaxSets, left : SUBSET CodeIds]
           /\ clobbered' \in BOOLEAN /\ (clobbered' <=> clobbered \/ req[r].crossed)
           /\ spent' \subseteq (1 .. MaxSets) \X CodeIds /\ again' \subseteq spent'
           /\ req' \in [Requests -> Requested] /\ req'[r] = next
           /\ \A q \in Requests \ {r} :
                 IF req[q].at = "consuming"
                 THEN /\ req'[q].at = req[q].at /\ req'[q].session = req[q].session
                      /\ req'[q].code = req[q].code /\ req'[q].set = req[q].set
                      /\ req'[q].left = req[q].left /\ req'[q].crossed
                 ELSE req'[q] = req[q]
  <1>1. /\ req[r].code \in Codes /\ req[r].set \in 1 .. MaxSets /\ req[r].crossed \in BOOLEAN
    BY RequestParts DEF TypeOK, HasRead
  <1>2. codes' = [set |-> set, left |-> left]
    BY DEF Store
  <1>3. clobbered' \in BOOLEAN /\ (clobbered' <=> clobbered \/ req[r].crossed)
    BY <1>1 DEF Store, TypeOK
  <1>4. spent' \subseteq (1 .. MaxSets) \X CodeIds /\ again' \subseteq spent'
    <2>1. CASE req[r].code = NoCode
      BY <2>1 DEF Store, TypeOK
    <2>2. CASE req[r].code # NoCode
      <3> DEFINE code == <<req[r].set, req[r].code>>
      <3>1. code \in (1 .. MaxSets) \X CodeIds
        BY <1>1, <2>2 DEF Codes
      <3>2. spent' = spent \cup {code} /\ again' \subseteq again \cup {code}
        BY <2>2 DEF Store
      <3> QED BY <3>1, <3>2 DEF TypeOK
    <2> QED BY <2>1, <2>2
  <1>5. ASSUME NEW q \in Requests
        PROVE  /\ req'[q] \in Requested
               /\ q = r => req'[q] = next
               /\ q # r => IF req[q].at = "consuming"
                           THEN /\ req'[q].at = req[q].at /\ req'[q].session = req[q].session
                                /\ req'[q].code = req[q].code /\ req'[q].set = req[q].set
                                /\ req'[q].left = req[q].left /\ req'[q].crossed
                           ELSE req'[q] = req[q]
    <2>1. req[q] \in Requested
      BY DEF TypeOK
    <2>2. CASE q = r
      BY <2>2 DEF Store
    <2>3. CASE q # r /\ req[q].at = "consuming"
      <3>1. req'[q] = [req[q] EXCEPT !.crossed = TRUE]
        BY <2>3 DEF Store
      <3> QED BY <2>1, <2>3, <3>1, CrossedParts
    <2>4. CASE q # r /\ req[q].at # "consuming"
      BY <2>1, <2>4 DEF Store
    <2> QED BY <2>2, <2>3, <2>4
  <1>6. req' \in [Requests -> Requested]
    BY <1>5 DEF Store
  <1> QED BY <1>2, <1>3, <1>4, <1>5, <1>6
-----------------------------------------------------------------------------
\* r moves on to o and nothing else happens: a try is past the check of the lockout,
\* and what was read is what is stored, by the only one who holds the row if it is held.
Moves(r, o) ==
    /\ o \in Requested
    /\ req' = [req EXCEPT ![r] = o]
    /\ UNCHANGED <<data, history>>
    /\ o.at = "code" => ~bucket[o.session].locked
    /\ o.at \in {"consuming", "resetting", "regenerating"} =>
          /\ o.set = codes.set /\ o.left = codes.left /\ ~o.crossed
          /\ o.code = NoCode \/ o.code \in o.left
          /\ o.at = "consuming" => o.code # NoCode /\ o.session \in Sessions
          /\ kind = "customer" \/ o.at # "consuming" => ~RowLocked

\* The actions in which a request only reads, is checked or is given up.
SmallStep ==
    \/ \E r \in Requests :
          \/ VerifyLogin(r) \/ RightCode(r) \/ Abort(r)
          \/ \E s \in Sessions : PostCode(r, s) \/ CheckPassword(r, s)
          \/ \E code \in CodeIds : ReadAdminCodes(r, code) \/ ReadCodes(r, code)
          \/ \E code \in Codes : LockReset(r, code)
          \/ \E s \in Sessions, code \in Codes : LockToRegenerate(r, s, code)

\* The actions that write.
WritingStep ==
    \/ \E r \in Requests :
          \/ \E s \in Sessions : CreateSession(r, s) \/ CommitReset(r, s)
          \/ WrongCode(r) \/ ConsumeBackupCode(r) \/ StepUp(r)
          \/ CommitPassword(r) \/ CommitCodes(r)
    \/ \E s \in Sessions : LockedOut(s) \/ WindowEnds(s) \/ LockoutEnds(s)
    \/ \E s, t \in Sessions : RevokeSession(s, t)
    \/ \E s \in Sessions : \E kept \in SUBSET {s} : RevokeAllSessions(s, kept)

LEMMA Steps == Next => SmallStep \/ WritingStep
  <1>1. ASSUME PasswordSteps PROVE SmallStep \/ WritingStep
    BY <1>1 DEF PasswordSteps, SmallStep, WritingStep
  <1>2. ASSUME ResetSteps PROVE SmallStep \/ WritingStep
    BY <1>2 DEF ResetSteps, SmallStep, WritingStep, Codes
  <1>3. ASSUME RegenSteps PROVE SmallStep \/ WritingStep
    BY <1>3 DEF RegenSteps, SmallStep, WritingStep, Codes
  <1>4. ASSUME RevokeSteps PROVE SmallStep \/ WritingStep
    BY <1>4 DEF RevokeSteps, SmallStep, WritingStep
  <1>5. ASSUME NEW r \in Requests,
               \/ VerifyLogin(r)
               \/ \E s \in Sessions : CreateSession(r, s) \/ PostCode(r, s)
               \/ WrongCode(r)
               \/ RightCode(r)
               \/ \E code \in CodeIds : ReadAdminCodes(r, code) \/ ReadCodes(r, code)
               \/ ConsumeBackupCode(r)
               \/ StepUp(r)
               \/ Abort(r)
        PROVE  SmallStep \/ WritingStep
    BY <1>5 DEF SmallStep, WritingStep
  <1>6. ASSUME NEW s \in Sessions, LockedOut(s) \/ WindowEnds(s) \/ LockoutEnds(s)
        PROVE  SmallStep \/ WritingStep
    BY <1>6 DEF WritingStep
  <1> QED
    BY <1>1, <1>2, <1>3, <1>4, <1>5, <1>6
    DEF Next, ChangePassword, ChangeAdminPassword, ResetOfUser, ResetOfAdmin,
        RegenBackupCodes, RegenAdminBackupCodesSelf, RevokeOfUser, RevokeOfAdmin

LEMMA SmallMoves ==
    ASSUME TypeOK, SmallStep
    PROVE  \E r \in Requests : \E o \in Requested : Moves(r, o)
  <1>1. ASSUME NEW r \in Requests, VerifyLogin(r)
        PROVE  \E o \in Requested : Moves(r, o)
    <2> DEFINE o == [at |-> "login", password |-> password]
    <2>1. o \in Requested
      BY RequestKinds DEF TypeOK
    <2>2. Moves(r, o)
      BY <1>1, <2>1 DEF VerifyLogin, Begin, Moves
    <2> QED BY <2>1, <2>2
  <1>2. ASSUME NEW r \in Requests, RightCode(r)
        PROVE  \E o \in Requested : Moves(r, o)
    <2> DEFINE o == [req[r] EXCEPT !.at = "passed"]
    <2>1. o \in Requested /\ o.at = "passed"
      BY <1>2, RequestParts DEF TypeOK, RightCode
    <2>2. req' = [req EXCEPT ![r] = o]
      BY <1>2 DEF RightCode
    <2> HIDE DEF o
    <2>3. Moves(r, o)
      BY <1>2, <2>1, <2>2 DEF RightCode, Moves
    <2> QED BY <2>1, <2>3
  <1>3. ASSUME NEW r \in Requests, Abort(r)
        PROVE  \E o \in Requested : Moves(r, o)
    <2>1. Moves(r, Idle)
      BY <1>3, RequestKinds DEF Abort, End, Moves, Idle
    <2> QED BY <2>1, RequestKinds
  <1>4. ASSUME NEW r \in Requests, NEW s \in Sessions, PostCode(r, s) \/ CheckPassword(r, s)
        PROVE  \E o \in Requested : Moves(r, o)
    <2>1. CASE PostCode(r, s)
      <3>1. Moves(r, [at |-> "code", session |-> s])
        BY <2>1, RequestKinds DEF PostCode, Begin, Moves
      <3> QED BY <3>1, RequestKinds
    <2>2. CASE CheckPassword(r, s)
      <3>1. Moves(r, [at |-> "changing", session |-> s])
        BY <2>2, RequestKinds DEF CheckPassword, Begin, Moves
      <3> QED BY <3>1, RequestKinds
    <2> QED BY <1>4, <2>1, <2>2
  <1>5. ASSUME NEW r \in Requests, NEW code \in CodeIds,
               ReadAdminCodes(r, code) \/ ReadCodes(r, code)
        PROVE  \E o \in Requested : Moves(r, o)
    <2>1. req[r].at = "code" /\ req[r].session \in Sessions
      BY <1>5, RequestParts DEF ReadAdminCodes, ReadCodes, TypeOK
    <2>2. code \in Codes /\ code # NoCode
      BY SecondFactorAssumption DEF SecondFactorAssumption, Codes, NoCode
    <2>3. PICK s \in Sessions : s = req[r].session
      BY <2>1
    <2> DEFINE o == Reading("consuming", s, code)
    <2>4. /\ o \in Requested
          /\ o.at = "consuming" /\ o.code = code /\ ~o.crossed /\ o.session \in Sessions
          /\ o.set = codes.set /\ o.left = codes.left
      BY <2>2, ReadingParts
    <2>5. req' = [req EXCEPT ![r] = o] /\ Matches(code) /\ UNCHANGED <<data, history>>
      BY <1>5, <2>3 DEF ReadAdminCodes, ReadCodes
    <2>6. kind = "customer" => ~RowLocked
      BY <1>5 DEF ReadAdminCodes, ReadCodes
    <2> HIDE DEF o
    <2>7. Moves(r, o)
      BY <2>2, <2>4, <2>5, <2>6 DEF Moves, Matches
    <2> QED BY <2>4, <2>7
  <1>6. ASSUME NEW r \in Requests, NEW code \in Codes, NEW s \in Sessions \cup {"none"},
               NEW at \in {"resetting", "regenerating"},
               ~RowLocked, Matches(code), Begin(r, Reading(at, s, code)),
               UNCHANGED <<data, history>>
        PROVE  \E o \in Requested : Moves(r, o)
    <2> DEFINE o == Reading(at, s, code)
    <2>1. /\ o \in Requested
          /\ o.at = at /\ o.code = code /\ ~o.crossed
          /\ o.set = codes.set /\ o.left = codes.left
      BY ReadingParts
    <2>2. req' = [req EXCEPT ![r] = o]
      BY <1>6 DEF Begin
    <2> HIDE DEF o
    <2>3. Moves(r, o)
      BY <1>6, <2>1, <2>2 DEF Moves, Matches
    <2> QED BY <2>1, <2>3
  <1>7. ASSUME NEW r \in Requests, NEW code \in Codes, LockReset(r, code)
        PROVE  \E o \in Requested : Moves(r, o)
    <2>1. /\ ~RowLocked /\ Matches(code) /\ Begin(r, Reading("resetting", "none", code))
          /\ UNCHANGED <<data, history>>
      BY <1>7 DEF LockReset
    <2> QED BY <2>1, <1>6
  <1>8. ASSUME NEW r \in Requests, NEW code \in Codes, NEW s \in Sessions,
               LockToRegenerate(r, s, code)
        PROVE  \E o \in Requested : Moves(r, o)
    <2>1. /\ ~RowLocked /\ Matches(code) /\ Begin(r, Reading("regenerating", s, code))
          /\ UNCHANGED <<data, history>>
      BY <1>8 DEF LockToRegenerate
    <2> QED BY <2>1, <1>6
  <1> QED
    BY <1>1, <1>2, <1>3, <1>4, <1>5, <1>7, <1>8 DEF SmallStep
-----------------------------------------------------------------------------
CodesInv == RowHeldAlone /\ ReadsAreCurrent /\ CodesWereShown /\ CodesAreGood

\* Nobody writes the codes, and no request but one moves: what that one has now read is
\* what is stored, and the row was free if it holds it.
LEMMA CodesUntouched ==
    ASSUME TypeOK, CodesInv, NEW r \in Requests, NEW o \in Requested,
           req' = [req EXCEPT ![r] = o],
           UNCHANGED <<kind, codes, shown, spent, again, clobbered>>,
           o.at \in {"consuming", "resetting", "regenerating"} =>
              /\ o.set = codes.set /\ o.left = codes.left /\ ~o.crossed
              /\ o.code = NoCode \/ o.code \in o.left
              /\ o.at = "consuming" => o.code # NoCode /\ o.session \in Sessions
              /\ kind = "customer" \/ o.at # "consuming" => ~RowLocked
    PROVE  CodesInv'
  <1>1. /\ req'[r] = o
        /\ \A q \in Requests \ {r} : req'[q] = req[q]
    BY OneMoves
  <1>2. CodesWereShown' /\ CodesAreGood'
    BY DEF CodesInv, CodesWereShown, CodesAreGood, CodesWorkOnce, ShownCodesWork
  <1>3. RowHeldAlone'
    BY <1>1 DEF CodesInv, RowHeldAlone, LocksRow, RowLocked
  <1>4. ASSUME NEW q \in Requests, HasRead(q)'
        PROVE  /\ req'[q].set <= shown'
               /\ req'[q].code = NoCode \/ req'[q].code \in req'[q].left
               /\ req'[q].at = "consuming" => req'[q].code # NoCode /\ req'[q].session \in Sessions
               /\ LocksRow(q)' => ~req'[q].crossed
               /\ ~req'[q].crossed => req'[q].set = codes'.set /\ req'[q].left = codes'.left
    <2>1. CASE q = r
      BY <1>1, <1>4, <2>1 DEF CodesInv, CodesWereShown, HasRead
    <2>2. CASE q # r
      BY <1>1, <1>4, <2>2 DEF CodesInv, ReadsAreCurrent, HasRead, LocksRow
    <2> QED BY <2>1, <2>2
  <1>5. ReadsAreCurrent'
    BY <1>4 DEF ReadsAreCurrent
  <1> QED BY <1>2, <1>3, <1>5 DEF CodesInv

\* The same when no request moves at all.
LEMMA CodesUntouchedByAll ==
    ASSUME CodesInv, UNCHANGED <<kind, req, codes, shown, spent, again, clobbered>>
    PROVE  CodesInv'
  BY DEF CodesInv, RowHeldAlone, ReadsAreCurrent, CodesWereShown, CodesAreGood, CodesWorkOnce,
         ShownCodesWork, HasRead, LocksRow

\* When codes are written, who else had read them holds no row, and is crossed.
LEMMA OthersAreCrossed ==
    ASSUME TypeOK, CodesInv, NEW r \in Requests, HasRead(r), kind' = kind,
           shown' \in 1 .. MaxSets, shown <= shown',
           NEW set \in 1 .. MaxSets, NEW left \in SUBSET CodeIds, NEW next \in Requested,
           next.at \in {"idle", "passed"}, Store(r, set, left, next),
           LocksRow(r) \/ ~RowLocked
    PROVE  RowHeldAlone' /\ ReadsAreCurrent'
  <1>1. /\ req'[r] = next
        /\ \A q \in Requests \ {r} :
              IF req[q].at = "consuming"
              THEN /\ req'[q].at = req[q].at /\ req'[q].session = req[q].session
                   /\ req'[q].code = req[q].code /\ req'[q].set = req[q].set
                   /\ req'[q].left = req[q].left /\ req'[q].crossed
              ELSE req'[q] = req[q]
    BY Storing
  <1>2. ASSUME NEW q \in Requests \ {r} PROVE ~LocksRow(q) /\ ~LocksRow(q)'
    <2>1. ~LocksRow(q)
      BY DEF CodesInv, RowHeldAlone, RowLocked
    <2> QED BY <1>1, <2>1 DEF LocksRow
  <1>3. ~LocksRow(r)' /\ ~HasRead(r)'
    BY <1>1 DEF LocksRow, HasRead
  <1>4. RowHeldAlone'
    BY <1>2, <1>3 DEF RowHeldAlone
  <1>5. ASSUME NEW q \in Requests, HasRead(q)'
        PROVE  /\ req'[q].set <= shown'
               /\ req'[q].code = NoCode \/ req'[q].code \in req'[q].left
               /\ req'[q].at = "consuming" => req'[q].code # NoCode /\ req'[q].session \in Sessions
               /\ ~LocksRow(q)'
               /\ req'[q].crossed
    <2>1. q # r
      BY <1>3, <1>5
    <2>2. ~LocksRow(q) /\ ~LocksRow(q)'
      BY <1>2, <2>1
    <2>3. req[q].at = "consuming" /\ HasRead(q)
      BY <1>1, <1>5, <2>1, <2>2 DEF LocksRow, HasRead
    <2>4. req[q].set \in 1 .. MaxSets
      BY <2>3, RequestParts DEF TypeOK
    <2>5. req[q].set <= shown
      BY <2>3 DEF CodesInv, ReadsAreCurrent
    <2>6. req[q].set <= shown'
      BY <2>4, <2>5 DEF TypeOK
    <2> QED BY <1>1, <2>1, <2>2, <2>3, <2>6 DEF CodesInv, ReadsAreCurrent
  <1> QED BY <1>4, <1>5 DEF ReadsAreCurrent

\* A code that was read with the codes stored, and not crossed, was not spent; and only
\* an admin's login is crossed.
LEMMA FreshCode ==
    ASSUME TypeOK, CodesInv, NEW r \in Requests, HasRead(r)
    PROVE  /\ req[r].crossed => kind = "admin"
           /\ ~clobbered /\ ~req[r].crossed /\ req[r].code # NoCode =>
                 /\ <<req[r].set, req[r].code>> \notin spent
                 /\ req[r].set = shown
                 /\ req[r].left = {c \in CodeIds : <<shown, c>> \notin spent}
  <1>1. req[r].crossed => kind = "admin"
    BY DEF CodesInv, ReadsAreCurrent, LocksRow, HasRead, TypeOK
  <1>2. ASSUME ~clobbered, ~req[r].crossed, req[r].code # NoCode
        PROVE  /\ <<req[r].set, req[r].code>> \notin spent
               /\ req[r].set = shown
               /\ req[r].left = {c \in CodeIds : <<shown, c>> \notin spent}
    <2>1. req[r].set = codes.set /\ req[r].left = codes.left /\ req[r].code \in req[r].left
      BY <1>2 DEF CodesInv, ReadsAreCurrent
    <2>2. codes = [set |-> shown, left |-> {c \in CodeIds : <<shown, c>> \notin spent}]
      BY <1>2 DEF CodesInv, CodesAreGood, ShownCodesWork
    <2>3. codes.set = shown /\ codes.left = {c \in CodeIds : <<shown, c>> \notin spent}
      BY <2>2
    <2> QED BY <2>1, <2>3
  <1> QED BY <1>1, <1>2

\* A code is taken: the list that was read is written back without it.
LEMMA CodeTaken ==
    ASSUME TypeOK, CodesInv, NEW r \in Requests, HasRead(r), req[r].code # NoCode,
           UNCHANGED <<kind, shown>>, LocksRow(r) \/ ~RowLocked,
           NEW next \in Requested, next.at \in {"idle", "passed"},
           Store(r, req[r].set, Remaining(r), next)
    PROVE  CodesInv'
  <1>1. req[r].set \in 1 .. MaxSets /\ Remaining(r) \in SUBSET CodeIds
        /\ req[r].crossed \in BOOLEAN /\ req[r].code \in CodeIds
    BY RequestParts DEF TypeOK, HasRead, Remaining, Codes
  <1>2. shown' \in 1 .. MaxSets /\ shown <= shown'
    BY DEF TypeOK
  <1>3. RowHeldAlone' /\ ReadsAreCurrent'
    BY <1>1, <1>2, OthersAreCrossed
  <1>4. req[r].set <= shown
    BY DEF CodesInv, ReadsAreCurrent
  <1> DEFINE code == <<req[r].set, req[r].code>>
  <1>5. /\ codes' = [set |-> req[r].set, left |-> Remaining(r)]
        /\ clobbered' = (clobbered \/ req[r].crossed)
        /\ spent' = spent \cup {code}
        /\ again' = IF code \in spent /\ ~req[r].crossed THEN again \cup {code} ELSE again
    BY DEF Store
  <1>6. CodesWereShown'
    <2>1. codes'.set <= shown'
      BY <1>4, <1>5
    <2>2. \A c \in spent' : c[1] <= shown'
      BY <1>4, <1>5 DEF CodesInv, CodesWereShown
    <2> QED BY <2>1, <2>2 DEF CodesWereShown
  <1>7. CASE ~clobbered /\ ~req[r].crossed
    <2>1. /\ code \notin spent /\ req[r].set = shown
          /\ req[r].left = {c \in CodeIds : <<shown, c>> \notin spent}
      BY <1>7, FreshCode
    <2>2. again' = {} /\ ~clobbered'
      BY <1>5, <1>7, <2>1 DEF CodesInv, CodesAreGood, CodesWorkOnce
    <2>3. Remaining(r) = {c \in CodeIds : <<shown', c>> \notin spent'}
      BY <1>5, <2>1 DEF Remaining
    <2>4. codes' = [set |-> shown', left |-> {c \in CodeIds : <<shown', c>> \notin spent'}]
      BY <1>5, <2>1, <2>3
    <2> QED BY <1>3, <1>6, <2>2, <2>4 DEF CodesInv, CodesAreGood, CodesWorkOnce, ShownCodesWork
  <1>8. CASE clobbered \/ req[r].crossed
    <2>1. kind' = "admin"
      BY <1>8, FreshCode DEF CodesInv, CodesAreGood, ShownCodesWork
    <2>2. clobbered'
      BY <1>5, <1>8
    <2> QED BY <1>3, <1>6, <2>1, <2>2 DEF CodesInv, CodesAreGood, CodesWorkOnce, ShownCodesWork
  <1> QED BY <1>1, <1>7, <1>8

\* A whole new set is stored and shown.
LEMMA CodesRenewed ==
    ASSUME TypeOK, CodesInv, NEW r \in Requests, CommitCodes(r)
    PROVE  CodesInv'
  <1>1. /\ req[r].at = "regenerating" /\ HasRead(r) /\ LocksRow(r)
        /\ shown' = shown + 1 /\ kind' = kind /\ shown < MaxSets
        /\ Store(r, shown', CodeIds, Idle)
    BY DEF CommitCodes, HasRead, LocksRow
  <1>2. shown' \in 1 .. MaxSets /\ shown <= shown'
    BY <1>1, SecondFactorAssumption DEF TypeOK, SecondFactorAssumption
  <1>3. Idle.at = "idle"
    BY DEF Idle
  <1>4. ~req[r].crossed
    BY <1>1 DEF CodesInv, ReadsAreCurrent
  <1>5. RowHeldAlone' /\ ReadsAreCurrent'
    <2>1. PICK n \in 1 .. MaxSets : n = shown'
      BY <1>2
    <2>2. Store(r, n, CodeIds, Idle)
      BY <1>1, <2>1
    <2>3. CodeIds \in SUBSET CodeIds
      OBVIOUS
    <2> QED BY <1>1, <1>2, <1>3, <2>2, <2>3, RequestKinds, OthersAreCrossed
  <1> DEFINE code == <<req[r].set, req[r].code>>
  <1>6. /\ codes' = [set |-> shown', left |-> CodeIds]
        /\ clobbered' = (clobbered \/ req[r].crossed)
        /\ \/ req[r].code = NoCode /\ UNCHANGED <<spent, again>>
           \/ /\ req[r].code # NoCode
              /\ spent' = spent \cup {code}
              /\ again' = IF code \in spent /\ ~req[r].crossed THEN again \cup {code} ELSE again
    BY <1>1 DEF Store
  <1>7. clobbered' = clobbered
    BY <1>4, <1>6 DEF TypeOK
  <1>8. req[r].set <= shown /\ req[r].set \in 1 .. MaxSets
    BY <1>1, RequestParts DEF CodesInv, ReadsAreCurrent, TypeOK
  <1>9. \A c \in spent' : c[1] <= shown
    BY <1>6, <1>8 DEF CodesInv, CodesWereShown
  <1>10. \A c \in spent' : c[1] <= shown'
    <2>1. spent' \subseteq (1 .. MaxSets) \X CodeIds
      BY <1>1, <1>2, Storing, RequestKinds
    <2> QED BY <1>1, <1>9, <2>1 DEF TypeOK
  <1>11. CodesWereShown'
    <2>1. codes'.set = shown'
      BY <1>6
    <2>2. shown' <= shown'
      BY <1>2
    <2> QED BY <1>10, <2>1, <2>2 DEF CodesWereShown
  <1>12. ~clobbered => again' = {}
    BY <1>1, <1>4, <1>6, FreshCode DEF CodesInv, CodesAreGood, CodesWorkOnce
  <1>13. CodeIds = {c \in CodeIds : <<shown', c>> \notin spent'}
    <2>1. ASSUME NEW c \in CodeIds, <<shown', c>> \in spent' PROVE FALSE
      <3>1. <<shown', c>>[1] <= shown
        BY <1>9, <2>1
      <3> QED BY <1>1, <3>1 DEF TypeOK
    <2> QED BY <2>1
  <1>14. CodesAreGood'
    <2>1. CASE clobbered
      BY <1>1, <1>7, <2>1 DEF CodesInv, CodesAreGood, CodesWorkOnce, ShownCodesWork
    <2>2. CASE ~clobbered
      <3>1. codes' = [set |-> shown', left |-> {c \in CodeIds : <<shown', c>> \notin spent'}]
        BY <1>6, <1>13
      <3> QED BY <1>7, <1>12, <2>2, <3>1 DEF CodesAreGood, CodesWorkOnce, ShownCodesWork
    <2> QED BY <2>1, <2>2
  <1> QED BY <1>5, <1>11, <1>14 DEF CodesInv
-----------------------------------------------------------------------------
\* Sessions may end or be stepped up: none begins, and no password is set.
LEMMA SessionsKept ==
    ASSUME OldPasswordsAreOut, password' = password, excused \subseteq excused',
           \A s \in Sessions : Live(s)' =>
              Live(s) /\ session'[s].password = session[s].password
    PROVE  OldPasswordsAreOut'
  BY DEF OldPasswordsAreOut, LiveOnes

LEMMA SessionsEnd ==
    ASSUME TypeOK, OldPasswordsAreOut, NEW gone, EndSessions(gone),
           UNCHANGED <<password, excused>>
    PROVE  /\ session' \in [Sessions -> [state : {"unused", "half", "full", "ended"},
                                         password : 0 .. MaxPasswords]]
           /\ OldPasswordsAreOut'
  <1>1. ASSUME NEW s \in Sessions
        PROVE  /\ session'[s] \in [state : {"unused", "half", "full", "ended"},
                                   password : 0 .. MaxPasswords]
               /\ session'[s].password = session[s].password
               /\ session'[s].state = (IF s \in gone THEN "ended" ELSE session[s].state)
    BY DEF EndSessions, TypeOK
  <1>2. session' \in [Sessions -> [state : {"unused", "half", "full", "ended"},
                                   password : 0 .. MaxPasswords]]
    BY <1>1 DEF EndSessions
  <1>3. OldPasswordsAreOut'
    BY <1>1, SessionsKept DEF Live
  <1> QED BY <1>2, <1>3

\* A session's count is that of the wrong codes; it stays below the limit, or grows only
\* by those already past the check.
LEMMA TriesKept ==
    ASSUME TypeOK, FullIsLocked, bucket' \in [Sessions -> [count : Nat, locked : BOOLEAN]],
           \A s \in Sessions :
              /\ wrong'[s] = bucket'[s].count
              /\ ~bucket'[s].locked => bucket'[s].count < Limit
              /\ \/ bucket'[s].count < Limit
                 \/ bucket'[s].count <= bucket[s].count /\ Trying(s)' \subseteq Trying(s)
    PROVE  FullIsLocked'
  <1> USE SecondFactorAssumption DEF SecondFactorAssumption
  <1>1. ASSUME NEW s \in Sessions
        PROVE  bucket'[s].count + Cardinality(Trying(s)') <= Limit - 1 + Cardinality(Requests)
    <2>1. /\ IsFiniteSet(Trying(s)) /\ IsFiniteSet(Trying(s)')
          /\ Cardinality(Trying(s)') <= Cardinality(Requests)
      BY FS_Subset DEF Trying
    <2>2. /\ Cardinality(Trying(s)') \in Nat /\ Cardinality(Trying(s)) \in Nat
          /\ Cardinality(Requests) \in Nat
      BY <2>1, FS_CardinalityType
    <2>3. bucket'[s].count \in Nat /\ bucket[s].count \in Nat
      BY DEF TypeOK
    <2>4. CASE bucket'[s].count < Limit
      BY <2>1, <2>2, <2>3, <2>4
    <2>5. CASE bucket'[s].count <= bucket[s].count /\ Trying(s)' \subseteq Trying(s)
      <3>1. Cardinality(Trying(s)') <= Cardinality(Trying(s))
        BY <2>1, <2>5, FS_Subset
      <3>2. bucket[s].count + Cardinality(Trying(s)) <= Limit - 1 + Cardinality(Requests)
        BY DEF FullIsLocked
      <3> QED BY <2>2, <2>3, <2>5, <3>1, <3>2
    <2> QED BY <2>4, <2>5
  <1> QED BY <1>1 DEF FullIsLocked

\* Nothing is counted, and no try is past the check of a lockout that is set.
LEMMA TriesUntouched ==
    ASSUME TypeOK, FullIsLocked, UNCHANGED <<bucket, wrong>>,
           \A s \in Sessions : bucket[s].locked => Trying(s)' \subseteq Trying(s)
    PROVE  FullIsLocked'
  <1>1. bucket' \in [Sessions -> [count : Nat, locked : BOOLEAN]]
    BY DEF TypeOK
  <1>2. ASSUME NEW s \in Sessions
        PROVE  /\ wrong'[s] = bucket'[s].count
               /\ ~bucket'[s].locked => bucket'[s].count < Limit
               /\ \/ bucket'[s].count < Limit
                  \/ bucket'[s].count <= bucket[s].count /\ Trying(s)' \subseteq Trying(s)
    <2>1. bucket[s].count \in Nat
      BY DEF TypeOK
    <2> QED BY <2>1 DEF FullIsLocked
  <1> QED BY <1>1, <1>2, TriesKept

\* A wrong code is counted, and is no longer a try.
LEMMA WrongIsCounted ==
    ASSUME TypeOK, FullIsLocked, NEW r \in Requests, WrongCode(r)
    PROVE  FullIsLocked' /\ bucket' \in [Sessions -> [count : Nat, locked : BOOLEAN]]
           /\ wrong' \in [Sessions -> Nat]
  <1> USE SecondFactorAssumption DEF SecondFactorAssumption
  <1>1. PICK u \in Sessions : u = req[r].session
    BY RequestParts DEF TypeOK, WrongCode
  <1>2. /\ req[r].at = "code" /\ RecordFail(u) /\ wrong' = [wrong EXCEPT ![u] = @ + 1]
        /\ req' = [req EXCEPT ![r] = Idle]
    BY <1>1 DEF WrongCode, End
  <1>3. /\ req'[r] = Idle
        /\ \A q \in Requests \ {r} : req'[q] = req[q]
    BY <1>2, OneMoves, RequestKinds
  <1>4. /\ bucket'[u] = [count |-> bucket[u].count + 1,
                         locked |-> \/ bucket[u].locked
                                    \/ bucket[u].count > 0 /\ bucket[u].count + 1 >= Limit]
        /\ \A s \in Sessions \ {u} : bucket'[s] = bucket[s] /\ wrong'[s] = wrong[s]
        /\ wrong'[u] = wrong[u] + 1
    BY <1>2 DEF RecordFail, TypeOK
  <1>5. bucket[u].count \in Nat /\ bucket[u].locked \in BOOLEAN /\ wrong[u] \in Nat
    BY DEF TypeOK
  <1>6. bucket' \in [Sessions -> [count : Nat, locked : BOOLEAN]] /\ wrong' \in [Sessions -> Nat]
    <2>1. bucket'[u] \in [count : Nat, locked : BOOLEAN]
      BY <1>4, <1>5
    <2> QED BY <1>2, <1>4, <1>5, <2>1 DEF RecordFail, TypeOK
  <1>7. ASSUME NEW s \in Sessions PROVE Trying(s)' \subseteq Trying(s)
    BY <1>3 DEF Trying, Idle
  <1>8. ASSUME NEW s \in Sessions
        PROVE  bucket'[s].count + Cardinality(Trying(s)') <= Limit - 1 + Cardinality(Requests)
    <2>1. bucket[s].count + Cardinality(Trying(s)) <= Limit - 1 + Cardinality(Requests)
      BY DEF FullIsLocked
    <2>2. /\ IsFiniteSet(Trying(s))
          /\ Cardinality(Trying(s)') <= Cardinality(Trying(s))
      <3>1. IsFiniteSet(Trying(s))
        BY FS_Subset DEF Trying
      <3> QED BY <1>7, <3>1, FS_Subset
    <2>3. IsFiniteSet(Trying(s)')
      BY <1>7, <2>2, FS_Subset
    <2>4. /\ Cardinality(Trying(s)') \in Nat /\ Cardinality(Trying(s)) \in Nat
          /\ Cardinality(Requests) \in Nat
      BY <2>2, <2>3, FS_CardinalityType
    <2>5. CASE s = u
      <3>1. r \in Trying(s) /\ r \notin Trying(s)'
        BY <1>1, <1>2, <1>3, <2>5 DEF Trying, Idle
      <3>2. Trying(s)' \subseteq Trying(s) \ {r}
        BY <1>7, <3>1
      <3>3. /\ IsFiniteSet(Trying(s) \ {r})
            /\ Cardinality(Trying(s) \ {r}) = Cardinality(Trying(s)) - 1
        BY <2>2, <3>1, FS_RemoveElement
      <3>4. Cardinality(Trying(s)') <= Cardinality(Trying(s)) - 1
        BY <3>2, <3>3, FS_Subset
      <3>5. bucket'[s].count = bucket[s].count + 1
        BY <1>4, <2>5
      <3> QED BY <1>5, <2>1, <2>4, <2>5, <3>4, <3>5
    <2>6. CASE s # u
      <3>1. bucket'[s].count = bucket[s].count /\ bucket[s].count \in Nat
        BY <1>4, <2>6 DEF TypeOK
      <3> QED BY <2>1, <2>2, <2>4, <3>1
    <2> QED BY <2>5, <2>6
  <1>9. ASSUME NEW s \in Sessions
        PROVE  wrong'[s] = bucket'[s].count /\ (~bucket'[s].locked => bucket'[s].count < Limit)
    <2>1. wrong[s] = bucket[s].count /\ (~bucket[s].locked => bucket[s].count < Limit)
      BY DEF FullIsLocked
    <2>2. CASE s = u
      BY <1>4, <1>5, <2>1, <2>2
    <2>3. CASE s # u
      BY <1>4, <2>1, <2>3
    <2> QED BY <2>2, <2>3
  <1> QED BY <1>6, <1>8, <1>9 DEF FullIsLocked
-----------------------------------------------------------------------------
LEMMA InvParts ==
    SecondFactorInv <=> TypeOK /\ OldPasswordsAreOut /\ CodesInv /\ FullIsLocked
  BY DEF SecondFactorInv, CodesInv

LEMMA InvStarts == Init => SecondFactorInv
  <1> SUFFICES ASSUME Init PROVE SecondFactorInv
    OBVIOUS
  <1> USE SecondFactorAssumption DEF SecondFactorAssumption
  <1>1. TypeOK
    <2>1. 1 \in 1 .. MaxSets /\ 1 \in 1 .. MaxPasswords /\ 0 \in 0 .. MaxPasswords
      OBVIOUS
    <2>2. Unused \in [state : {"unused", "half", "full", "ended"}, password : 0 .. MaxPasswords]
      BY <2>1 DEF Unused
    <2>3. codes \in [set : 1 .. MaxSets, left : SUBSET CodeIds]
      BY <2>1 DEF Init
    <2>4. /\ session \in [Sessions -> [state : {"unused", "half", "full", "ended"},
                                       password : 0 .. MaxPasswords]]
          /\ bucket \in [Sessions -> [count : Nat, locked : BOOLEAN]]
          /\ req \in [Requests -> Requested]
          /\ wrong \in [Sessions -> Nat]
      BY <2>2, RequestKinds DEF Init
    <2> QED BY <2>1, <2>3, <2>4 DEF Init, TypeOK
  <1>2. OldPasswordsAreOut
    BY DEF Init, OldPasswordsAreOut, LiveOnes, Live, Unused
  <1>3. \A r \in Requests : req[r].at = "idle"
    BY DEF Init, Idle
  <1>4. RowHeldAlone /\ ReadsAreCurrent
    BY <1>3 DEF RowHeldAlone, ReadsAreCurrent, LocksRow, HasRead
  <1>5. CodesWereShown /\ CodesAreGood
    <2>1. CodeIds = {c \in CodeIds : <<shown, c>> \notin spent}
      BY DEF Init
    <2>2. codes = [set |-> shown, left |-> {c \in CodeIds : <<shown, c>> \notin spent}]
      BY <2>1 DEF Init
    <2>3. CodesWereShown
      BY DEF Init, CodesWereShown
    <2> QED BY <2>2, <2>3 DEF Init, CodesAreGood, CodesWorkOnce, ShownCodesWork
  <1>6. FullIsLocked
    <2>1. ASSUME NEW s \in Sessions PROVE Cardinality(Trying(s)) = 0
      <3>1. Trying(s) = {}
        BY <1>3 DEF Trying
      <3> QED BY <3>1, FS_EmptySet
    <2>2. Cardinality(Requests) \in Nat
      BY FS_CardinalityType
    <2> QED BY <2>1, <2>2 DEF Init, FullIsLocked
  <1> QED BY <1>1, <1>2, <1>4, <1>5, <1>6 DEF SecondFactorInv

LEMMA SmallStepKeeps ==
    ASSUME SecondFactorInv, SmallStep
    PROVE  SecondFactorInv'
  <1>1. TypeOK /\ OldPasswordsAreOut /\ CodesInv /\ FullIsLocked
    BY InvParts
  <1>2. PICK r \in Requests, o \in Requested : Moves(r, o)
    BY <1>1, SmallMoves
  <1>3. /\ req' = [req EXCEPT ![r] = o]
        /\ UNCHANGED <<kind, password, codes, session, bucket>>
        /\ UNCHANGED <<shown, spent, again, clobbered, wrong, excused>>
    BY <1>2 DEF Moves, data, history
  <1>4. /\ req' \in [Requests -> Requested] /\ req'[r] = o
        /\ \A q \in Requests \ {r} : req'[q] = req[q]
    BY <1>1, <1>3, OneMoves
  <1>5. TypeOK'
    BY <1>1, <1>3, <1>4 DEF TypeOK
  <1>6. OldPasswordsAreOut'
    BY <1>1, <1>3 DEF OldPasswordsAreOut, LiveOnes, Live
  <1>7. CodesInv'
    BY <1>1, <1>2, <1>3, CodesUntouched DEF Moves
  <1>8. \A s \in Sessions : bucket[s].locked => Trying(s)' \subseteq Trying(s)
    BY <1>2, <1>4 DEF Moves, Trying
  <1>9. FullIsLocked'
    BY <1>1, <1>3, <1>8, TriesUntouched
  <1> QED BY <1>5, <1>6, <1>7, <1>9 DEF SecondFactorInv, CodesInv

\* A request that is over neither holds the row nor tries a code.
LEMMA RequestEnds ==
    ASSUME TypeOK, CodesInv, NEW r \in Requests, End(r),
           UNCHANGED <<kind, codes, shown, spent, again, clobbered>>
    PROVE  /\ req' \in [Requests -> Requested]
           /\ CodesInv'
           /\ \A s \in Sessions : Trying(s)' \subseteq Trying(s)
  <1>1. Idle \in Requested /\ Idle.at = "idle" /\ req' = [req EXCEPT ![r] = Idle]
    BY RequestKinds DEF Idle, End
  <1>2. /\ req' \in [Requests -> Requested] /\ req'[r] = Idle
        /\ \A q \in Requests \ {r} : req'[q] = req[q]
    BY <1>1, OneMoves
  <1>3. CodesInv'
    BY <1>1, CodesUntouched
  <1>4. \A s \in Sessions : Trying(s)' \subseteq Trying(s)
    BY <1>1, <1>2 DEF Trying
  <1> QED BY <1>2, <1>3, <1>4

\* Nor does one whose codes are stored.
LEMMA StoreEnds ==
    ASSUME TypeOK, NEW r \in Requests, HasRead(r), NEW set \in 1 .. MaxSets,
           NEW left \in SUBSET CodeIds, NEW next \in Requested,
           next.at \in {"idle", "passed"}, Store(r, set, left, next)
    PROVE  \A s \in Sessions : Trying(s)' \subseteq Trying(s)
  <1>1. ASSUME NEW q \in Requests, req'[q].at = "code"
        PROVE  req'[q] = req[q]
    BY <1>1, Storing
  <1> QED BY <1>1 DEF Trying

LEMMA CreateSessionKeeps ==
    ASSUME SecondFactorInv, NEW r \in Requests, NEW s \in Sessions, CreateSession(r, s)
    PROVE  SecondFactorInv'
  <1>1. TypeOK /\ OldPasswordsAreOut /\ CodesInv /\ FullIsLocked
    BY InvParts
  <1>2. /\ req[r].at = "login"
        /\ session' = [session EXCEPT ![s] = [state |-> "half", password |-> req[r].password]]
        /\ excused' = (IF req[r].password # password THEN excused \cup {s} ELSE excused)
        /\ End(r)
        /\ UNCHANGED <<kind, password, codes, bucket, shown, spent, again, clobbered, wrong>>
    BY DEF CreateSession
  <1>3. req[r].password \in 1 .. MaxPasswords
    BY <1>1, <1>2, RequestParts DEF TypeOK
  <1>4. /\ req' \in [Requests -> Requested] /\ CodesInv'
        /\ \A t \in Sessions : Trying(t)' \subseteq Trying(t)
    BY <1>1, <1>2, RequestEnds
  <1>5. TypeOK'
    BY <1>1, <1>2, <1>3, <1>4, SecondFactorAssumption DEF TypeOK, SecondFactorAssumption
  <1>6. OldPasswordsAreOut'
    <2>1. ASSUME NEW t \in Sessions, Live(t)', session'[t].password < password'
          PROVE  t \in excused'
      <3>1. CASE t = s
        <4>1. session'[t].password = req[r].password
          BY <1>1, <1>2, <3>1 DEF TypeOK
        <4> QED BY <1>1, <1>2, <1>3, <2>1, <3>1, <4>1 DEF TypeOK
      <3>2. CASE t # s
        <4>1. session'[t] = session[t]
          BY <1>1, <1>2, <3>2 DEF TypeOK
        <4> QED BY <1>1, <1>2, <2>1, <4>1 DEF OldPasswordsAreOut, LiveOnes, Live
      <3> QED BY <3>1, <3>2
    <2> QED BY <2>1 DEF OldPasswordsAreOut, LiveOnes
  <1>7. FullIsLocked'
    BY <1>1, <1>2, <1>4, TriesUntouched
  <1> QED BY <1>4, <1>5, <1>6, <1>7 DEF SecondFactorInv, CodesInv

LEMMA WrongCodeKeeps ==
    ASSUME SecondFactorInv, NEW r \in Requests, WrongCode(r)
    PROVE  SecondFactorInv'
  <1>1. TypeOK /\ OldPasswordsAreOut /\ CodesInv /\ FullIsLocked
    BY InvParts
  <1>2. /\ End(r)
        /\ UNCHANGED <<kind, password, codes, session, shown, spent, again, clobbered, excused>>
    BY DEF WrongCode
  <1>3. /\ FullIsLocked' /\ bucket' \in [Sessions -> [count : Nat, locked : BOOLEAN]]
        /\ wrong' \in [Sessions -> Nat]
    BY <1>1, WrongIsCounted
  <1>4. req' \in [Requests -> Requested] /\ CodesInv'
    BY <1>1, <1>2, RequestEnds
  <1>5. TypeOK'
    BY <1>1, <1>2, <1>3, <1>4 DEF TypeOK
  <1>6. OldPasswordsAreOut'
    BY <1>1, <1>2 DEF OldPasswordsAreOut, LiveOnes, Live
  <1> QED BY <1>3, <1>4, <1>5, <1>6 DEF SecondFactorInv, CodesInv

LEMMA ConsumeKeeps ==
    ASSUME SecondFactorInv, NEW r \in Requests, ConsumeBackupCode(r)
    PROVE  SecondFactorInv'
  <1>1. TypeOK /\ OldPasswordsAreOut /\ CodesInv /\ FullIsLocked
    BY InvParts
  <1> DEFINE next == [at |-> "passed", session |-> req[r].session]
  <1>2. /\ req[r].at = "consuming" /\ HasRead(r)
        /\ Store(r, req[r].set, Remaining(r), next)
        /\ UNCHANGED <<kind, password, session, bucket, shown, wrong, excused>>
    BY DEF ConsumeBackupCode, HasRead
  <1>3. LocksRow(r) \/ ~RowLocked
    BY <1>1, <1>2 DEF ConsumeBackupCode, LocksRow, TypeOK
  <1>4. /\ req[r].set \in 1 .. MaxSets /\ Remaining(r) \in SUBSET CodeIds
        /\ req[r].session \in Sessions \cup {"none"}
    BY <1>1, <1>2, RequestParts DEF TypeOK, Remaining
  <1>5. req[r].session \in Sessions /\ req[r].code # NoCode
    BY <1>1, <1>2 DEF CodesInv, ReadsAreCurrent
  <1>6. next \in Requested /\ next.at \in {"idle", "passed"}
    BY <1>5, RequestKinds
  <1> HIDE DEF next
  <1>7. CodesInv'
    BY <1>1, <1>2, <1>3, <1>5, <1>6, CodeTaken
  <1>8. TypeOK'
    BY <1>1, <1>2, <1>4, <1>6, Storing DEF TypeOK
  <1>9. OldPasswordsAreOut'
    BY <1>1, <1>2 DEF OldPasswordsAreOut, LiveOnes, Live
  <1>10. FullIsLocked'
    BY <1>1, <1>2, <1>4, <1>6, StoreEnds, TriesUntouched
  <1> QED BY <1>7, <1>8, <1>9, <1>10 DEF SecondFactorInv, CodesInv

LEMMA StepUpKeeps ==
    ASSUME SecondFactorInv, NEW r \in Requests, StepUp(r)
    PROVE  SecondFactorInv'
  <1>1. TypeOK /\ OldPasswordsAreOut /\ CodesInv /\ FullIsLocked
    BY InvParts
  <1>2. PICK s \in Sessions : s = req[r].session
    BY <1>1, RequestParts DEF StepUp, TypeOK
  <1>3. /\ bucket' = [bucket EXCEPT ![s] = [count |-> 0, locked |-> FALSE]]
        /\ wrong' = [wrong EXCEPT ![s] = 0]
        /\ session' = (IF Live(s) THEN [session EXCEPT ![s].state = "full"] ELSE session)
        /\ End(r)
        /\ UNCHANGED <<kind, password, codes, shown, spent, again, clobbered, excused>>
    BY <1>2 DEF StepUp, ResetBucket
  <1>4. /\ req' \in [Requests -> Requested] /\ CodesInv'
        /\ \A t \in Sessions : Trying(t)' \subseteq Trying(t)
    BY <1>1, <1>3, RequestEnds
  <1>5. bucket' \in [Sessions -> [count : Nat, locked : BOOLEAN]] /\ wrong' \in [Sessions -> Nat]
    BY <1>1, <1>3 DEF TypeOK
  <1>6. session' \in [Sessions -> [state : {"unused", "half", "full", "ended"},
                                   password : 0 .. MaxPasswords]]
    BY <1>1, <1>3 DEF TypeOK
  <1>7. TypeOK'
    BY <1>1, <1>3, <1>4, <1>5, <1>6 DEF TypeOK
  <1>8. OldPasswordsAreOut'
    <2>1. ASSUME NEW t \in Sessions, Live(t)'
          PROVE  Live(t) /\ session'[t].password = session[t].password
      BY <1>1, <1>3, <2>1 DEF TypeOK, Live
    <2> QED BY <1>1, <1>3, <2>1, SessionsKept
  <1>9. ASSUME NEW t \in Sessions
        PROVE  /\ wrong'[t] = bucket'[t].count
               /\ ~bucket'[t].locked => bucket'[t].count < Limit
               /\ \/ bucket'[t].count < Limit
                  \/ bucket'[t].count <= bucket[t].count /\ Trying(t)' \subseteq Trying(t)
    <2>1. bucket[t].count \in Nat
      BY <1>1 DEF TypeOK
    <2>2. CASE t = s
      BY <1>1, <1>3, <2>2, SecondFactorAssumption DEF TypeOK, SecondFactorAssumption
    <2>3. CASE t # s
      BY <1>1, <1>3, <1>4, <2>1, <2>3 DEF TypeOK, FullIsLocked
    <2> QED BY <2>2, <2>3
  <1>10. FullIsLocked'
    BY <1>1, <1>5, <1>9, TriesKept
  <1> QED BY <1>4, <1>7, <1>8, <1>10 DEF SecondFactorInv, CodesInv

LEMMA CommitPasswordKeeps ==
    ASSUME SecondFactorInv, NEW r \in Requests, CommitPassword(r)
    PROVE  SecondFactorInv'
  <1>1. TypeOK /\ OldPasswordsAreOut /\ CodesInv /\ FullIsLocked
    BY InvParts
  <1>2. PICK s \in Sessions : s = req[r].session
    BY <1>1, RequestParts DEF CommitPassword, TypeOK
  <1>3. /\ password < MaxPasswords /\ password' = password + 1
        /\ EndSessions(Others(s)) /\ excused' = excused \cup {s}
        /\ End(r)
        /\ UNCHANGED <<kind, codes, bucket, shown, spent, again, clobbered, wrong>>
    BY <1>2 DEF CommitPassword
  <1>4. /\ req' \in [Requests -> Requested] /\ CodesInv'
        /\ \A t \in Sessions : Trying(t)' \subseteq Trying(t)
    BY <1>1, <1>3, RequestEnds
  <1>5. ASSUME NEW t \in Sessions
        PROVE  /\ session'[t] \in [state : {"unused", "half", "full", "ended"},
                                   password : 0 .. MaxPasswords]
               /\ Live(t)' => t = s
    BY <1>1, <1>3 DEF EndSessions, TypeOK, Others, LiveOnes, Live
  <1>6. session' \in [Sessions -> [state : {"unused", "half", "full", "ended"},
                                   password : 0 .. MaxPasswords]]
    BY <1>3, <1>5 DEF EndSessions
  <1>7. password' \in 1 .. MaxPasswords
    BY <1>1, <1>3, SecondFactorAssumption DEF TypeOK, SecondFactorAssumption
  <1>8. TypeOK'
    BY <1>1, <1>3, <1>4, <1>6, <1>7 DEF TypeOK
  <1>9. OldPasswordsAreOut'
    BY <1>3, <1>5 DEF OldPasswordsAreOut, LiveOnes
  <1>10. FullIsLocked'
    BY <1>1, <1>3, <1>4, TriesUntouched
  <1> QED BY <1>4, <1>8, <1>9, <1>10 DEF SecondFactorInv, CodesInv

LEMMA CommitResetKeeps ==
    ASSUME SecondFactorInv, NEW r \in Requests, NEW s \in Sessions, CommitReset(r, s)
    PROVE  SecondFactorInv'
  <1>1. TypeOK /\ OldPasswordsAreOut /\ CodesInv /\ FullIsLocked
    BY InvParts
  <1>2. /\ req[r].at = "resetting" /\ HasRead(r) /\ LocksRow(r)
        /\ password < MaxPasswords /\ password' = password + 1
        /\ session' = [session EXCEPT ![s] = [state |-> "full", password |-> password']]
        /\ excused' = excused \cup LiveOnes
        /\ UNCHANGED <<kind, bucket, shown, wrong>>
    BY DEF CommitReset, HasRead, LocksRow
  <1>3. password' \in 1 .. MaxPasswords
    BY <1>1, <1>2, SecondFactorAssumption DEF TypeOK, SecondFactorAssumption
  <1>4. session' \in [Sessions -> [state : {"unused", "half", "full", "ended"},
                                   password : 0 .. MaxPasswords]]
    BY <1>1, <1>2, <1>3, SecondFactorAssumption DEF TypeOK, SecondFactorAssumption
  <1>5. /\ CodesInv' /\ req' \in [Requests -> Requested]
        /\ codes' \in [set : 1 .. MaxSets, left : SUBSET CodeIds]
        /\ clobbered' \in BOOLEAN
        /\ spent' \subseteq (1 .. MaxSets) \X CodeIds /\ again' \subseteq spent'
        /\ \A t \in Sessions : Trying(t)' \subseteq Trying(t)
    <2>1. CASE req[r].code = NoCode
      <3>1. End(r) /\ UNCHANGED <<codes, spent, again, clobbered>>
        BY <2>1 DEF CommitReset
      <3> QED BY <1>1, <1>2, <3>1, RequestEnds DEF TypeOK
    <2>2. CASE req[r].code # NoCode
      <3>1. Store(r, req[r].set, Remaining(r), Idle)
        BY <2>2 DEF CommitReset
      <3>2. req[r].set \in 1 .. MaxSets /\ Remaining(r) \in SUBSET CodeIds
        BY <1>1, <1>2, RequestParts DEF TypeOK, Remaining
      <3>3. Idle \in Requested /\ Idle.at \in {"idle", "passed"}
        BY RequestKinds DEF Idle
      <3>4. CodesInv'
        BY <1>1, <1>2, <2>2, <3>1, <3>3, CodeTaken
      <3>5. \A t \in Sessions : Trying(t)' \subseteq Trying(t)
        BY <1>1, <1>2, <3>1, <3>2, <3>3, StoreEnds
      <3> QED BY <1>1, <1>2, <3>1, <3>2, <3>3, <3>4, <3>5, Storing
    <2> QED BY <2>1, <2>2
  <1>6. TypeOK'
    BY <1>1, <1>2, <1>3, <1>4, <1>5 DEF TypeOK, LiveOnes
  <1>7. OldPasswordsAreOut'
    <2>1. ASSUME NEW t \in Sessions, Live(t)', session'[t].password < password'
          PROVE  t \in excused'
      <3>1. CASE t = s
        <4>1. session'[t].password = password'
          BY <1>1, <1>2, <3>1 DEF TypeOK
        <4> QED BY <1>3, <2>1, <4>1
      <3>2. CASE t # s
        <4>1. session'[t] = session[t]
          BY <1>1, <1>2, <3>2 DEF TypeOK
        <4> QED BY <1>2, <2>1, <4>1 DEF LiveOnes, Live
      <3> QED BY <3>1, <3>2
    <2> QED BY <2>1 DEF OldPasswordsAreOut, LiveOnes
  <1>8. FullIsLocked'
    BY <1>1, <1>2, <1>5, TriesUntouched
  <1> QED BY <1>5, <1>6, <1>7, <1>8 DEF SecondFactorInv, CodesInv

LEMMA CommitCodesKeeps ==
    ASSUME SecondFactorInv, NEW r \in Requests, CommitCodes(r)
    PROVE  SecondFactorInv'
  <1>1. TypeOK /\ OldPasswordsAreOut /\ CodesInv /\ FullIsLocked
    BY InvParts
  <1>2. /\ HasRead(r) /\ shown' = shown + 1 /\ shown < MaxSets
        /\ Store(r, shown', CodeIds, Idle)
        /\ UNCHANGED <<kind, password, session, bucket, wrong, excused>>
    BY DEF CommitCodes, HasRead
  <1>3. PICK n \in 1 .. MaxSets : n = shown'
    BY <1>1, <1>2, SecondFactorAssumption DEF TypeOK, SecondFactorAssumption
  <1>4. Store(r, n, CodeIds, Idle) /\ CodeIds \in SUBSET CodeIds
    BY <1>2, <1>3
  <1>5. Idle \in Requested /\ Idle.at \in {"idle", "passed"}
    BY RequestKinds DEF Idle
  <1>6. TypeOK'
    BY <1>1, <1>2, <1>3, <1>4, <1>5, Storing DEF TypeOK
  <1>7. CodesInv'
    BY <1>1, CodesRenewed
  <1>8. OldPasswordsAreOut'
    BY <1>1, <1>2 DEF OldPasswordsAreOut, LiveOnes, Live
  <1>9. FullIsLocked'
    BY <1>1, <1>2, <1>4, <1>5, StoreEnds, TriesUntouched
  <1> QED BY <1>6, <1>7, <1>8, <1>9 DEF SecondFactorInv, CodesInv

\* Sessions end, and nothing else.
LEMMA EndsKeep ==
    ASSUME SecondFactorInv, NEW gone, EndSessions(gone),
           UNCHANGED <<kind, password, codes, bucket, req, history>>
    PROVE  SecondFactorInv'
  <1>1. TypeOK /\ OldPasswordsAreOut /\ CodesInv /\ FullIsLocked
    BY InvParts
  <1>2. UNCHANGED <<shown, spent, again, clobbered, wrong, excused>>
    BY DEF history
  <1>3. /\ session' \in [Sessions -> [state : {"unused", "half", "full", "ended"},
                                      password : 0 .. MaxPasswords]]
        /\ OldPasswordsAreOut'
    BY <1>1, <1>2, SessionsEnd
  <1>4. TypeOK'
    BY <1>1, <1>2, <1>3 DEF TypeOK
  <1>5. CodesInv'
    BY <1>1, <1>2, CodesUntouchedByAll
  <1>6. FullIsLocked'
    BY <1>1, <1>2, TriesUntouched DEF Trying
  <1> QED BY <1>3, <1>4, <1>5, <1>6 DEF SecondFactorInv, CodesInv

LEMMA LockedOutKeeps ==
    ASSUME SecondFactorInv, NEW s \in Sessions, LockedOut(s)
    PROVE  SecondFactorInv'
  <1>1. TypeOK
    BY InvParts
  <1>2. EndSessions({s})
    BY <1>1 DEF LockedOut, EndSessions, TypeOK
  <1> QED BY <1>2, EndsKeep DEF LockedOut

\* A window or a lockout ends.
LEMMA ClockKeeps ==
    ASSUME SecondFactorInv, NEW s \in Sessions, WindowEnds(s) \/ LockoutEnds(s)
    PROVE  SecondFactorInv'
  <1> USE SecondFactorAssumption DEF SecondFactorAssumption
  <1>1. TypeOK /\ OldPasswordsAreOut /\ CodesInv /\ FullIsLocked
    BY InvParts
  <1>2. UNCHANGED <<kind, password, codes, session, req, shown, spent, again, clobbered, excused>>
    BY DEF WindowEnds, LockoutEnds, history
  <1>3. /\ bucket' \in [Sessions -> [count : Nat, locked : BOOLEAN]]
        /\ wrong' \in [Sessions -> Nat]
    <2>1. CASE WindowEnds(s)
      BY <1>1, <2>1 DEF WindowEnds, TypeOK
    <2>2. CASE LockoutEnds(s)
      BY <1>1, <2>2 DEF LockoutEnds, history, TypeOK
    <2> QED BY <2>1, <2>2
  <1>4. ASSUME NEW t \in Sessions
        PROVE  /\ wrong'[t] = bucket'[t].count
               /\ ~bucket'[t].locked => bucket'[t].count < Limit
               /\ bucket'[t].count <= bucket[t].count
    BY <1>1 DEF WindowEnds, LockoutEnds, history, TypeOK, FullIsLocked
  <1>5. \A t \in Sessions : Trying(t)' \subseteq Trying(t)
    BY <1>2 DEF Trying
  <1>6. FullIsLocked'
    BY <1>1, <1>3, <1>4, <1>5, TriesKept
  <1>7. TypeOK'
    BY <1>1, <1>2, <1>3 DEF TypeOK
  <1>8. OldPasswordsAreOut'
    BY <1>1, <1>2 DEF OldPasswordsAreOut, LiveOnes, Live
  <1>9. CodesInv'
    BY <1>1, <1>2, CodesUntouchedByAll
  <1> QED BY <1>6, <1>7, <1>8, <1>9 DEF SecondFactorInv, CodesInv

LEMMA InvKept == SecondFactorInv /\ [Next]_vars => SecondFactorInv'
  <1> SUFFICES ASSUME SecondFactorInv, [Next]_vars PROVE SecondFactorInv'
    OBVIOUS
  <1>1. CASE UNCHANGED vars
    BY <1>1 DEF vars, data, history, SecondFactorInv, TypeOK, OldPasswordsAreOut, LiveOnes, Live,
        RowHeldAlone, ReadsAreCurrent, CodesWereShown, CodesAreGood, CodesWorkOnce,
        ShownCodesWork, FullIsLocked, Trying, HasRead, LocksRow
  <1>2. CASE SmallStep
    BY <1>2, SmallStepKeeps
  <1>3. CASE WritingStep
    <2>1. ASSUME NEW r \in Requests, NEW s \in Sessions, CreateSession(r, s) \/ CommitReset(r, s)
          PROVE  SecondFactorInv'
      BY <2>1, CreateSessionKeeps, CommitResetKeeps
    <2>2. ASSUME NEW r \in Requests,
                 \/ WrongCode(r) \/ ConsumeBackupCode(r) \/ StepUp(r)
                 \/ CommitPassword(r) \/ CommitCodes(r)
          PROVE  SecondFactorInv'
      BY <2>2, WrongCodeKeeps, ConsumeKeeps, StepUpKeeps, CommitPasswordKeeps, CommitCodesKeeps
    <2>3. ASSUME NEW s \in Sessions, LockedOut(s) \/ WindowEnds(s) \/ LockoutEnds(s)
          PROVE  SecondFactorInv'
      BY <2>3, LockedOutKeeps, ClockKeeps
    <2>4. ASSUME NEW s \in Sessions, NEW t \in Sessions, RevokeSession(s, t)
          PROVE  SecondFactorInv'
      BY <2>4, EndsKeep DEF RevokeSession
    <2>5. ASSUME NEW s \in Sessions, NEW kept \in SUBSET {s}, RevokeAllSessions(s, kept)
          PROVE  SecondFactorInv'
      BY <2>5, EndsKeep DEF RevokeAllSessions
    <2> QED BY <1>3, <2>1, <2>2, <2>3, <2>4, <2>5 DEF WritingStep
  <1> QED BY <1>1, <1>2, <1>3, Steps
-----------------------------------------------------------------------------
\* The invariant of an account: who holds its row, or was not crossed, has read the
\* codes that are stored, and a bucket that is full is locked (the locks of
\* customers/service.js and customer-users/service.js, recordFail of
\* lib/auth/rate-limit.js).
THEOREM SecondFactorInvariant == Spec => []SecondFactorInv
  BY InvStarts, InvKept, PTL DEF Spec

\* Every step leaves the rows, the requests in flight and the history well formed.
THEOREM SecondFactorTypeCorrect == Spec => []TypeOK
  BY SecondFactorInvariant, InvParts, PTL

\* A backup code is accepted once, and those shown last are the ones that work, unless
\* an admin's login wrote back codes it had read before another write
\* (consumeBackupCode of admins/service.js).
THEOREM CodesWork == Spec => []CodesAreGood
  <1>1. SecondFactorInv => CodesAreGood
    BY DEF SecondFactorInv
  <1> QED BY <1>1, SecondFactorInvariant, PTL

\* A session that began with an older password is over, but for those the code lets
\* outlive it (changePassword, changeAdminPassword, completePasswordReset).
THEOREM OldPasswordsOut == Spec => []OldPasswordsAreOut
  BY SecondFactorInvariant, InvParts, PTL

\* A session gets no more wrong codes in a window than the limit and the requests that
\* were past its check (checkLockout and recordFail of lib/auth/rate-limit.js).
THEOREM TriesBounded == Spec => []TriesAreBounded
  <1>1. SecondFactorInv => TriesAreBounded
    <2> SUFFICES ASSUME SecondFactorInv, NEW s \in Sessions
                 PROVE  wrong[s] <= Limit - 1 + Cardinality(Requests)
      BY DEF TriesAreBounded
    <2>1. /\ TypeOK /\ wrong[s] = bucket[s].count
          /\ bucket[s].count + Cardinality(Trying(s)) <= Limit - 1 + Cardinality(Requests)
      BY DEF SecondFactorInv, FullIsLocked
    <2>2. IsFiniteSet(Trying(s)) /\ IsFiniteSet(Requests)
      BY SecondFactorAssumption, FS_Subset DEF SecondFactorAssumption, Trying
    <2>3. Cardinality(Trying(s)) \in Nat /\ Cardinality(Requests) \in Nat /\ wrong[s] \in Nat
      BY <2>1, <2>2, FS_CardinalityType DEF TypeOK
    <2> QED BY <2>1, <2>3, SecondFactorAssumption DEF SecondFactorAssumption
  <1> QED BY <1>1, SecondFactorInvariant, PTL
=============================================================================
