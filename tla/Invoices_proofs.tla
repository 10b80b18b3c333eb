---------------------------- MODULE Invoices_proofs ----------------------------
(***************************************************************************)
(* Theorems about the documents of a customer, NDAs and invoices among     *)
(* them (Documents), and about the ledger of an invoice (Billing), for     *)
(* every set of documents, NDAs, payments and requests in flight, and      *)
(* every size and amount.                                                  *)
(*                                                                         *)
(* Both add something up.  A sum is how many units it has: a fold over a   *)
(* finite set counts the pairs of an element and a number up to its value, *)
(* and the facts about sums that are needed are facts about cardinality.   *)
(***************************************************************************)
EXTENDS Documents, Billing, FiniteSetTheorems, TLAPS

(***************************************************************************)
(* Sums over finite sets.                                                  *)
(***************************************************************************)

Units(f, s) == {u \in s \X Nat : u[2] \in 1 .. f[u[1]]}
Pick(s) == CHOOSE x \in s : TRUE
SumsUp(g, f, S) ==
    g = [s \in SUBSET S |-> IF s = {} THEN 0 ELSE f[Pick(s)] + g[s \ {Pick(s)}]]

\* What one element has, and what two disjoint sets have together.
LEMMA UnitsOfOne ==
    ASSUME NEW f, NEW x, f[x] \in Nat
    PROVE  IsFiniteSet(Units(f, {x})) /\ Cardinality(Units(f, {x})) = f[x]
  <1> DEFINE A == {x}
             B == 1 .. f[x]
  <1>1. Units(f, {x}) = A \X B
    BY DEF Units
  <1>2. IsFiniteSet(A) /\ Cardinality(A) = 1
    BY FS_Singleton
  <1>3. IsFiniteSet(B) /\ Cardinality(B) = f[x]
    BY FS_Interval
  <1> HIDE DEF A, B
  <1>4. IsFiniteSet(A \X B) /\ Cardinality(A \X B) = Cardinality(A) * Cardinality(B)
    BY <1>2, <1>3, FS_Product
  <1>5. Cardinality(A) * Cardinality(B) = f[x]
    BY <1>2, <1>3
  <1> QED BY <1>1, <1>4, <1>5

LEMMA UnitsOfTwo ==
    ASSUME NEW f, NEW s, NEW t, s \cap t = {},
           IsFiniteSet(Units(f, s)), IsFiniteSet(Units(f, t))
    PROVE  /\ IsFiniteSet(Units(f, s \cup t))
           /\ Cardinality(Units(f, s \cup t)) =
                 Cardinality(Units(f, s)) + Cardinality(Units(f, t))
  <1> DEFINE A == Units(f, s)
             B == Units(f, t)
  <1>1. Units(f, s \cup t) = A \cup B /\ A \cap B = {}
    BY DEF Units
  <1>2. IsFiniteSet(A) /\ IsFiniteSet(B)
    OBVIOUS
  <1> HIDE DEF A, B
  <1>3. Cardinality({}) = 0 /\ Cardinality(A) \in Nat /\ Cardinality(B) \in Nat
    BY <1>2, FS_EmptySet, FS_CardinalityType
  <1>4. /\ IsFiniteSet(A \cup B)
        /\ Cardinality(A \cup B) = Cardinality(A) + Cardinality(B) - Cardinality(A \cap B)
    BY <1>2, FS_Union
  <1>5. Cardinality(A \cup B) = Cardinality(A) + Cardinality(B)
    <2>1. Cardinality(A \cap B) = 0
      BY <1>1, <1>3, Zenon
    <2> HIDE DEF A, B
    <2> DEFINE a == Cardinality(A)
               b == Cardinality(B)
               c == Cardinality(A \cap B)
    <2>2. a \in Nat /\ b \in Nat /\ c = 0
      BY <1>3, <2>1
    <2>3. Cardinality(A \cup B) = a + b - c
      BY <1>4
    <2> HIDE DEF a, b, c
    <2>4. a + b - c = a + b
      BY <2>2
    <2> QED BY <2>3, <2>4 DEF a, b
  <1> QED BY <1>1, <1>4, <1>5 DEF A, B

\* Sets of subsets of a finite set have least members.
LEMMA LeastSubset ==
    ASSUME NEW S, IsFiniteSet(S), NEW B, B \subseteq SUBSET S, B # {}
    PROVE  \E s \in B : \A t \in B : ~(t \subseteq s /\ t # s)
  <1>1. IsWellFoundedOn(StrictSubsetOrdering(S), SUBSET S)
    BY FS_StrictSubsetOrderingWellFounded, FS_FiniteSubsetsOfFinite
  <1>2. PICK s \in B : \A t \in B : ~(<<t, s>> \in StrictSubsetOrdering(S))
    BY <1>1, WFMin
  <1> QED BY <1>2 DEF StrictSubsetOrdering

LEMMA PickIsIn == ASSUME NEW s, s # {} PROVE Pick(s) \in s /\ s \ {Pick(s)} # s
  BY DEF Pick

\* A finite sum has finitely many units: a least set that has not would have an element
\* less than that.
LEMMA UnitsFinite ==
    ASSUME NEW S, IsFiniteSet(S), NEW f, \A x \in S : f[x] \in Nat, NEW s \in SUBSET S
    PROVE  IsFiniteSet(Units(f, s))
  <1> DEFINE B == {t \in SUBSET S : ~IsFiniteSet(Units(f, t))}
  <1>1. ASSUME B # {} PROVE FALSE
    <2>1. PICK t \in B : \A r \in B : ~(r \subseteq t /\ r # t)
      <3>1. B \subseteq SUBSET S
        OBVIOUS
      <3> HIDE DEF B
      <3> QED BY <1>1, <3>1, LeastSubset
    <2>2. t # {}
      <3>1. Units(f, {}) = {}
        BY DEF Units
      <3> QED BY <2>1, <3>1, FS_EmptySet
    <2> DEFINE x == Pick(t)
    <2>3. x \in t /\ t \ {x} # t
      BY <2>2, PickIsIn
    <2> HIDE DEF x
    <2>4. IsFiniteSet(Units(f, t \ {x}))
      BY <2>1, <2>3
    <2>5. IsFiniteSet(Units(f, {x}))
      BY <2>1, <2>3, UnitsOfOne
    <2>6. t = (t \ {x}) \cup {x} /\ (t \ {x}) \cap {x} = {}
      BY <2>3
    <2>7. IsFiniteSet(Units(f, (t \ {x}) \cup {x}))
      BY <2>4, <2>5, <2>6, UnitsOfTwo
    <2> QED BY <2>1, <2>6, <2>7
  <1> QED BY <1>1

\* Counting units satisfies the equation that the fold is recursive in, and nothing else does.
LEMMA SumsExist ==
    ASSUME NEW S, IsFiniteSet(S), NEW f, \A x \in S : f[x] \in Nat
    PROVE  SumsUp([s \in SUBSET S |-> Cardinality(Units(f, s))], f, S)
  <1> DEFINE h == [s \in SUBSET S |-> Cardinality(Units(f, s))]
  <1>1. ASSUME NEW s \in SUBSET S
        PROVE  h[s] = IF s = {} THEN 0 ELSE f[Pick(s)] + h[s \ {Pick(s)}]
    <2>1. CASE s = {}
      <3>1. Units(f, {}) = {}
        BY DEF Units
      <3> QED BY <2>1, <3>1, FS_EmptySet
    <2>2. CASE s # {}
      <3> DEFINE x == Pick(s)
      <3>1. x \in s
        BY <2>2, PickIsIn
      <3> HIDE DEF x
      <3>2. s = (s \ {x}) \cup {x} /\ (s \ {x}) \cap {x} = {}
        BY <3>1
      <3>3. /\ IsFiniteSet(Units(f, s \ {x}))
            /\ IsFiniteSet(Units(f, {x})) /\ Cardinality(Units(f, {x})) = f[x]
        BY <3>1, UnitsFinite, UnitsOfOne
      <3>4. Cardinality(Units(f, s)) = Cardinality(Units(f, s \ {x})) + f[x]
        BY <3>2, <3>3, UnitsOfTwo
      <3>5. Cardinality(Units(f, s \ {x})) \in Nat /\ f[x] \in Nat
        BY <3>1, <3>3, FS_CardinalityType
      <3>6. h[s] = f[x] + h[s \ {x}]
        BY <3>1, <3>4, <3>5
      <3> QED BY <2>2, <3>6 DEF x
    <2> QED BY <2>1, <2>2
  <1> QED BY <1>1 DEF SumsUp

LEMMA SumsAreUnits ==
    ASSUME NEW S, IsFiniteSet(S), NEW f, \A x \in S : f[x] \in Nat, NEW g, SumsUp(g, f, S),
           NEW s \in SUBSET S
    PROVE  g[s] = Cardinality(Units(f, s))
  <1> DEFINE h == [t \in SUBSET S |-> Cardinality(Units(f, t))]
  <1>1. SumsUp(h, f, S)
    BY SumsExist
  <1> HIDE DEF h
  <1> DEFINE B == {t \in SUBSET S : g[t] # h[t]}
  <1>2. ASSUME B # {} PROVE FALSE
    <2>1. PICK t \in B : \A r \in B : ~(r \subseteq t /\ r # t)
      <3>1. B \subseteq SUBSET S
        OBVIOUS
      <3> HIDE DEF B
      <3> QED BY <1>2, <3>1, LeastSubset
    <2>2. CASE t = {}
      BY <1>1, <2>1, <2>2 DEF SumsUp
    <2>3. CASE t # {}
      <3>1. Pick(t) \in t /\ t \ {Pick(t)} # t
        BY <2>3, PickIsIn
      <3>2. g[t \ {Pick(t)}] = h[t \ {Pick(t)}]
        BY <2>1, <3>1
      <3> QED BY <1>1, <2>1, <2>3, <3>2 DEF SumsUp
    <2> QED BY <2>2, <2>3
  <1> QED BY <1>2 DEF h

\* The sum of the community modules is the number of units.
LEMMA SumIsCount ==
    ASSUME NEW S, IsFiniteSet(S), NEW f, \A x \in S : f[x] \in Nat
    PROVE  SumFunctionOnSet(f, S) = Cardinality(Units(f, S))
  <1> DEFINE E(g) == g = [s \in SUBSET S |->
                 IF s = {} THEN 0 ELSE f[CHOOSE x \in s : TRUE] + g[s \ {CHOOSE x \in s : TRUE}]]
             h == [s \in SUBSET S |-> Cardinality(Units(f, s))]
             iter == CHOOSE g : E(g)
  <1>1. SumFunctionOnSet(f, S) = iter[S]
    BY DEF SumFunctionOnSet, FoldFunctionOnSet, MapThenFoldSet
  <1>2. \A g : E(g) <=> SumsUp(g, f, S)
    BY DEF SumsUp, Pick
  <1>3. SumsUp(h, f, S)
    BY SumsExist
  <1> HIDE DEF E, h
  <1>4. E(iter)
    BY <1>2, <1>3
  <1>5. SumsUp(iter, f, S)
    BY <1>2, <1>4
  <1> HIDE DEF iter
  <1> QED BY <1>1, <1>5, SumsAreUnits

LEMMA SumType ==
    ASSUME NEW S, IsFiniteSet(S), NEW f, \A x \in S : f[x] \in Nat, NEW T \in SUBSET S
    PROVE  SumFunctionOnSet(f, T) \in Nat
  <1>1. IsFiniteSet(T) /\ \A x \in T : f[x] \in Nat
    BY FS_Subset
  <1> QED BY <1>1, SumIsCount, UnitsFinite, FS_CardinalityType

\* A sum of nothing, of one more, of the same values, and of fewer.
LEMMA SumOfNone == ASSUME NEW f PROVE SumFunctionOnSet(f, {}) = 0
  <1>1. Units(f, {}) = {}
    BY DEF Units
  <1> QED BY <1>1, SumIsCount, FS_EmptySet

LEMMA SumAdds ==
    ASSUME NEW S, IsFiniteSet(S), NEW f, \A x \in S : f[x] \in Nat,
           NEW T \in SUBSET S, NEW x \in S \ T
    PROVE  SumFunctionOnSet(f, T \cup {x}) = SumFunctionOnSet(f, T) + f[x]
  <1>1. /\ IsFiniteSet(T) /\ IsFiniteSet(T \cup {x})
        /\ \A y \in T \cup {x} : f[y] \in Nat
    BY FS_Subset
  <1>2. /\ IsFiniteSet(Units(f, T))
        /\ IsFiniteSet(Units(f, {x})) /\ Cardinality(Units(f, {x})) = f[x]
    BY <1>1, UnitsFinite, UnitsOfOne
  <1>3. Cardinality(Units(f, T \cup {x})) = Cardinality(Units(f, T)) + f[x]
    BY <1>2, UnitsOfTwo
  <1> QED BY <1>1, <1>3, SumIsCount

LEMMA SumAgrees ==
    ASSUME NEW S, IsFiniteSet(S), NEW f, NEW g, \A x \in S : f[x] \in Nat /\ g[x] = f[x]
    PROVE  SumFunctionOnSet(g, S) = SumFunctionOnSet(f, S)
  <1>1. Units(f, S) = Units(g, S)
    BY DEF Units
  <1> QED BY <1>1, SumIsCount

LEMMA SumGrows ==
    ASSUME NEW S, IsFiniteSet(S), NEW f, \A x \in S : f[x] \in Nat,
           NEW T \in SUBSET S, NEW R \in SUBSET T
    PROVE  SumFunctionOnSet(f, R) <= SumFunctionOnSet(f, T)
  <1>1. /\ IsFiniteSet(T) /\ IsFiniteSet(R)
        /\ \A y \in T : f[y] \in Nat
    BY FS_Subset
  <1>2. IsFiniteSet(Units(f, T)) /\ Units(f, R) \in SUBSET Units(f, T)
    BY <1>1, UnitsFinite DEF Units
  <1>3. Cardinality(Units(f, R)) <= Cardinality(Units(f, T))
    BY <1>2, FS_Subset
  <1>4. /\ SumFunctionOnSet(f, T) = Cardinality(Units(f, T))
        /\ SumFunctionOnSet(f, R) = Cardinality(Units(f, R))
    BY <1>1, SumIsCount
  <1> QED BY <1>3, <1>4
-----------------------------------------------------------------------------
\* A row that is stored is a row, and a request that is under way is not over.
LEMMA RowsDiffer ==
    /\ \A o \in [category : Categories, size : Sizes] : o # NoRow
    /\ \A o \in Running : o.step \in Steps /\ o # Idle /\ o # Done
    /\ Idle.step = "idle" /\ Done.step = "done"
    /\ "idle" \notin Steps /\ "done" \notin Steps
  BY DEF Categories, NoRow, Running, Steps, Idle, Done

\* A request under way, by its parts.
LEMMA RunningParts ==
    ASSUME TypeOK, NEW d \in Docs, up[d].step \in Steps
    PROVE  /\ d \in InFlight /\ up[d] \in Running
           /\ up[d].category \in Categories /\ up[d].size \in Sizes
           /\ up[d].nda \subseteq Ndas /\ up[d].first \in BOOLEAN
           /\ [category |-> up[d].category, size |-> up[d].size] \in
                 [category : Categories, size : Sizes]
  <1>1. up[d] \in Running \cup {Idle, Done}
    BY DEF TypeOK
  <1>2. up[d] \in Running
    BY <1>1, RowsDiffer
  <1> QED BY <1>2 DEF InFlight, Running

\* A request goes on: it keeps what it is about, and the others are as they were.
LEMMA Going ==
    ASSUME TypeOK, NEW d \in Docs, up[d].step \in Steps, NEW step \in Steps, Go(d, step)
    PROVE  /\ up' \in [Docs -> Running \cup {Idle, Done}]
           /\ up'[d].step = step /\ up'[d].category = up[d].category
           /\ up'[d].nda = up[d].nda /\ up'[d].first = up[d].first
           /\ \A e \in Docs \ {d} : up'[e] = up[e]
           /\ InFlight' = InFlight
  <1>1. up[d] \in Running /\ d \in InFlight
    BY RunningParts
  <1> DEFINE o == [up[d] EXCEPT !.step = step]
  <1>2. /\ o \in Running /\ o.step = step /\ o.category = up[d].category
        /\ o.nda = up[d].nda /\ o.first = up[d].first
    BY <1>1 DEF Running
  <1>3. up' = [up EXCEPT ![d] = o]
    BY DEF Go
  <1> HIDE DEF o
  <1>4. up'[d] = o /\ \A e \in Docs \ {d} : up'[e] = up[e]
    BY <1>3 DEF TypeOK
  <1>5. up' \in [Docs -> Running \cup {Idle, Done}]
    BY <1>2, <1>3 DEF TypeOK
  <1>6. InFlight' = InFlight
    BY <1>1, <1>2, <1>4 DEF InFlight
  <1> QED BY <1>2, <1>4, <1>5, <1>6

\* A request ends, and the others are as they were.
LEMMA Ending ==
    ASSUME TypeOK, NEW d \in Docs, End(d)
    PROVE  /\ up' \in [Docs -> Running \cup {Idle, Done}]
           /\ up'[d] = Done
           /\ \A e \in Docs \ {d} : up'[e] = up[e]
           /\ InFlight' = InFlight \ {d}
  <1>1. /\ up' \in [Docs -> Running \cup {Idle, Done}]
        /\ up'[d] = Done /\ \A e \in Docs \ {d} : up'[e] = up[e]
    BY DEF End, TypeOK
  <1>2. InFlight' = InFlight \ {d}
    BY <1>1, RowsDiffer DEF InFlight
  <1> QED BY <1>1, <1>2
-----------------------------------------------------------------------------
FilesInv == FilesMatchRows /\ FilesFollowSteps
HoldInv  == CustomerIsHeldAlone /\ NdasAreAsRead /\ GateIsAsRead /\ GateOpensOnce

LEMMA InvParts == DocumentsInv <=> FilesInv /\ HoldInv
  BY DEF DocumentsInv, FilesInv, HoldInv

\* Files and rows after a step, from how each request and each document has changed.
LEMMA FilesKept ==
    ASSUME TypeOK', FilesInv,
           \A d \in Docs :
              /\ up'[d].step \in {"idle", "writing"} => row'[d] = NoRow /\ d \notin final'
              /\ up'[d].step \in {"placed", "inserted"} => row'[d] = NoRow /\ d \in final'
              /\ up'[d].step \in {"stored", "invoicing", "attaching", "stamped"} =>
                    row'[d] # NoRow /\ up'[d].category \in {"invoice", "nda-signed", "nda-audit"}
              /\ up'[d].step \in Steps \ {"writing"} => d \notin temp'
              /\ row'[d] # NoRow => d \in final' \/ d \in lost'.answer
              /\ d \in final' =>
                    row'[d] # NoRow \/ up'[d].step \in Steps
                    \/ d \in lost'.crash \cup lost'.unlink
              /\ d \in temp' =>
                    up'[d].step \in Steps \/ d \in lost'.crash \cup lost'.unlink \cup lost'.write
    PROVE  FilesInv'
  <1>1. FilesFollowSteps'
    BY DEF FilesFollowSteps
  <1>2. RowsHaveFiles' /\ StrayFilesAreExplained'
    BY DEF RowsHaveFiles, StrayFilesAreExplained, Stored, InFlight, TypeOK
  <1> QED BY <1>1, <1>2 DEF FilesInv, FilesMatchRows

\* What that says of the state before, document by document.
LEMMA FileFacts ==
    ASSUME FilesInv, NEW d \in Docs
    PROVE  /\ up[d].step \in {"idle", "writing"} => row[d] = NoRow /\ d \notin final
           /\ up[d].step \in {"placed", "inserted"} => row[d] = NoRow /\ d \in final
           /\ up[d].step \in {"stored", "invoicing", "attaching", "stamped"} =>
                 row[d] # NoRow /\ up[d].category \in {"invoice", "nda-signed", "nda-audit"}
           /\ up[d].step \in Steps \ {"writing"} => d \notin temp
           /\ row[d] # NoRow => d \in final \/ d \in lost.answer
           /\ d \in final =>
                 row[d] # NoRow \/ up[d].step \in Steps \/ d \in lost.crash \cup lost.unlink
           /\ d \in temp =>
                 up[d].step \in Steps \/ d \in lost.crash \cup lost.unlink \cup lost.write
  BY DEF FilesInv, FilesMatchRows, FilesFollowSteps, RowsHaveFiles, StrayFilesAreExplained,
         Stored, InFlight

\* Requests that are over hold nothing.
LEMMA HoldersFewer ==
    ASSUME HoldInv, \A d \in Docs : up'[d] = up[d] \/ up'[d] = Done,
           UNCHANGED <<status, gate, nda, stamps>>
    PROVE  HoldInv'
  <1>1. ASSUME NEW d \in Docs, up'[d].step \in Steps
        PROVE  up'[d] = up[d] /\ d \in InFlight
    BY <1>1, RowsDiffer DEF InFlight
  <1>2. InFlight' \subseteq InFlight
    BY <1>1 DEF InFlight
  <1>3. ASSUME NEW d \in Docs
        PROVE  /\ HoldsCustomer(d)' => HoldsCustomer(d)
               /\ \A n \in Ndas : HoldsNda(d, n)' => HoldsNda(d, n)
               /\ \A n : HoldsNda(d, n)' => HoldsNda(d, n)
    BY <1>1 DEF HoldsCustomer, HoldsNda, Steps
  <1>4. CustomerIsHeldAlone'
    BY <1>1, <1>3 DEF HoldInv, CustomerIsHeldAlone, Steps
  <1>5. GateIsAsRead'
    BY <1>1 DEF HoldInv, GateIsAsRead, Steps
  <1>6. GateOpensOnce'
    BY DEF HoldInv, GateOpensOnce
  <1>7. NdasAreAsRead'
    <2> SUFFICES ASSUME NEW d \in InFlight' PROVE NdaIsAsRead(d)'
      BY DEF NdasAreAsRead
    <2>1. d \in Docs /\ up'[d] = up[d] /\ d \in InFlight
      BY <1>1 DEF InFlight
    <2>2. \A e \in InFlight' \ {d} : up'[e] = up[e]
      BY <1>1 DEF InFlight
    <2> QED BY <1>2, <1>3, <2>1, <2>2 DEF HoldInv, NdasAreAsRead, NdaIsAsRead
  <1> QED BY <1>4, <1>5, <1>6, <1>7 DEF HoldInv
-----------------------------------------------------------------------------
LEMMA InitInv == Init => DocumentsInv
  <1> SUFFICES ASSUME Init PROVE DocumentsInv
    OBVIOUS
  <1>1. \A d \in Docs : up[d] = Idle /\ row[d] = NoRow /\ up[d].step = "idle"
    BY RowsDiffer DEF Init
  <1>2. InFlight = {}
    BY <1>1, RowsDiffer DEF InFlight
  <1>3. TypeOK
    <2>1. lost \in [{"crash", "write", "unlink", "answer"} -> SUBSET Docs]
      BY DEF Init
    <2>2. NoNda \in [Slots -> SUBSET Docs]
      BY DEF NoNda
    <2> QED BY <2>1, <2>2 DEF Init, TypeOK
  <1>4. FilesMatchRows
    BY <1>1, <1>3 DEF Init, FilesMatchRows, RowsHaveFiles, StrayFilesAreExplained, Stored
  <1>5. FilesFollowSteps
    BY <1>1 DEF Init, FilesFollowSteps, Steps
  <1>6. CustomerIsHeldAlone /\ NdasAreAsRead /\ GateIsAsRead
    BY <1>1, <1>2 DEF CustomerIsHeldAlone, NdasAreAsRead, GateIsAsRead, HoldsCustomer
  <1>7. GateOpensOnce
    BY DEF Init, GateOpensOnce, NoNda, Slots
  <1> QED BY <1>4, <1>5, <1>6, <1>7 DEF DocumentsInv

\* A request that is begun.
LEMMA Beginning ==
    ASSUME TypeOK, NEW d \in Docs, NEW category \in Categories, NEW size \in Sizes,
           Begin(d, category, size)
    PROVE  /\ up' \in [Docs -> Running \cup {Idle, Done}]
           /\ up[d] = Idle
           /\ up'[d].step = "writing" /\ up'[d].category = category
           /\ up'[d].nda \in For(category) /\ ~up'[d].first
           /\ \A e \in Docs \ {d} : up'[e] = up[e]
           /\ InFlight' = InFlight \cup {d}
  <1>1. PICK n \in For(category) :
          up' = [up EXCEPT ![d] = [step |-> "writing", category |-> category,
                                   size |-> size, nda |-> n, first |-> FALSE]]
    BY DEF Begin
  <1> DEFINE o == [step |-> "writing", category |-> category,
                   size |-> size, nda |-> n, first |-> FALSE]
  <1>2. n \subseteq Ndas
    BY DEF For, Categories
  <1>3. /\ o \in Running /\ o.step = "writing" /\ o.category = category
        /\ o.nda = n /\ ~o.first
    BY <1>2 DEF Running, Steps
  <1>4. up' = [up EXCEPT ![d] = o]
    BY <1>1
  <1> HIDE DEF o
  <1>5. up'[d] = o /\ \A e \in Docs \ {d} : up'[e] = up[e]
    BY <1>4 DEF TypeOK
  <1>6. up' \in [Docs -> Running \cup {Idle, Done}]
    BY <1>3, <1>4 DEF TypeOK
  <1>7. InFlight' = InFlight \cup {d}
    BY <1>3, <1>5 DEF InFlight, Steps
  <1> QED BY <1>1, <1>3, <1>5, <1>6, <1>7 DEF Begin

\* A row that is committed, with the NDA of a draft.
LEMMA Storing ==
    ASSUME TypeOK, NEW d \in Docs, up[d].step = "inserted", Store(d)
    PROVE  /\ row' \in [Docs -> {NoRow} \cup [category : Categories, size : Sizes]]
           /\ nda' \in [Ndas -> [Slots -> SUBSET Docs]]
           /\ row'[d] # NoRow /\ \A e \in Docs \ {d} : row'[e] = row[e]
  <1>1. [category |-> up[d].category, size |-> up[d].size] \in
            [category : Categories, size : Sizes]
    BY RunningParts DEF Steps
  <1> DEFINE o == [category |-> up[d].category, size |-> up[d].size]
  <1>2. o \in [category : Categories, size : Sizes] /\ o # NoRow
    BY <1>1, RowsDiffer
  <1>3. row' = [row EXCEPT ![d] = o]
    BY DEF Store
  <1> HIDE DEF o
  <1>4. [NoNda EXCEPT !["draft"] = {d}] \in [Slots -> SUBSET Docs]
    BY DEF NoNda
  <1>5. nda' \in [Ndas -> [Slots -> SUBSET Docs]]
    BY <1>4 DEF Store, TypeOK
  <1> QED BY <1>2, <1>3, <1>5 DEF TypeOK

\* A request that stamps the customer or finds the stamp.
LEMMA Stamping ==
    ASSUME TypeOK, NEW d \in Docs, Stamp(d)
    PROVE  /\ up' \in [Docs -> Running \cup {Idle, Done}]
           /\ up'[d].step = "stamped" /\ up'[d].category = up[d].category
           /\ up'[d].nda = up[d].nda
           /\ up'[d].first = (up[d].category = "nda-signed" /\ ~gate)
           /\ \A e \in Docs \ {d} : up'[e] = up[e]
           /\ InFlight' = InFlight
  <1>1. up[d] \in Running /\ d \in InFlight
    BY RunningParts DEF Stamp, Steps
  <1> DEFINE first == up[d].category = "nda-signed" /\ ~gate
             o == [up[d] EXCEPT !.step = "stamped", !.first = first]
  <1>2. /\ o \in Running /\ o.step = "stamped" /\ o.category = up[d].category
        /\ o.nda = up[d].nda /\ o.first = first
    BY <1>1 DEF Running, Steps
  <1>3. up' = [up EXCEPT ![d] = o]
    BY DEF Stamp
  <1> HIDE DEF o
  <1>4. up'[d] = o /\ \A e \in Docs \ {d} : up'[e] = up[e]
    BY <1>3 DEF TypeOK
  <1>5. up' \in [Docs -> Running \cup {Idle, Done}]
    BY <1>2, <1>3 DEF TypeOK
  <1>6. InFlight' = InFlight
    BY <1>1, <1>2, <1>4 DEF InFlight, Steps
  <1> QED BY <1>2, <1>4, <1>5, <1>6
-----------------------------------------------------------------------------
LEMMA TypeNext == TypeOK /\ [Next]_vars => TypeOK'
  <1> SUFFICES ASSUME TypeOK, [Next]_vars PROVE TypeOK'
    OBVIOUS
  <1>1. ASSUME NEW s \in {"active", "suspended"}, SetStatus(s) PROVE TypeOK'
    BY <1>1 DEF SetStatus, TypeOK, tables, disk
  <1>2. ASSUME NEW d \in Docs, NEW category \in Categories, NEW size \in Sizes,
               Begin(d, category, size)
        PROVE  TypeOK'
    <2>1. up' \in [Docs -> Running \cup {Idle, Done}]
      BY <1>2, Beginning
    <2> QED BY <1>2, <2>1 DEF Begin, TypeOK, tables
  <1>3. ASSUME NEW d \in Docs, Place(d) PROVE TypeOK'
    <2>1. up' \in [Docs -> Running \cup {Idle, Done}]
      BY <1>3, Going DEF Place, Steps
    <2> QED BY <1>3, <2>1 DEF Place, TypeOK, tables
  <1>4. ASSUME NEW d \in Docs, NEW step \in Steps, up[d].step \in Steps, Go(d, step),
               UNCHANGED <<status, gate, tables, disk, stamps, lost>>
        PROVE  TypeOK'
    <2>1. up' \in [Docs -> Running \cup {Idle, Done}]
      BY <1>4, Going
    <2> QED BY <1>4, <2>1 DEF TypeOK, tables, disk
  <1>5. ASSUME NEW d \in Docs, Commit(d) PROVE TypeOK'
    <2>1. up' \in [Docs -> Running \cup {Idle, Done}]
      BY <1>5, Going, Ending DEF Commit, Steps
    <2>2. /\ row' \in [Docs -> {NoRow} \cup [category : Categories, size : Sizes]]
          /\ nda' \in [Ndas -> [Slots -> SUBSET Docs]]
      BY <1>5, Storing DEF Commit
    <2> QED BY <1>5, <2>1, <2>2 DEF Commit, Store, TypeOK, disk
  <1>6. ASSUME NEW d \in Docs, CommitUnanswered(d) PROVE TypeOK'
    <2>1. up' \in [Docs -> Running \cup {Idle, Done}]
      BY <1>6, Ending DEF CommitUnanswered
    <2>2. /\ row' \in [Docs -> {NoRow} \cup [category : Categories, size : Sizes]]
          /\ nda' \in [Ndas -> [Slots -> SUBSET Docs]]
      BY <1>6, Storing DEF CommitUnanswered
    <2>3. lost' \in [{"crash", "write", "unlink", "answer"} -> SUBSET Docs]
      BY <1>6 DEF CommitUnanswered, TypeOK
    <2>4. final' \subseteq Docs
      BY <1>6 DEF CommitUnanswered, TypeOK
    <2> QED BY <1>6, <2>1, <2>2, <2>3, <2>4 DEF CommitUnanswered, Store, TypeOK
  <1>7. ASSUME NEW d \in Docs, Fail(d) PROVE TypeOK'
    <2>1. up' \in [Docs -> Running \cup {Idle, Done}]
      BY <1>7, Ending DEF Fail
    <2> QED BY <1>7, <2>1 DEF Fail, TypeOK, tables
  <1>8. ASSUME NEW d \in Docs, DraftWriteFails(d) PROVE TypeOK'
    <2>1. up' \in [Docs -> Running \cup {Idle, Done}]
      BY <1>8, Ending DEF DraftWriteFails
    <2>2. lost' \in [{"crash", "write", "unlink", "answer"} -> SUBSET Docs]
      BY <1>8 DEF DraftWriteFails, TypeOK
    <2> QED BY <1>8, <2>1, <2>2 DEF DraftWriteFails, TypeOK, tables, disk
  <1>9. ASSUME NEW d \in Docs, CommitInvoice(d) PROVE TypeOK'
    <2>1. up' \in [Docs -> Running \cup {Idle, Done}]
      BY <1>9, Ending DEF CommitInvoice
    <2> QED BY <1>9, <2>1 DEF CommitInvoice, TypeOK, disk
  <1>10. ASSUME NEW d \in Docs, Stamp(d) PROVE TypeOK'
    <2>1. up' \in [Docs -> Running \cup {Idle, Done}]
      BY <1>10, Stamping
    <2> QED BY <1>10, <2>1 DEF Stamp, TypeOK, tables, disk
  <1>11. ASSUME NEW d \in Docs, CommitAttach(d) PROVE TypeOK'
    <2>1. up' \in [Docs -> Running \cup {Idle, Done}]
      BY <1>11, Ending DEF CommitAttach
    <2>2. up[d].first \in BOOLEAN
      BY <1>11, RunningParts DEF CommitAttach, Steps
    <2>3. nda' \in [Ndas -> [Slots -> SUBSET Docs]]
      BY <1>11 DEF CommitAttach, TypeOK
    <2>4. gate' \in BOOLEAN /\ stamps' \in Nat
      BY <1>11, <2>2 DEF CommitAttach, TypeOK
    <2> QED BY <1>11, <2>1, <2>3, <2>4 DEF CommitAttach, TypeOK, disk
  <1>12. ASSUME Crash PROVE TypeOK'
    <2>1. up' \in [Docs -> Running \cup {Idle, Done}]
      BY <1>12 DEF Crash, TypeOK
    <2>2. lost' \in [{"crash", "write", "unlink", "answer"} -> SUBSET Docs]
      BY <1>12 DEF Crash, TypeOK, InFlight
    <2> QED BY <1>12, <2>1, <2>2 DEF Crash, TypeOK, tables, disk
  <1>13. ASSUME NEW d \in Docs, Insert(d) \/ Invoice(d) \/ Attach(d) PROVE TypeOK'
    BY <1>4, <1>13 DEF Insert, Invoice, Attach, Steps
  <1>14. ASSUME UNCHANGED vars PROVE TypeOK'
    BY <1>14 DEF vars, tables, disk, TypeOK
  <1>15. ASSUME NEW d \in Docs, UnlinkFails(d) PROVE TypeOK'
    <2>1. up' \in [Docs -> Running \cup {Idle, Done}]
      BY <1>15, Ending DEF UnlinkFails
    <2>2. lost' \in [{"crash", "write", "unlink", "answer"} -> SUBSET Docs]
      BY <1>15 DEF UnlinkFails, TypeOK
    <2> QED BY <1>15, <2>1, <2>2 DEF UnlinkFails, TypeOK, tables, disk
  <1> QED BY <1>1, <1>2, <1>3, <1>5, <1>6, <1>7, <1>8, <1>9, <1>10, <1>11, <1>12,
             <1>13, <1>14, <1>15 DEF Next
-----------------------------------------------------------------------------
\* What a step keeps of files and rows when it leaves both alone and takes one request
\* on: to a step that asks no more of them.
LEMMA FilesWithin ==
    ASSUME TypeOK', FilesInv, NEW d \in Docs,
           UNCHANGED <<row, temp, final, lost>>,
           \A e \in Docs \ {d} : up'[e] = up[e],
           \/ /\ up[d].step = "placed" /\ up'[d].step = "inserted"
           \/ /\ up[d].step \in {"stored", "invoicing", "attaching"}
              /\ up'[d].step \in {"stored", "invoicing", "attaching", "stamped"}
              /\ up'[d].category = up[d].category
           \/ up[d].step \in {"invoicing", "stamped"} /\ up'[d] = Done
    PROVE  FilesInv'
  <1>1. CASE up[d].step = "placed" /\ up'[d].step = "inserted"
    BY <1>1, FileFacts, FilesKept DEF Steps
  <1>2. CASE /\ up[d].step \in {"stored", "invoicing", "attaching"}
             /\ up'[d].step \in {"stored", "invoicing", "attaching", "stamped"}
             /\ up'[d].category = up[d].category
    BY <1>2, FileFacts, FilesKept DEF Steps
  <1>3. CASE up[d].step \in {"invoicing", "stamped"} /\ up'[d] = Done
    <2>1. up'[d].step = "done"
      BY <1>3, RowsDiffer
    <2> QED BY <1>3, <2>1, FileFacts, FilesKept DEF Steps
  <1> QED BY <1>1, <1>2, <1>3

LEMMA FilesNext == TypeOK /\ FilesInv /\ [Next]_vars => FilesInv'
  <1> SUFFICES ASSUME TypeOK, FilesInv, [Next]_vars PROVE FilesInv'
    OBVIOUS
  <1>0. TypeOK'
    BY TypeNext
  <1>1. ASSUME UNCHANGED <<row, temp, final, up, lost>> PROVE FilesInv'
    BY <1>0, <1>1, FileFacts, FilesKept
  <1>2. ASSUME NEW d \in Docs, NEW category \in Categories, NEW size \in Sizes,
               Begin(d, category, size)
        PROVE  FilesInv'
    <2>1. /\ up[d].step = "idle" /\ up'[d].step = "writing"
          /\ \A e \in Docs \ {d} : up'[e] = up[e]
      BY <1>2, Beginning, RowsDiffer
    <2>2. temp' = temp \cup {d} /\ UNCHANGED <<row, final, lost>>
      BY <1>2 DEF Begin, tables
    <2> QED BY <1>0, <2>1, <2>2, FileFacts, FilesKept DEF Steps
  <1>3. ASSUME NEW d \in Docs, Place(d) PROVE FilesInv'
    <2>1. /\ up[d].step = "writing" /\ up'[d].step = "placed"
          /\ \A e \in Docs \ {d} : up'[e] = up[e]
      BY <1>3, Going DEF Place, Steps
    <2>2. temp' = temp \ {d} /\ final' = final \cup {d} /\ UNCHANGED <<row, lost>>
      BY <1>3 DEF Place, tables
    <2> QED BY <1>0, <2>1, <2>2, FileFacts, FilesKept DEF Steps
  <1>4. ASSUME NEW d \in Docs, Insert(d) PROVE FilesInv'
    <2>1. /\ up[d].step = "placed" /\ up'[d].step = "inserted"
          /\ \A e \in Docs \ {d} : up'[e] = up[e]
      BY <1>4, Going DEF Insert, Steps
    <2>2. UNCHANGED <<row, temp, final, lost>>
      BY <1>4 DEF Insert, tables, disk
    <2> QED BY <1>0, <2>1, <2>2, FilesWithin
  <1>5. ASSUME NEW d \in Docs, Commit(d) PROVE FilesInv'
    <2>1. up[d].step = "inserted" /\ UNCHANGED <<temp, final, lost>>
      BY <1>5 DEF Commit, disk
    <2>2. row'[d] # NoRow /\ \A e \in Docs \ {d} : row'[e] = row[e]
      BY <1>5, Storing DEF Commit
    <2>3. up[d].category \in Categories
      BY <2>1, RunningParts DEF Steps
    <2>4. /\ \A e \in Docs \ {d} : up'[e] = up[e]
          /\ \/ up'[d].step = "done"
             \/ /\ up'[d].step = "stored"
                /\ up'[d].category \in {"invoice", "nda-signed", "nda-audit"}
      BY <1>5, <2>1, <2>3, Going, Ending, RowsDiffer DEF Commit, Steps, Categories
    <2> QED BY <1>0, <2>1, <2>2, <2>4, FileFacts, FilesKept DEF Steps
  <1>6. ASSUME NEW d \in Docs, CommitUnanswered(d) PROVE FilesInv'
    <2>1. /\ up[d].step = "inserted" /\ temp' = temp
          /\ final' = final \ {d} \/ final' = final
          /\ lost'.answer = lost.answer \cup {d} /\ lost'.crash = lost.crash
          /\ lost'.write = lost.write /\ lost'.unlink = lost.unlink
      BY <1>6 DEF CommitUnanswered, TypeOK
    <2>2. row'[d] # NoRow /\ \A e \in Docs \ {d} : row'[e] = row[e]
      BY <1>6, Storing DEF CommitUnanswered
    <2>3. up'[d].step = "done" /\ \A e \in Docs \ {d} : up'[e] = up[e]
      BY <1>6, Ending, RowsDiffer DEF CommitUnanswered
    <2> QED BY <1>0, <2>1, <2>2, <2>3, FileFacts, FilesKept DEF Steps
  <1>7. ASSUME NEW d \in Docs, Fail(d) PROVE FilesInv'
    <2>1. /\ up[d].step \in Steps /\ temp' = temp \ {d} /\ UNCHANGED <<row, lost>>
          /\ final' = IF up[d].step \in {"placed", "inserted"} THEN final \ {d} ELSE final
      BY <1>7 DEF Fail, InFlight, tables
    <2>2. up'[d].step = "done" /\ \A e \in Docs \ {d} : up'[e] = up[e]
      BY <1>7, Ending, RowsDiffer DEF Fail
    <2> QED BY <1>0, <2>1, <2>2, FileFacts, FilesKept DEF Steps
  <1>8. ASSUME NEW d \in Docs, DraftWriteFails(d) PROVE FilesInv'
    <2>1. /\ up[d].step = "writing" /\ UNCHANGED <<row, temp, final>>
          /\ lost'.write = lost.write \cup {d} /\ lost'.crash = lost.crash
          /\ lost'.answer = lost.answer /\ lost'.unlink = lost.unlink
      BY <1>8 DEF DraftWriteFails, TypeOK, tables, disk
    <2>2. up'[d].step = "done" /\ \A e \in Docs \ {d} : up'[e] = up[e]
      BY <1>8, Ending, RowsDiffer DEF DraftWriteFails
    <2> QED BY <1>0, <2>1, <2>2, FileFacts, FilesKept DEF Steps
  <1>9. ASSUME Crash PROVE FilesInv'
    <2>1. /\ UNCHANGED <<row, temp, final>> /\ lost'.crash = lost.crash \cup InFlight
          /\ lost'.write = lost.write /\ lost'.answer = lost.answer
          /\ lost'.unlink = lost.unlink
      BY <1>9 DEF Crash, TypeOK, tables, disk
    <2>2. \A d \in Docs : IF up[d].step \in Steps THEN up'[d].step = "done" /\ d \in InFlight
                          ELSE up'[d] = up[d]
      BY <1>9, RowsDiffer DEF Crash, InFlight
    <2> QED BY <1>0, <2>1, <2>2, FileFacts, FilesKept DEF Steps
  <1>10. ASSUME NEW d \in Docs, Invoice(d) \/ Attach(d) PROVE FilesInv'
    <2>1. /\ up[d].step = "stored" /\ up'[d].step \in {"invoicing", "attaching"}
          /\ up'[d].category = up[d].category
          /\ \A e \in Docs \ {d} : up'[e] = up[e]
      BY <1>10, Going DEF Invoice, Attach, Steps
    <2>2. UNCHANGED <<row, temp, final, lost>>
      BY <1>10 DEF Invoice, Attach, tables, disk
    <2> QED BY <1>0, <2>1, <2>2, FilesWithin
  <1>11. ASSUME NEW d \in Docs, Stamp(d) PROVE FilesInv'
    <2>1. /\ up[d].step = "attaching" /\ up'[d].step = "stamped"
          /\ up'[d].category = up[d].category
          /\ \A e \in Docs \ {d} : up'[e] = up[e]
      BY <1>11, Stamping DEF Stamp
    <2>2. UNCHANGED <<row, temp, final, lost>>
      BY <1>11 DEF Stamp, tables, disk
    <2> QED BY <1>0, <2>1, <2>2, FilesWithin
  <1>12. ASSUME NEW d \in Docs, CommitInvoice(d) \/ CommitAttach(d) PROVE FilesInv'
    <2>1. /\ up[d].step \in {"invoicing", "stamped"} /\ up'[d] = Done
          /\ \A e \in Docs \ {d} : up'[e] = up[e]
      BY <1>12, Ending DEF CommitInvoice, CommitAttach
    <2>2. UNCHANGED <<row, temp, final, lost>>
      BY <1>12 DEF CommitInvoice, CommitAttach, tables, disk
    <2> QED BY <1>0, <2>1, <2>2, FilesWithin
  <1>13. ASSUME NEW d \in Docs, UnlinkFails(d) PROVE FilesInv'
    <2>1. /\ up[d].step \in Steps /\ UNCHANGED <<row, temp, final>>
          /\ lost'.unlink = lost.unlink \cup {d} /\ lost'.crash = lost.crash
          /\ lost'.write = lost.write /\ lost'.answer = lost.answer
      BY <1>13 DEF UnlinkFails, TypeOK, Steps, tables, disk
    <2>2. up'[d].step = "done" /\ \A e \in Docs \ {d} : up'[e] = up[e]
      BY <1>13, Ending, RowsDiffer DEF UnlinkFails
    <2> QED BY <1>0, <2>1, <2>2, FileFacts, FilesKept DEF Steps
  <1> QED BY <1>1, <1>2, <1>3, <1>4, <1>5, <1>6, <1>7, <1>8, <1>9, <1>10, <1>11, <1>12, <1>13
          DEF Next, SetStatus, vars, tables, disk
-----------------------------------------------------------------------------
\* The customer is held alone when no request takes the row, and when one takes it that
\* nobody held.
LEMMA CustomerKept ==
    ASSUME CustomerIsHeldAlone, status' = status,
           \A e \in Docs : HoldsCustomer(e)' => HoldsCustomer(e),
           \A e \in Docs : up'[e].step \in {"inserted", "invoicing"} =>
              up[e].step \in {"inserted", "invoicing"}
    PROVE  CustomerIsHeldAlone'
  BY DEF CustomerIsHeldAlone

LEMMA CustomerTaken ==
    ASSUME ~CustomerLocked, NEW d \in Docs, status' = status,
           \A e \in Docs \ {d} : up'[e] = up[e],
           up'[d].step \in {"inserted", "invoicing"} => status = "active"
    PROVE  CustomerIsHeldAlone'
  <1>1. \A e \in Docs \ {d} : ~HoldsCustomer(e)' /\ up'[e].step \notin {"inserted", "invoicing"}
    BY DEF CustomerLocked, HoldsCustomer
  <1> QED BY <1>1 DEF CustomerIsHeldAlone

\* What was read of the NDAs holds as long as they, and who holds them, are as they were.
LEMMA NdasKept ==
    ASSUME NdasAreAsRead, nda' = nda, InFlight' = InFlight,
           \A e \in Docs :
              \/ up'[e] = up[e]
              \/ /\ up'[e].category = up[e].category /\ up'[e].nda = up[e].nda
                 /\ up'[e].step \in {"attaching", "stamped"} <=>
                       up[e].step \in {"attaching", "stamped"}
    PROVE  NdasAreAsRead'
  <1>1. ASSUME NEW e \in Docs
        PROVE  /\ up'[e].category = up[e].category /\ up'[e].nda = up[e].nda
               /\ up'[e].step \in {"attaching", "stamped"} <=>
                     up[e].step \in {"attaching", "stamped"}
               /\ \A n : HoldsNda(e, n)' <=> HoldsNda(e, n)
    BY <1>1 DEF HoldsNda
  <1> SUFFICES ASSUME NEW d \in InFlight PROVE NdaIsAsRead(d)'
    BY DEF NdasAreAsRead
  <1>2. \A e \in InFlight : e \in Docs
    BY DEF InFlight
  <1>3. NdaIsAsRead(d)
    BY DEF NdasAreAsRead
  <1> QED BY <1>1, <1>2, <1>3 DEF NdaIsAsRead

\* ... and when a request ends that has changed NDAs the others do not build on.
LEMMA NdasChanged ==
    ASSUME NdasAreAsRead, NEW d \in Docs, InFlight' = InFlight \ {d},
           up'[d] = Done, \A e \in Docs \ {d} : up'[e] = up[e],
           \A e \in InFlight \ {d} : \A n \in up[e].nda :
              (up[e].category = "nda-draft" \/ HoldsNda(e, n)) => nda'[n] = nda[n]
    PROVE  NdasAreAsRead'
  <1>1. \A e \in InFlight : e \in Docs
    BY DEF InFlight
  <1>2. ASSUME NEW e \in Docs \ {d} PROVE \A n : HoldsNda(e, n)' <=> HoldsNda(e, n)
    BY <1>2 DEF HoldsNda
  <1>3. \A n : ~HoldsNda(d, n)'
    BY RowsDiffer DEF HoldsNda, Steps
  <1> SUFFICES ASSUME NEW e \in InFlight \ {d} PROVE NdaIsAsRead(e)'
    BY DEF NdasAreAsRead
  <1>4. NdaIsAsRead(e) /\ e \in Docs \ {d} /\ up'[e] = up[e]
    BY <1>1 DEF NdasAreAsRead
  <1> QED BY <1>1, <1>2, <1>3, <1>4 DEF NdaIsAsRead
-----------------------------------------------------------------------------
\* The steps of one request, each with what it does to the holders.
LEMMA HoldStatus ==
    ASSUME HoldInv, NEW s, SetStatus(s)
    PROVE  HoldInv'
  <1>1. CustomerIsHeldAlone'
    BY DEF SetStatus, CustomerLocked, CustomerIsHeldAlone, HoldsCustomer
  <1>2. NdasAreAsRead'
    <2>1. UNCHANGED <<up, nda>> /\ InFlight' = InFlight
      BY DEF SetStatus, tables, InFlight
    <2> QED BY <2>1, NdasKept DEF HoldInv
  <1>3. GateIsAsRead' /\ GateOpensOnce'
    BY DEF HoldInv, GateIsAsRead, GateOpensOnce, SetStatus, tables
  <1> QED BY <1>1, <1>2, <1>3 DEF HoldInv

LEMMA HoldBegin ==
    ASSUME TypeOK, HoldInv, NEW d \in Docs, NEW category \in Categories,
           NEW size \in Sizes, Begin(d, category, size)
    PROVE  HoldInv'
  <1>1. /\ up'[d].step = "writing" /\ up'[d].category = category
        /\ up'[d].nda \in For(category)
        /\ \A e \in Docs \ {d} : up'[e] = up[e]
        /\ up[d] = Idle
        /\ InFlight' = InFlight \cup {d}
    BY Beginning
  <1>2. UNCHANGED <<status, gate, nda, stamps>>
    BY DEF Begin, tables
  <1>3. CustomerIsHeldAlone'
    BY <1>1, <1>2, CustomerKept DEF HoldInv, HoldsCustomer
  <1>4. GateIsAsRead' /\ GateOpensOnce'
    BY <1>1, <1>2 DEF HoldInv, GateIsAsRead, GateOpensOnce
  <1>5. d \notin InFlight /\ \A e \in InFlight : e \in Docs
    BY <1>1, RowsDiffer DEF InFlight
  <1>6. /\ \A n : ~HoldsNda(d, n)'
        /\ \A e \in Docs \ {d} : \A n : HoldsNda(e, n)' <=> HoldsNda(e, n)
    BY <1>1 DEF HoldsNda
  <1>7. NdaIsAsRead(d)'
    <2>1. \A e \in InFlight' \ {d} : up'[e] = up[e] /\ e \in InFlight
      BY <1>1, <1>5
    <2>2. CASE category = "nda-draft"
      <3>1. PICK n \in Ndas : /\ up'[d].nda = {n} /\ nda[n] = NoNda
                              /\ \A e \in InFlight : n \notin up[e].nda
        BY <1>1, <2>2 DEF For
      <3> QED BY <1>1, <1>2, <1>6, <2>1, <2>2, <3>1 DEF NdaIsAsRead
    <2>3. CASE category \in {"nda-signed", "nda-audit"}
      <3>1. PICK n \in Ndas : up'[d].nda = {n}
        BY <1>1, <2>3 DEF For
      <3> QED BY <1>1, <1>6, <2>3, <3>1 DEF NdaIsAsRead
    <2>4. CASE category \in {"plain", "invoice"}
      <3>1. up'[d].nda = {}
        BY <1>1, <2>4 DEF For
      <3> QED BY <1>1, <1>6, <2>4, <3>1 DEF NdaIsAsRead
    <2> QED BY <2>2, <2>3, <2>4 DEF Categories
  <1>8. ASSUME NEW e \in InFlight PROVE NdaIsAsRead(e)'
    <2>1. NdaIsAsRead(e) /\ e \in Docs \ {d} /\ up'[e] = up[e]
      BY <1>1, <1>5, <1>8 DEF HoldInv, NdasAreAsRead
    <2>2. ASSUME up[e].category = "nda-draft", NEW n \in up[e].nda PROVE n \notin up'[d].nda
      <3>1. nda[n] = NoNda
        BY <2>1, <2>2 DEF NdaIsAsRead
      <3> QED BY <1>1, <1>8, <2>2, <3>1 DEF For, Categories
    <2> QED BY <1>1, <1>2, <1>5, <1>6, <2>1, <2>2 DEF NdaIsAsRead
  <1>9. NdasAreAsRead'
    BY <1>1, <1>7, <1>8 DEF NdasAreAsRead
  <1> QED BY <1>3, <1>4, <1>9 DEF HoldInv

LEMMA HoldGo ==
    ASSUME TypeOK, HoldInv, NEW d \in Docs,
           Place(d) \/ Insert(d) \/ Invoice(d)
    PROVE  HoldInv'
  <1>1. /\ up[d].step \in Steps \ {"attaching", "stamped"}
        /\ up'[d].step \in {"placed", "inserted", "invoicing"}
        /\ up'[d].category = up[d].category /\ up'[d].nda = up[d].nda
        /\ \A e \in Docs \ {d} : up'[e] = up[e]
        /\ InFlight' = InFlight
    BY Going DEF Place, Insert, Invoice, Steps
  <1>2. UNCHANGED <<status, gate, nda, stamps>>
    BY DEF Place, Insert, Invoice, tables
  <1>3. CustomerIsHeldAlone'
    <2>1. CASE Place(d)
      <3>1. up'[d].step = "placed"
        BY <2>1, Going DEF Place, Steps
      <3> QED BY <1>1, <1>2, <3>1, CustomerKept DEF HoldInv, HoldsCustomer
    <2>2. CASE Insert(d) \/ Invoice(d)
      BY <1>1, <1>2, <2>2, CustomerTaken DEF Insert, Invoice
    <2> QED BY <2>1, <2>2
  <1>4. NdasAreAsRead'
    BY <1>1, <1>2, NdasKept DEF HoldInv
  <1>5. GateIsAsRead' /\ GateOpensOnce'
    BY <1>1, <1>2 DEF HoldInv, GateIsAsRead, GateOpensOnce
  <1> QED BY <1>3, <1>4, <1>5 DEF HoldInv

LEMMA HoldStore ==
    ASSUME TypeOK, FilesInv, HoldInv, NEW d \in Docs, Commit(d) \/ CommitUnanswered(d)
    PROVE  HoldInv'
  <1>1. /\ up[d].step = "inserted" /\ up[d].step \in Steps /\ d \in InFlight
        /\ up[d].category \in Categories /\ Store(d)
        /\ UNCHANGED <<status, gate, stamps>>
    BY RunningParts DEF Commit, CommitUnanswered, Store, Steps
  <1>2. CASE Go(d, "stored") /\ up[d].category # "nda-draft"
    <2>1. /\ up'[d].step = "stored"
          /\ up'[d].category = up[d].category /\ up'[d].nda = up[d].nda
          /\ \A e \in Docs \ {d} : up'[e] = up[e]
      BY <1>1, <1>2, Going DEF Steps
    <2>2. nda' = nda
      BY <1>1, <1>2 DEF Store, TypeOK
    <2>3. CustomerIsHeldAlone'
      BY <1>1, <2>1, CustomerKept DEF HoldInv, HoldsCustomer
    <2>4. InFlight' = InFlight
      BY <1>1, <1>2, Going DEF Steps
    <2>5. NdasAreAsRead'
      BY <1>1, <2>1, <2>2, <2>4, NdasKept DEF HoldInv
    <2> QED BY <1>1, <2>1, <2>2, <2>3, <2>5 DEF HoldInv, GateIsAsRead, GateOpensOnce
  <1>3. CASE End(d)
    <2>1. /\ up'[d] = Done /\ \A e \in Docs \ {d} : up'[e] = up[e]
          /\ InFlight' = InFlight \ {d}
      BY <1>3, Ending
    <2>2. CASE up[d].category # "nda-draft"
      <3>1. nda' = nda
        BY <1>1, <2>2 DEF Store, TypeOK
      <3> QED BY <1>1, <2>1, <3>1, HoldersFewer
    <2>3. CASE up[d].category = "nda-draft"
      <3>1. NdaIsAsRead(d)
        BY <1>1 DEF HoldInv, NdasAreAsRead
      <3>2. ASSUME NEW n \in Ndas
            PROVE  /\ n \notin up[d].nda => nda'[n] = nda[n]
                   /\ nda'[n]["signed"] = {} <=> nda[n]["signed"] = {}
        <4>1. CASE n \notin up[d].nda
          BY <1>1, <4>1 DEF Store
        <4>2. CASE n \in up[d].nda
          <5>1. nda[n] = NoNda /\ nda'[n] = [NoNda EXCEPT !["draft"] = {d}]
            BY <1>1, <2>3, <3>1, <4>2 DEF NdaIsAsRead, Store
          <5> QED BY <4>2, <5>1 DEF NoNda, Slots
        <4> QED BY <4>1, <4>2
      <3>3. up'[d].step = "done"
        BY <2>1, RowsDiffer
      <3>4. CustomerIsHeldAlone'
        BY <1>1, <2>1, <3>3, CustomerKept DEF HoldInv, HoldsCustomer
      <3>5. NdasAreAsRead'
        <4>1. ASSUME NEW e \in InFlight \ {d}, NEW n \in up[e].nda PROVE nda'[n] = nda[n]
          <5>1. n \in Ndas
            BY <4>1, RunningParts DEF InFlight
          <5>2. n \notin up[d].nda
            BY <2>3, <3>1, <4>1 DEF NdaIsAsRead
          <5> QED BY <3>2, <5>1, <5>2
        <4> QED BY <2>1, <4>1, NdasChanged DEF HoldInv
      <3>6. GateIsAsRead'
        BY <1>1, <2>1, <3>3 DEF HoldInv, GateIsAsRead
      <3>7. GateOpensOnce'
        BY <1>1, <3>2 DEF HoldInv, GateOpensOnce
      <3> QED BY <3>4, <3>5, <3>6, <3>7 DEF HoldInv
    <2> QED BY <2>2, <2>3
  <1> QED BY <1>2, <1>3 DEF Commit, CommitUnanswered

LEMMA HoldEnd ==
    ASSUME TypeOK, HoldInv, NEW d \in Docs,
           Fail(d) \/ UnlinkFails(d) \/ DraftWriteFails(d) \/ CommitInvoice(d)
    PROVE  HoldInv'
  <1>1. \A e \in Docs : up'[e] = up[e] \/ up'[e] = Done
    BY Ending DEF Fail, UnlinkFails, DraftWriteFails, CommitInvoice
  <1>2. UNCHANGED <<status, gate, nda, stamps>>
    BY DEF Fail, UnlinkFails, DraftWriteFails, CommitInvoice, tables
  <1> QED BY <1>1, <1>2, HoldersFewer

LEMMA HoldAttach ==
    ASSUME TypeOK, HoldInv, NEW d \in Docs, Attach(d)
    PROVE  HoldInv'
  <1>1. /\ up[d].step = "stored" /\ up[d].step \in Steps /\ d \in InFlight
        /\ up[d].nda \subseteq Ndas
    BY RunningParts DEF Attach, Steps
  <1>2. /\ up'[d].step = "attaching"
        /\ up'[d].category = up[d].category /\ up'[d].nda = up[d].nda
        /\ \A e \in Docs \ {d} : up'[e] = up[e]
    BY <1>1, Going DEF Attach, Steps
  <1>3. InFlight' = InFlight
    BY <1>1, Going DEF Attach, Steps
  <1>4. UNCHANGED <<status, gate, nda, stamps>>
    BY DEF Attach, tables
  <1>5. PICK n \in up[d].nda : nda[n][SlotOf(up[d].category)] = {} /\ ~NdaLocked(n)
    BY DEF Attach
  <1>6. NdaIsAsRead(d) /\ \A m \in up[d].nda : m = n
    BY <1>1 DEF HoldInv, NdasAreAsRead, NdaIsAsRead
  <1>7. \A e \in Docs : ~HoldsNda(e, n)
    BY <1>5 DEF NdaLocked
  <1>8. /\ \A m : HoldsNda(d, m)' => m = n
        /\ \A e \in Docs \ {d} : \A m : HoldsNda(e, m)' <=> HoldsNda(e, m)
    BY <1>2, <1>6 DEF HoldsNda
  <1>9. CustomerIsHeldAlone'
    BY <1>2, <1>4, CustomerKept DEF HoldInv, HoldsCustomer
  <1>10. GateIsAsRead' /\ GateOpensOnce'
    BY <1>2, <1>4 DEF HoldInv, GateIsAsRead, GateOpensOnce
  <1>11. NdaIsAsRead(d)'
    <2>1. \A e \in InFlight \ {d} : up'[e] = up[e]
      BY <1>2 DEF InFlight
    <2> QED BY <1>2, <1>3, <1>4, <1>5, <1>6, <1>7, <1>8, <2>1 DEF NdaIsAsRead
  <1>12. ASSUME NEW e \in InFlight \ {d} PROVE NdaIsAsRead(e)'
    <2>1. NdaIsAsRead(e) /\ e \in Docs \ {d} /\ up'[e] = up[e]
      BY <1>2, <1>12 DEF HoldInv, NdasAreAsRead, InFlight
    <2>2. \A g \in InFlight : up'[g].nda = up[g].nda
      BY <1>2 DEF InFlight
    <2>3. ASSUME NEW m \in up[e].nda, HoldsNda(e, m)
          PROVE  \A g \in Docs \ {e} : ~HoldsNda(g, m)'
      BY <1>7, <1>8, <2>1, <2>3 DEF NdaIsAsRead
    <2> QED BY <1>3, <1>4, <1>8, <2>1, <2>2, <2>3 DEF NdaIsAsRead
  <1>13. NdasAreAsRead'
    BY <1>3, <1>11, <1>12 DEF NdasAreAsRead
  <1> QED BY <1>9, <1>10, <1>13 DEF HoldInv

LEMMA HoldStamp ==
    ASSUME TypeOK, HoldInv, NEW d \in Docs, Stamp(d)
    PROVE  HoldInv'
  <1>1. /\ up[d].step = "attaching" /\ up'[d].step = "stamped"
        /\ up'[d].category = up[d].category /\ up'[d].nda = up[d].nda
        /\ up'[d].first = (up[d].category = "nda-signed" /\ ~gate)
        /\ \A e \in Docs \ {d} : up'[e] = up[e]
    BY Stamping DEF Stamp
  <1>2. InFlight' = InFlight
    BY Stamping
  <1>3. UNCHANGED <<status, gate, nda, stamps>>
    BY DEF Stamp, tables
  <1>4. CustomerIsHeldAlone'
    <2>1. CASE up'[d].first
      <3>1. ~CustomerLocked
        BY <1>1, <2>1 DEF Stamp
      <3> QED BY <1>1, <1>3, <3>1, CustomerTaken
    <2>2. CASE ~up'[d].first
      BY <1>1, <1>3, <2>2, CustomerKept DEF HoldInv, HoldsCustomer
    <2> QED BY <2>1, <2>2
  <1>5. NdasAreAsRead'
    BY <1>1, <1>2, <1>3, NdasKept DEF HoldInv
  <1>6. GateIsAsRead' /\ GateOpensOnce'
    BY <1>1, <1>3 DEF HoldInv, GateIsAsRead, GateOpensOnce
  <1> QED BY <1>4, <1>5, <1>6 DEF HoldInv

\* The copy that is attached is a signed NDA or an audit trail, of one NDA that no other
\* request builds on.
LEMMA Attaching ==
    ASSUME TypeOK, FilesInv, HoldInv, NEW d \in Docs, up[d].step = "stamped"
    PROVE  \E n \in Ndas :
              /\ d \in InFlight /\ up[d].nda = {n}
              /\ up[d].category \in {"nda-signed", "nda-audit"}
              /\ nda[n][SlotOf(up[d].category)] = {}
              /\ \A e \in InFlight \ {d} : up[e].category = "nda-draft" \/ HoldsNda(e, n) =>
                    n \notin up[e].nda
  <1>1. d \in InFlight /\ up[d].nda \subseteq Ndas /\ up[d].category \in Categories
    BY RunningParts DEF Steps
  <1>2. NdaIsAsRead(d)
    BY <1>1 DEF HoldInv, NdasAreAsRead
  <1>3. PICK n \in Ndas : up[d].nda = {n}
    BY <1>1, <1>2 DEF NdaIsAsRead
  <1>4. up[d].category \in {"nda-signed", "nda-audit"}
    BY <1>2, <1>3, FileFacts DEF NdaIsAsRead
  <1>5. HoldsNda(d, n)
    BY <1>3 DEF HoldsNda
  <1>6. ASSUME NEW e \in InFlight \ {d}, up[e].category = "nda-draft" \/ HoldsNda(e, n)
        PROVE  n \notin up[e].nda
    <2>1. NdaIsAsRead(e) /\ e \in Docs \ {d}
      BY <1>6 DEF HoldInv, NdasAreAsRead, InFlight
    <2>2. ~HoldsNda(e, n)
      BY <1>2, <1>3, <1>5, <2>1 DEF NdaIsAsRead
    <2> QED BY <1>1, <1>3, <1>6, <2>1, <2>2 DEF NdaIsAsRead
  <1> QED BY <1>1, <1>2, <1>3, <1>4, <1>5, <1>6 DEF NdaIsAsRead

LEMMA HoldCommitAttach ==
    ASSUME TypeOK, FilesInv, HoldInv, NEW d \in Docs, CommitAttach(d)
    PROVE  HoldInv'
  <1>1. up[d].step = "stamped" /\ up[d].first \in BOOLEAN
    BY RunningParts DEF CommitAttach, Steps
  <1>2. PICK n \in Ndas :
              /\ d \in InFlight /\ up[d].nda = {n}
              /\ up[d].category \in {"nda-signed", "nda-audit"}
              /\ nda[n][SlotOf(up[d].category)] = {}
              /\ \A e \in InFlight \ {d} : up[e].category = "nda-draft" \/ HoldsNda(e, n) =>
                    n \notin up[e].nda
    BY <1>1, Attaching
  <1>3. /\ up'[d] = Done /\ \A e \in Docs \ {d} : up'[e] = up[e]
        /\ InFlight' = InFlight \ {d}
    BY Ending DEF CommitAttach
  <1>4. up'[d].step = "done"
    BY <1>3, RowsDiffer
  <1>5. /\ nda'[n] = [nda[n] EXCEPT ![SlotOf(up[d].category)] = {d}]
        /\ \A m \in Ndas \ {n} : nda'[m] = nda[m]
    BY <1>2 DEF CommitAttach
  <1>6. /\ status' = status /\ gate' = (gate \/ up[d].first)
        /\ stamps' = IF up[d].first THEN stamps + 1 ELSE stamps
    BY DEF CommitAttach
  <1>7. CustomerIsHeldAlone'
    BY <1>3, <1>4, <1>6, CustomerKept DEF HoldInv, HoldsCustomer
  <1>8. NdasAreAsRead'
    <2>1. ASSUME NEW e \in InFlight \ {d}, NEW m \in up[e].nda,
                 up[e].category = "nda-draft" \/ HoldsNda(e, m)
          PROVE  nda'[m] = nda[m]
      <3>1. m \in Ndas
        BY <2>1, RunningParts DEF InFlight
      <3>2. m # n
        BY <1>2, <2>1
      <3> QED BY <1>5, <3>1, <3>2
    <2> QED BY <1>3, <2>1, NdasChanged DEF HoldInv
  <1>9. GateIsAsRead'
    <2>1. ASSUME NEW e \in Docs \ {d}, up[e].step = "stamped", up[e].first
          PROVE  ~up[d].first
      BY <1>1, <2>1 DEF HoldInv, CustomerIsHeldAlone, HoldsCustomer
    <2> QED BY <1>3, <1>4, <1>6, <2>1 DEF HoldInv, GateIsAsRead
  <1>10. GateOpensOnce'
    <2>1. CASE up[d].category = "nda-signed"
      <3>1. nda'[n]["signed"] = {d}
        BY <1>5, <2>1 DEF SlotOf, Slots, TypeOK
      <3>2. gate \in BOOLEAN /\ stamps = IF gate THEN 1 ELSE 0
        BY DEF HoldInv, GateOpensOnce, TypeOK
      <3>3. IF up[d].first THEN ~gate ELSE gate
        BY <1>1, <2>1 DEF HoldInv, GateIsAsRead
      <3>4. gate' /\ stamps' = 1
        <4>1. CASE up[d].first
          <5>1. gate'
            BY <1>6, <4>1, Zenon
          <5>2. ~gate
            BY <3>3, <4>1
          <5> QED BY <1>6, <3>2, <4>1, <5>1, <5>2
        <4>2. CASE ~up[d].first
          BY <1>6, <3>2, <3>3, <4>2
        <4> QED BY <4>1, <4>2
      <3> QED BY <3>1, <3>4 DEF GateOpensOnce
    <2>2. CASE up[d].category = "nda-audit"
      <3>1. nda'[n]["signed"] = nda[n]["signed"]
        BY <1>5, <2>2 DEF SlotOf, Slots, TypeOK
      <3>2. ~up[d].first
        BY <1>1, <2>2 DEF HoldInv, GateIsAsRead
      <3>3. gate' = gate /\ stamps' = stamps
        BY <1>6, <3>2 DEF TypeOK
      <3> QED BY <1>5, <3>1, <3>3 DEF HoldInv, GateOpensOnce
    <2> QED BY <1>2, <2>1, <2>2
  <1> QED BY <1>7, <1>8, <1>9, <1>10 DEF HoldInv
-----------------------------------------------------------------------------
LEMMA HoldNext == TypeOK /\ FilesInv /\ HoldInv /\ [Next]_vars => HoldInv'
  <1> SUFFICES ASSUME TypeOK, FilesInv, HoldInv, [Next]_vars PROVE HoldInv'
    OBVIOUS
  <1>1. CASE Crash
    <2>1. \A d \in Docs : up'[d] = up[d] \/ up'[d] = Done
      BY <1>1 DEF Crash
    <2> QED BY <1>1, <2>1, HoldersFewer DEF Crash, tables
  <1>2. CASE UNCHANGED vars
    BY <1>2, HoldersFewer DEF vars, tables
  <1> QED BY <1>1, <1>2, HoldStatus, HoldBegin, HoldGo, HoldStore, HoldEnd, HoldAttach,
             HoldStamp, HoldCommitAttach DEF Next

(***************************************************************************)
(* The theorems.                                                           *)
(***************************************************************************)

\* What is on disk, in the tables and under way fits together, and the customer, the NDAs
\* and the gate are held and read as the transactions of documents, ndas and invoices do.
THEOREM DocumentsInvariant == Spec => []DocumentsInv
  <1>1. DocumentsInv /\ [Next]_vars => DocumentsInv'
    <2> SUFFICES ASSUME FilesInv, HoldInv, [Next]_vars PROVE FilesInv' /\ HoldInv'
      BY DEF DocumentsInv, FilesInv, HoldInv
    <2> QED BY FilesNext, HoldNext DEF FilesInv, FilesMatchRows
  <1> QED BY InitInv, <1>1, PTL DEF Spec

\* Every variable of the documents keeps its type.
THEOREM DocumentsTypeCorrect == Spec => []TypeOK
  <1>1. DocumentsInv => TypeOK
    BY DEF DocumentsInv, FilesMatchRows
  <1> QED BY <1>1, DocumentsInvariant, PTL

\* A committed document has its file unless the answer to its commit was lost, and every
\* file is accounted for, with any number of uploads that fail or are cut off.
THEOREM FilesMatch == Spec => []FilesMatchRows
  <1>1. DocumentsInv => FilesMatchRows
    BY DEF DocumentsInv
  <1> QED BY <1>1, DocumentsInvariant, PTL

\* The customer gets in with the first signed NDA, stamped once, however many NDAs are
\* signed at the same time.
THEOREM GateOnce == Spec => []GateOpensOnce
  <1>1. DocumentsInv => GateOpensOnce
    BY DEF DocumentsInv
  <1> QED BY <1>1, DocumentsInvariant, PTL

\* Nothing is stored for, or billed to, a customer who has been suspended since the
\* request looked: who writes holds the row of an active customer.
THEOREM NothingStored == Spec => NothingWhileSuspended
  <1>1. DocumentsInv /\ [Next]_vars =>
           [row' # row \/ invoiced' # invoiced => status = "active"]_<<row, invoiced, status>>
    <2> SUFFICES ASSUME DocumentsInv, [Next]_vars, row' # row \/ invoiced' # invoiced
                 PROVE  status = "active"
      OBVIOUS
    <2>1. PICK d \in Docs : Commit(d) \/ CommitUnanswered(d) \/ CommitInvoice(d)
      BY DEF Next, SetStatus, Begin, Place, Insert, Fail, UnlinkFails, DraftWriteFails,
             Invoice, Attach,
             Stamp, CommitAttach, Crash, vars, tables
    <2>2. up[d].step \in {"inserted", "invoicing"}
      BY <2>1 DEF Commit, CommitUnanswered, CommitInvoice
    <2> QED BY <2>2 DEF DocumentsInv, CustomerIsHeldAlone
  <1> QED BY <1>1, DocumentsInvariant, PTL DEF Spec, NothingWhileSuspended

\* Of the copies uploaded for one slot of an NDA, the first that is attached stays.
THEOREM SlotsOnce == Spec => SlotsFillOnce
  <1>1. DocumentsInv /\ [Next]_vars =>
           [\A n \in Ndas, s \in Slots : nda[n][s] # {} => nda'[n][s] = nda[n][s]]_nda
    <2> SUFFICES ASSUME DocumentsInv, [Next]_vars, nda' # nda, NEW n \in Ndas, NEW s \in Slots,
                        nda[n][s] # {}
                 PROVE  nda'[n][s] = nda[n][s]
      OBVIOUS
    <2>1. TypeOK /\ FilesInv /\ HoldInv
      BY DEF DocumentsInv, FilesInv, HoldInv, FilesMatchRows
    <2>2. PICK d \in Docs : Commit(d) \/ CommitUnanswered(d) \/ CommitAttach(d)
      BY DEF Next, SetStatus, Begin, Place, Insert, Fail, UnlinkFails, DraftWriteFails,
             Invoice, Attach,
             Stamp, CommitInvoice, Crash, vars, tables
    <2>3. CASE Commit(d) \/ CommitUnanswered(d)
      <3>1. up[d].step \in Steps /\ Store(d)
        BY <2>3 DEF Commit, CommitUnanswered, Steps
      <3>2. NdaIsAsRead(d)
        BY <2>1, <3>1, RunningParts DEF HoldInv, NdasAreAsRead
      <3>3. ~(up[d].category = "nda-draft" /\ n \in up[d].nda)
        BY <3>2 DEF NdaIsAsRead, NoNda
      <3> QED BY <3>1, <3>3 DEF Store
    <2>4. CASE CommitAttach(d)
      <3>1. up[d].step = "stamped"
        BY <2>4 DEF CommitAttach
      <3>2. n \in up[d].nda => nda[n][SlotOf(up[d].category)] = {}
        BY <2>1, <3>1, Attaching
      <3> QED BY <2>1, <2>4, <3>2 DEF CommitAttach, TypeOK
    <2> QED BY <2>2, <2>3, <2>4
  <1> QED BY <1>1, DocumentsInvariant, PTL DEF Spec, SlotsFillOnce

(***************************************************************************)
(* The quota.  Who inserts a row holds the customer until it commits, so   *)
(* the room that was seen is still there.                                  *)
(***************************************************************************)
LEMMA UsedGrows ==
    ASSUME TypeOK, NEW d \in Docs, row[d] = NoRow, NEW z \in Nat,
           row'[d].size = z, \A e \in Docs \ {d} : row'[e] = row[e]
    PROVE  Used' = Used + z
  <1> DEFINE f == [e \in Docs |-> row[e].size]
             g == [e \in Docs |-> row'[e].size]
             D == Docs \ {d}
  <1>1. IsFiniteSet(Docs) /\ Sizes \subseteq Nat
    BY DocumentsAssumption DEF DocumentsAssumption
  <1>2. ASSUME NEW e \in Docs PROVE row[e].size \in Nat
    <2>1. row[e] = NoRow \/ row[e] \in [category : Categories, size : Sizes]
      BY DEF TypeOK
    <2>2. CASE row[e] = NoRow
      BY <2>2 DEF NoRow
    <2>3. CASE row[e] \in [category : Categories, size : Sizes]
      <3>1. row[e].size \in Sizes
        BY <2>3
      <3> QED BY <1>1, <3>1
    <2> QED BY <2>1, <2>2, <2>3
  <1>3. /\ \A e \in Docs : f[e] \in Nat /\ g[e] \in Nat
        /\ \A e \in D : f[e] \in Nat /\ g[e] = f[e]
        /\ f[d] = 0 /\ g[d] = z
    BY <1>2 DEF NoRow
  <1>4. Used = SumFunctionOnSet(f, Docs) /\ Used' = SumFunctionOnSet(g, Docs)
    BY DEF Used, SumFunction
  <1>5. /\ D \in SUBSET Docs /\ IsFiniteSet(D)
        /\ d \in Docs \ D /\ D \cup {d} = Docs
    BY <1>1, FS_Subset
  <1> HIDE DEF f, g, D
  <1>6. /\ SumFunctionOnSet(f, D \cup {d}) = SumFunctionOnSet(f, D) + f[d]
        /\ SumFunctionOnSet(g, D \cup {d}) = SumFunctionOnSet(g, D) + g[d]
    BY <1>1, <1>3, <1>5, SumAdds
  <1>7. SumFunctionOnSet(g, D) = SumFunctionOnSet(f, D)
    BY <1>3, <1>5, SumAgrees
  <1>8. SumFunctionOnSet(f, D) \in Nat
    BY <1>1, <1>3, <1>5, SumType
  <1> QED BY <1>3, <1>4, <1>5, <1>6, <1>7, <1>8

LEMMA QuotaNext ==
    ASSUME DocumentsInv, QuotaInv, [Next]_vars
    PROVE  QuotaInv'
  <1>1. TypeOK /\ FilesFollowSteps /\ CustomerIsHeldAlone
    BY DEF DocumentsInv, FilesMatchRows
  <1>2. ASSUME UNCHANGED row, \A e \in Docs : up'[e].step = "inserted" => up'[e] = up[e]
        PROVE  QuotaInv'
    BY <1>2 DEF QuotaInv, QuotaHolds, RoomIsKept, Used
  <1>3. ASSUME NEW d \in Docs, Insert(d) PROVE QuotaInv'
    <2>1. /\ UNCHANGED row
          /\ up'[d].size = up[d].size
          /\ \A e \in Docs \ {d} : up'[e] = up[e] /\ up[e].step # "inserted"
      BY <1>1, <1>3 DEF Insert, Go, TypeOK, CustomerLocked, HoldsCustomer, tables
    <2>2. Used' = Used /\ Used + up[d].size <= Quota
      BY <1>3, <2>1 DEF Insert, Used
    <2> QED BY <2>1, <2>2 DEF QuotaInv, QuotaHolds, RoomIsKept
  <1>4. ASSUME NEW d \in Docs, Commit(d) \/ CommitUnanswered(d) PROVE QuotaInv'
    <2>1. up[d].step = "inserted" /\ up[d].size \in Nat
      <3>1. up[d].step = "inserted"
        BY <1>4 DEF Commit, CommitUnanswered
      <3> QED BY <1>1, <3>1, RunningParts, DocumentsAssumption DEF Steps, DocumentsAssumption
    <2>2. /\ row'[d].size = up[d].size /\ row[d] = NoRow
          /\ \A e \in Docs \ {d} : row'[e] = row[e]
      BY <1>1, <1>4, <2>1 DEF Commit, CommitUnanswered, Store, TypeOK, FilesFollowSteps
    <2>3. Used' = Used + up[d].size
      BY <1>1, <2>1, <2>2, UsedGrows
    <2>4. \A e \in Docs : up'[e].step # "inserted"
      <3>1. \A e \in Docs \ {d} : up'[e] = up[e] /\ up[e].step # "inserted"
        BY <1>1, <1>4, <2>1 DEF Commit, CommitUnanswered, Go, End, TypeOK,
                                CustomerIsHeldAlone, HoldsCustomer
      <3>2. up'[d].step # "inserted"
        <4>1. up[d].step \in Steps /\ "stored" \in Steps
          BY <2>1 DEF Steps
        <4> QED BY <1>1, <1>4, <4>1, Going, Ending DEF Commit, CommitUnanswered, Done
      <3> QED BY <3>1, <3>2
    <2> QED BY <2>1, <2>3, <2>4 DEF QuotaInv, QuotaHolds, RoomIsKept
  <1>5. ASSUME NEW d \in Docs, NEW category \in Categories, NEW size \in Sizes,
               Begin(d, category, size)
        PROVE  QuotaInv'
    BY <1>1, <1>2, <1>5 DEF Begin, TypeOK, tables
  <1>6. ASSUME NEW d \in Docs,
               \/ Place(d) \/ Fail(d) \/ UnlinkFails(d) \/ DraftWriteFails(d)
               \/ Invoice(d) \/ CommitInvoice(d)
               \/ Attach(d) \/ Stamp(d) \/ CommitAttach(d)
        PROVE  QuotaInv'
    <2>1. UNCHANGED row
      BY <1>6 DEF Place, Fail, UnlinkFails, DraftWriteFails, Invoice, CommitInvoice,
                  Attach, Stamp,
                  CommitAttach, tables
    <2>2. CASE Place(d) \/ Invoice(d) \/ Attach(d)
      <3>1. PICK step \in Steps \ {"inserted"} : Go(d, step) /\ up[d].step \in Steps
        BY <2>2 DEF Place, Invoice, Attach, Steps
      <3> QED BY <1>1, <1>2, <2>1, <3>1, Going
    <2>3. CASE Fail(d) \/ UnlinkFails(d) \/ DraftWriteFails(d)
               \/ CommitInvoice(d) \/ CommitAttach(d)
      <3>1. End(d)
        BY <2>3 DEF Fail, UnlinkFails, DraftWriteFails, CommitInvoice, CommitAttach
      <3> QED BY <1>1, <1>2, <2>1, <3>1, Ending DEF Done
    <2>4. CASE Stamp(d)
      BY <1>1, <1>2, <2>1, <2>4, Stamping
    <2> QED BY <1>6, <2>2, <2>3, <2>4
  <1>7. CASE Crash
    BY <1>2, <1>7 DEF Crash, Done, tables
  <1>8. CASE UNCHANGED vars \/ \E s \in {"active", "suspended"} : SetStatus(s)
    BY <1>2, <1>8 DEF vars, SetStatus, tables
  <1> QED BY <1>3, <1>4, <1>5, <1>6, <1>7, <1>8 DEF Next

\* Uploads that each found room before they wrote their file do not exceed the quota
\* together: the sum of all sizes, looked at again with the customer's row locked, is at
\* most the quota whatever is stored, fails or stops in between.
THEOREM QuotaAlways == Spec => []QuotaHolds
  <1>1. Init => QuotaInv
    <2> SUFFICES ASSUME Init PROVE QuotaInv
      OBVIOUS
    <2> DEFINE f == [d \in Docs |-> row[d].size]
    <2>1. IsFiniteSet(Docs) /\ Quota \in Nat
      BY DocumentsAssumption DEF DocumentsAssumption
    <2>2. \A d \in Docs : f[d] = 0
      BY DEF Init, NoRow
    <2>3. Used = Cardinality(Units(f, Docs))
      <3>1. Used = SumFunctionOnSet(f, Docs)
        BY DEF Used, SumFunction
      <3> HIDE DEF f
      <3> QED BY <2>1, <2>2, <3>1, SumIsCount
    <2> HIDE DEF f
    <2>4. Units(f, Docs) = {}
      BY <2>2 DEF Units
    <2>5. Used = 0
      BY <2>3, <2>4, FS_EmptySet
    <2> QED BY <2>1, <2>5 DEF QuotaInv, QuotaHolds, RoomIsKept, Init, Idle
  <1>2. DocumentsInv /\ QuotaInv /\ [Next]_vars => QuotaInv'
    BY QuotaNext
  <1>3. QuotaInv => QuotaHolds
    BY DEF QuotaInv
  <1> QED BY <1>1, <1>2, <1>3, DocumentsInvariant, PTL DEF Spec
-----------------------------------------------------------------------------
Found(r, p) == req[r].at = "found" /\ req[r].payment = p

(***************************************************************************)
(* Why the audit trail of the status is right.  One request at a time has  *)
(* the invoice locked, and what it read of the status is still so.         *)
(***************************************************************************)
StatusInv ==
    /\ decision[2] = invoiceStatus
    /\ \A r \in Requests : req[r].at = "locked" =>
          req[r].was = invoiceStatus /\ <<req[r].was, req[r].new>> \in AllowedTransitions
    /\ \A r, q \in Requests : req[r].at = "locked" /\ req[q].at = "locked" => r = q

(***************************************************************************)
(* A payment that two requests found is contested, and so is one that a    *)
(* request found and that is deleted: the one that deleted it had found it *)
(* too.                                                                    *)
(***************************************************************************)
InsertsAreNew ==
    /\ \A r \in Requests : req[r].at = "summed" => ledger[req[r].payment].state = "none"
    /\ \A r, q \in Requests :
          req[r].at = "summed" /\ req[q].at = "summed" /\ req[r].payment = req[q].payment => r = q
FindsAreContested ==
    \A r \in Requests, p \in Payments :
        Found(r, p) =>
          /\ ledger[p].state # "none"
          /\ deletions[p] > 0 => p \in contested
          /\ \A q \in Requests : Found(q, p) /\ r # q => p \in contested

LedgerInv == InsertsAreNew /\ FindsAreContested /\ DeletionsAreAudited

BillingInv == BillingTypeOK /\ StatusInv /\ LedgerInv

(***************************************************************************)
(* Type correctness.                                                       *)
(***************************************************************************)

\* What a request refers to, by where it is.
LEMMA TransactionParts ==
    ASSUME NEW o \in Transactions
    PROVE  /\ o.at = "summed" => o.payment \in Payments /\ o.amount \in Amounts
           /\ o.at = "summed" => o.crossed \in BOOLEAN /\ o.undone \in BOOLEAN
           /\ o.at = "summed" => o.sum \in 0 .. MaxInt
           /\ o.at = "found" => o.payment \in Payments
           /\ o.at = "locked" => o.was \in Statuses /\ o.new \in Statuses
  BY DEF Transactions, NoTransaction

\* A payment that is crossed or undone is still a payment.
LEMMA CrossedParts ==
    ASSUME NEW o \in Transactions, o.at = "summed"
    PROVE  /\ \A x : x = [o EXCEPT !.crossed = TRUE] =>
                 /\ x \in Transactions /\ x.at = "summed"
                 /\ x.payment = o.payment /\ x.amount = o.amount /\ x.sum = o.sum
                 /\ x.crossed = TRUE /\ x.undone = o.undone
           /\ \A x : x = [o EXCEPT !.undone = TRUE] =>
                 /\ x \in Transactions /\ x.at = "summed"
                 /\ x.payment = o.payment /\ x.amount = o.amount /\ x.sum = o.sum
                 /\ x.undone = TRUE /\ x.crossed = o.crossed
  <1>1. o \in [at : {"summed"}, payment : Payments, amount : Amounts, sum : 0 .. MaxInt,
               crossed : BOOLEAN, undone : BOOLEAN]
    BY DEF Transactions, NoTransaction
  <1> QED BY <1>1 DEF Transactions

\* A change of the ledger marks the sums of the others, and nothing else of them.
LEMMA OthersAreCrossed ==
    ASSUME BillingTypeOK, NEW r \in Requests, CommitLedger(r, TRUE) \/ CommitLedger(r, FALSE)
    PROVE  /\ req' \in [Requests -> Transactions]
           /\ req'[r] = NoTransaction
           /\ \A q \in Requests \ {r} :
                 /\ req'[q].at = req[q].at
                 /\ req[q].at = "summed" =>
                       /\ req'[q].payment = req[q].payment /\ req'[q].amount = req[q].amount
                       /\ req'[q].sum = req[q].sum
                       /\ CommitLedger(r, TRUE) =>
                             req'[q].crossed = TRUE /\ req'[q].undone = req[q].undone
                       /\ CommitLedger(r, FALSE) =>
                             req'[q].undone = TRUE /\ req'[q].crossed = req[q].crossed
                 /\ req[q].at # "summed" => req'[q] = req[q]
  <1>1. ASSUME NEW q \in Requests
        PROVE  /\ req'[q] \in Transactions
               /\ q # r =>
                    /\ req'[q].at = req[q].at
                    /\ req[q].at = "summed" =>
                          /\ req'[q].payment = req[q].payment /\ req'[q].amount = req[q].amount
                          /\ req'[q].sum = req[q].sum
                          /\ CommitLedger(r, TRUE) =>
                                req'[q].crossed = TRUE /\ req'[q].undone = req[q].undone
                          /\ CommitLedger(r, FALSE) =>
                                req'[q].undone = TRUE /\ req'[q].crossed = req[q].crossed
                    /\ req[q].at # "summed" => req'[q] = req[q]
    <2>1. req[q] \in Transactions
      BY DEF BillingTypeOK
    <2>2. CASE q = r
      BY <2>2 DEF CommitLedger, Transactions
    <2>3. CASE q # r /\ req[q].at = "summed"
      <3>1. CommitLedger(r, TRUE) => req'[q] = [req[q] EXCEPT !.crossed = TRUE]
        BY <2>3 DEF CommitLedger
      <3>2. CommitLedger(r, FALSE) => req'[q] = [req[q] EXCEPT !.undone = TRUE]
        BY <2>3 DEF CommitLedger
      <3>3. CommitLedger(r, TRUE) =>
              /\ req'[q] \in Transactions /\ req'[q].at = "summed"
              /\ req'[q].payment = req[q].payment /\ req'[q].amount = req[q].amount
              /\ req'[q].sum = req[q].sum
              /\ req'[q].crossed = TRUE /\ req'[q].undone = req[q].undone
        BY <2>1, <2>3, <3>1, CrossedParts
      <3>4. CommitLedger(r, FALSE) =>
              /\ req'[q] \in Transactions /\ req'[q].at = "summed"
              /\ req'[q].payment = req[q].payment /\ req'[q].amount = req[q].amount
              /\ req'[q].sum = req[q].sum
              /\ req'[q].undone = TRUE /\ req'[q].crossed = req[q].crossed
        BY <2>1, <2>3, <3>2, CrossedParts
      <3> QED BY <2>3, <3>3, <3>4
    <2>4. CASE q # r /\ req[q].at # "summed"
      BY <2>1, <2>4 DEF CommitLedger
    <2> QED BY <2>2, <2>3, <2>4
  <1>2. req' \in [Requests -> Transactions]
    BY <1>1 DEF CommitLedger
  <1> QED BY <1>1, <1>2 DEF CommitLedger

\* What a sum is compared with is a number.
LEMMA SumParts ==
    ASSUME BillingTypeOK, NEW q \in Requests, req[q].at = "summed"
    PROVE  req[q].sum \in Int /\ req[q].amount \in Nat
  <1>0. req[q] \in Transactions
    BY DEF BillingTypeOK
  <1>1. req[q].sum \in 0 .. MaxInt /\ req[q].amount \in Amounts
    BY <1>0, TransactionParts
  <1>2. MaxInt \in Nat /\ Amounts \subseteq Nat
    BY BillingAssumption DEF BillingAssumption
  <1>3. req[q].sum \in Int
    BY <1>1, <1>2
  <1>4. req[q].amount \in Nat
    BY <1>1, <1>2
  <1> QED BY <1>3, <1>4

LEMMA InitBilling == BillingInit => BillingInv
  <1> SUFFICES ASSUME BillingInit PROVE BillingInv
    OBVIOUS
  <1>1. BillingTypeOK
    BY DEF BillingInit, BillingTypeOK, Statuses, AllowedTransitions, NoPayment, Row,
           NoNews, Transactions
  <1>2. StatusInv
    BY DEF BillingInit, StatusInv, NoTransaction
  <1>3. LedgerInv
    BY DEF BillingInit, LedgerInv, InsertsAreNew, FindsAreContested, DeletionsAreAudited,
           Found, NoTransaction, NoPayment, Row
  <1> QED BY <1>1, <1>2, <1>3 DEF BillingInv

(***************************************************************************)
(* One step, action by action.                                             *)
(***************************************************************************)

LEMMA InsertStep ==
    ASSUME BillingInv, NEW r \in Requests, NEW p \in Payments, NEW cents \in Amounts,
           InsertPayment(r, p, cents)
    PROVE  BillingInv'
  <1> DEFINE o == [at |-> "summed", payment |-> p, amount |-> cents, sum |-> Sum + cents,
                   crossed |-> FALSE, undone |-> FALSE]
  <1> USE DEF InsertPayment, Inserting, BeginTransaction
  <1>1. BillingTypeOK
    BY DEF BillingInv
  <1>2. o \in Transactions
    BY DEF Transactions
  <1>3. /\ req'[r] = o
        /\ \A q \in Requests \ {r} : req'[q] = req[q]
        /\ req' \in [Requests -> Transactions]
    BY <1>1, <1>2 DEF BillingTypeOK
  <1>4. UNCHANGED <<amount, invoiceStatus, ledger, decision, deletions, told, contested>>
    OBVIOUS
  <1>5. ledger[p].state = "none"
        /\ \A q \in Requests : req[q].at = "summed" => req[q].payment # p
    BY DEF NoPayment, Row
  <1> HIDE DEF InsertPayment, Inserting, BeginTransaction
  <1>6. BillingTypeOK'
    <2>1. news' = NoNews
      BY DEF InsertPayment, Inserting
    <2> QED BY <1>1, <1>3, <1>4, <2>1 DEF BillingTypeOK, NoNews
  <1>7. StatusInv'
    BY <1>3, <1>4 DEF BillingInv, StatusInv
  <1>8. InsertsAreNew'
    BY <1>3, <1>4, <1>5 DEF BillingInv, LedgerInv, InsertsAreNew
  <1>9. FindsAreContested' /\ DeletionsAreAudited'
    BY <1>3, <1>4 DEF BillingInv, LedgerInv, FindsAreContested, DeletionsAreAudited, Found
  <1> QED BY <1>6, <1>7, <1>8, <1>9 DEF BillingInv, LedgerInv

LEMMA CommitPaymentStep ==
    ASSUME BillingInv, NEW r \in Requests, CommitPayment(r)
    PROVE  BillingInv'
  <1> DEFINE p == req[r].payment
  <1>1. BillingTypeOK
    BY DEF BillingInv
  <1>2. p \in Payments /\ req[r].at = "summed" /\ req[r].amount \in Amounts
        /\ req[r].crossed \in BOOLEAN /\ req[r].undone \in BOOLEAN
    BY <1>1, TransactionParts DEF CommitPayment, BillingTypeOK
  <1>3. /\ req' \in [Requests -> Transactions]
        /\ req'[r] = NoTransaction
        /\ \A q \in Requests \ {r} :
              /\ req'[q].at = req[q].at
              /\ req[q].at = "summed" => req'[q].payment = req[q].payment
              /\ req[q].at # "summed" => req'[q] = req[q]
    BY <1>1, OthersAreCrossed DEF CommitPayment
  <1>4. /\ ledger'[p] = Row("recorded", req[r].amount, req[r].crossed)
        /\ \A q \in Payments \ {p} : ledger'[q] = ledger[q]
    BY <1>1, <1>2 DEF CommitPayment, BillingTypeOK
  <1>5. UNCHANGED <<amount, invoiceStatus, decision, deletions, contested>>
    BY DEF CommitPayment
  <1>6. ledger[p].state = "none"
    BY <1>2 DEF BillingInv, LedgerInv, InsertsAreNew
  <1>7. BillingTypeOK'
    <2>1. Row("recorded", req[r].amount, req[r].crossed) \in
              [state : {"none", "recorded", "deleted"}, amount : Amounts \cup {0},
               crossed : BOOLEAN]
      BY <1>2 DEF Row
    <2>2. ledger' \in [Payments -> [state : {"none", "recorded", "deleted"},
                                    amount : Amounts \cup {0}, crossed : BOOLEAN]]
      BY <1>1, <1>2, <2>1 DEF CommitPayment, BillingTypeOK
    <2>3. told' \in BOOLEAN
      BY <1>1, Zenon DEF CommitPayment, BillingTypeOK
    <2>4. news' \in [paid : BOOLEAN, undone : BOOLEAN]
      <3>1. news' = [paid |-> IsFullyPaid(req[r].sum), undone |-> req[r].undone]
        BY DEF CommitPayment
      <3>2. IsFullyPaid(req[r].sum) \in BOOLEAN
        BY DEF IsFullyPaid
      <3> QED BY <1>2, <3>1, <3>2
    <2> QED BY <1>1, <1>3, <1>5, <2>2, <2>3, <2>4 DEF BillingTypeOK
  <1>8. StatusInv'
    BY <1>3, <1>5 DEF BillingInv, StatusInv, NoTransaction
  <1>9. InsertsAreNew'
    <2>1. ASSUME NEW q \in Requests, req'[q].at = "summed"
          PROVE  q # r /\ req[q].at = "summed" /\ req'[q].payment = req[q].payment
                 /\ req[q].payment # p
      BY <1>2, <1>3, <2>1 DEF NoTransaction, BillingInv, LedgerInv, InsertsAreNew
    <2>2. \A q \in Requests : req[q].at = "summed" => req[q].payment \in Payments
      BY <1>1, TransactionParts DEF BillingTypeOK
    <2> QED BY <1>4, <2>1, <2>2 DEF BillingInv, LedgerInv, InsertsAreNew
  <1>10. FindsAreContested'
    <2>1. ASSUME NEW q \in Requests, NEW x \in Payments, Found(q, x)'
          PROVE  q # r /\ Found(q, x)
      BY <1>3, <2>1 DEF Found, NoTransaction
    <2>2. \A x \in Payments : ledger'[x].state = ledger[x].state \/ ledger'[x].state = "recorded"
      BY <1>4 DEF Row
    <2> QED BY <1>5, <2>1, <2>2 DEF BillingInv, LedgerInv, FindsAreContested
  <1>11. DeletionsAreAudited'
    <2>1. ledger'[p].state = "recorded"
      BY <1>4 DEF Row
    <2> QED BY <1>2, <1>4, <1>5, <1>6, <2>1 DEF BillingInv, LedgerInv, DeletionsAreAudited
  <1> QED BY <1>7, <1>8, <1>9, <1>10, <1>11 DEF BillingInv, LedgerInv

LEMMA FindStep ==
    ASSUME BillingInv, NEW r \in Requests, NEW p \in Payments, FindPayment(r, p)
    PROVE  BillingInv'
  <1> DEFINE o == [at |-> "found", payment |-> p]
  <1>1. BillingTypeOK
    BY DEF BillingInv
  <1>2. o \in Transactions
    BY DEF Transactions
  <1>3. /\ req[r] = NoTransaction /\ req'[r] = o
        /\ \A q \in Requests \ {r} : req'[q] = req[q]
        /\ req' \in [Requests -> Transactions]
    BY <1>1, <1>2 DEF BillingTypeOK, FindPayment, BeginTransaction
  <1>4. /\ UNCHANGED <<amount, invoiceStatus, ledger, decision, deletions, told>>
        /\ news' = NoNews /\ ledger[p].state = "recorded"
        /\ contested \subseteq contested' /\ contested' \subseteq contested \cup {p}
    BY DEF FindPayment, Recorded
  <1>5. (\E q \in Requests : Found(q, p)) => p \in contested'
    <2>1. \A q \in Requests : Found(q, p) => req[q] = o
      BY <1>1 DEF Found, BillingTypeOK, Transactions, NoTransaction
    <2> QED BY <2>1 DEF FindPayment
  <1>6. BillingTypeOK'
    BY <1>1, <1>3, <1>4 DEF BillingTypeOK, NoNews
  <1>7. StatusInv'
    BY <1>3, <1>4 DEF BillingInv, StatusInv
  <1>8. InsertsAreNew'
    BY <1>3, <1>4 DEF BillingInv, LedgerInv, InsertsAreNew
  <1>9. FindsAreContested'
    <2>1. ASSUME NEW q \in Requests, NEW x \in Payments, q # r
          PROVE  Found(q, x)' <=> Found(q, x)
      BY <1>3, <2>1 DEF Found
    <2>2. \A x \in Payments : Found(r, x)' => x = p
      BY <1>3 DEF Found
    <2>3. ledger'[p].state # "none" /\ ~(deletions'[p] > 0)
      BY <1>4 DEF BillingInv, LedgerInv, DeletionsAreAudited
    <2> QED BY <1>4, <1>5, <2>1, <2>2, <2>3 DEF BillingInv, LedgerInv, FindsAreContested
  <1>10. DeletionsAreAudited'
    BY <1>4 DEF BillingInv, LedgerInv, DeletionsAreAudited
  <1> QED BY <1>6, <1>7, <1>8, <1>9, <1>10 DEF BillingInv, LedgerInv

LEMMA DeleteStep ==
    ASSUME BillingInv, NEW r \in Requests, DeletePayment(r)
    PROVE  BillingInv'
  <1> DEFINE p == req[r].payment
  <1>1. BillingTypeOK
    BY DEF BillingInv
  <1>2. p \in Payments /\ Found(r, p)
    BY <1>1, TransactionParts DEF DeletePayment, BillingTypeOK, Found
  <1>3. /\ req' \in [Requests -> Transactions]
        /\ req'[r] = NoTransaction
        /\ \A q \in Requests \ {r} :
              /\ req'[q].at = req[q].at
              /\ req[q].at = "summed" => req'[q].payment = req[q].payment
              /\ req[q].at # "summed" => req'[q] = req[q]
    BY <1>1, OthersAreCrossed DEF DeletePayment
  <1>4. /\ ledger' = [ledger EXCEPT ![p].state = "deleted"]
        /\ deletions' = [deletions EXCEPT ![p] = @ + 1]
        /\ news' = NoNews
        /\ UNCHANGED <<amount, invoiceStatus, decision, contested>>
    BY DEF DeletePayment
  <1>5. /\ ledger'[p] = [ledger[p] EXCEPT !.state = "deleted"]
        /\ ledger'[p].state = "deleted"
        /\ \A q \in Payments \ {p} : ledger'[q] = ledger[q]
        /\ deletions[p] \in Nat /\ deletions'[p] = deletions[p] + 1
        /\ \A q \in Payments \ {p} : deletions'[q] = deletions[q]
    BY <1>1, <1>2, <1>4 DEF BillingTypeOK
  <1>6. BillingTypeOK'
    <2>1. ledger' \in [Payments -> [state : {"none", "recorded", "deleted"},
                                    amount : Amounts \cup {0}, crossed : BOOLEAN]]
      BY <1>1, <1>2, <1>4 DEF BillingTypeOK
    <2>2. deletions' \in [Payments -> Nat]
      BY <1>1, <1>2, <1>4 DEF BillingTypeOK
    <2>3. told' \in BOOLEAN
      BY Zenon DEF DeletePayment
    <2> QED BY <1>1, <1>3, <1>4, <2>1, <2>2, <2>3 DEF BillingTypeOK, NoNews
  <1>7. StatusInv'
    BY <1>3, <1>4 DEF BillingInv, StatusInv, NoTransaction
  <1>8. InsertsAreNew'
    <2>1. ASSUME NEW q \in Requests, req'[q].at = "summed"
          PROVE  q # r /\ req[q].at = "summed" /\ req'[q].payment = req[q].payment
                 /\ req[q].payment \in Payments /\ req[q].payment # p
      <3>1. q # r /\ req[q].at = "summed" /\ req'[q].payment = req[q].payment
        BY <1>3, <2>1 DEF NoTransaction
      <3>2. req[q].payment \in Payments
        BY <1>1, <3>1, TransactionParts DEF BillingTypeOK
      <3>3. ledger[req[q].payment].state = "none" /\ ledger[p].state # "none"
        BY <1>2, <3>1 DEF BillingInv, LedgerInv, InsertsAreNew, FindsAreContested
      <3> QED BY <3>1, <3>2, <3>3
    <2> QED BY <1>5, <2>1 DEF BillingInv, LedgerInv, InsertsAreNew
  <1>9. FindsAreContested'
    <2>1. ASSUME NEW q \in Requests, NEW x \in Payments, Found(q, x)'
          PROVE  q # r /\ Found(q, x)
      BY <1>3, <2>1 DEF Found, NoTransaction
    <2>2. ASSUME NEW q \in Requests, q # r, Found(q, p)
          PROVE  p \in contested
      BY <1>2, <2>2 DEF BillingInv, LedgerInv, FindsAreContested
    <2>3. \A q \in Requests, x \in Payments : Found(q, x) =>
              /\ ledger[x].state # "none"
              /\ deletions[x] > 0 => x \in contested
              /\ \A y \in Requests : Found(y, x) /\ q # y => x \in contested
      BY DEF BillingInv, LedgerInv, FindsAreContested
    <2>4. \A x \in Payments :
              /\ ledger[x].state # "none" => ledger'[x].state # "none"
              /\ x # p => deletions'[x] = deletions[x]
      BY <1>5
    <2> QED BY <1>4, <2>1, <2>2, <2>3, <2>4 DEF FindsAreContested
  <1>10. DeletionsAreAudited'
    <2>1. deletions[p] > 0 => p \in contested
      BY <1>2 DEF BillingInv, LedgerInv, FindsAreContested
    <2> QED BY <1>2, <1>4, <1>5, <2>1 DEF BillingInv, LedgerInv, DeletionsAreAudited
  <1> QED BY <1>6, <1>7, <1>8, <1>9, <1>10 DEF BillingInv, LedgerInv

LEMMA StatusStep ==
    ASSUME BillingInv, NEW r \in Requests,
           PostStatus(r) \/ SetInvoiceStatus(r) \/ Abort(r)
    PROVE  BillingInv' /\ (decision' # decision => /\ decision'[1] = decision[2]
                                                  /\ decision' \in AllowedTransitions
                                                  /\ decision'[2] = invoiceStatus')
  <1>1. BillingTypeOK /\ StatusInv
    BY DEF BillingInv
  <1>2. /\ UNCHANGED <<amount, ledger, deletions, told, contested>>
        /\ news' = NoNews
    BY DEF PostStatus, LockInvoice, SetInvoiceStatus, Abort
  <1>3. /\ req' \in [Requests -> Transactions]
        /\ req'[r].at \in {"idle", "locked"}
        /\ \A q \in Requests \ {r} : req'[q] = req[q]
    <2>1. CASE SetInvoiceStatus(r) \/ Abort(r)
      BY <1>1, <2>1 DEF SetInvoiceStatus, Abort, EndTransaction, BillingTypeOK, Transactions,
                        NoTransaction
    <2>2. ASSUME NEW new \in Statuses, LockInvoice(r, new)
          PROVE  /\ req' \in [Requests -> Transactions]
                 /\ req'[r].at \in {"idle", "locked"}
                 /\ \A q \in Requests \ {r} : req'[q] = req[q]
      <3>1. [at |-> "locked", was |-> invoiceStatus, new |-> new] \in Transactions
        BY <1>1 DEF Transactions, BillingTypeOK
      <3> QED BY <1>1, <2>2, <3>1 DEF LockInvoice, BeginTransaction, BillingTypeOK
    <2> QED BY <2>1, <2>2 DEF PostStatus
  <1>4. /\ invoiceStatus' \in Statuses /\ decision' \in AllowedTransitions /\ StatusInv'
        /\ decision' # decision => decision'[1] = decision[2] /\ decision'[2] = invoiceStatus'
    <2>1. ASSUME NEW new \in Statuses, LockInvoice(r, new)
          PROVE  /\ UNCHANGED <<invoiceStatus, decision>>
                 /\ StatusInv'
      <3>1. /\ req'[r] = [at |-> "locked", was |-> invoiceStatus, new |-> new]
            /\ UNCHANGED <<invoiceStatus, decision>>
            /\ <<invoiceStatus, new>> \in AllowedTransitions
            /\ \A q \in Requests : req[q].at # "locked"
        BY <1>1, <2>1 DEF LockInvoice, BeginTransaction, InvoiceLocked, BillingTypeOK
      <3> QED BY <1>1, <1>3, <3>1 DEF StatusInv
    <2>2. CASE SetInvoiceStatus(r)
      <3>1. /\ req[r].at = "locked" /\ req'[r] = NoTransaction
            /\ invoiceStatus' = req[r].new /\ decision' = <<req[r].was, req[r].new>>
        BY <1>1, <2>2 DEF SetInvoiceStatus, EndTransaction, BillingTypeOK
      <3>2. req[r].was = invoiceStatus /\ decision' \in AllowedTransitions
        BY <1>1, <3>1 DEF StatusInv
      <3>3. invoiceStatus' \in Statuses
        BY <1>1, <3>1, TransactionParts DEF BillingTypeOK
      <3>4. \A q \in Requests : req'[q].at # "locked"
        BY <1>1, <1>3, <3>1 DEF StatusInv, NoTransaction
      <3> QED BY <1>1, <3>1, <3>2, <3>3, <3>4 DEF StatusInv
    <2>3. CASE Abort(r)
      <3>1. req'[r] = NoTransaction /\ UNCHANGED <<invoiceStatus, decision>>
        BY <1>1, <2>3 DEF Abort, EndTransaction, BillingTypeOK
      <3> QED BY <1>1, <1>3, <3>1 DEF StatusInv, BillingTypeOK, NoTransaction
    <2> QED BY <1>1, <2>1, <2>2, <2>3 DEF PostStatus, BillingTypeOK
  <1>5. BillingTypeOK'
    BY <1>1, <1>2, <1>3, <1>4 DEF BillingTypeOK, NoNews
  <1>6. InsertsAreNew'
    BY <1>2, <1>3 DEF BillingInv, LedgerInv, InsertsAreNew
  <1>7. FindsAreContested' /\ DeletionsAreAudited'
    BY <1>2, <1>3 DEF BillingInv, LedgerInv, FindsAreContested, DeletionsAreAudited, Found
  <1> QED BY <1>4, <1>5, <1>6, <1>7 DEF BillingInv, LedgerInv

LEMMA StepBilling == BillingInv /\ [BillingNext]_billing => BillingInv'
  <1> SUFFICES ASSUME BillingInv, [BillingNext]_billing PROVE BillingInv'
    OBVIOUS
  <1>1. CASE BillingNext
    BY <1>1, InsertStep, CommitPaymentStep, FindStep, DeleteStep, StatusStep
       DEF BillingNext, PostPayment, PostDelete
  <1>2. CASE UNCHANGED billing
    BY <1>2 DEF billing, BillingInv, BillingTypeOK, StatusInv, LedgerInv, InsertsAreNew,
                FindsAreContested, DeletionsAreAudited, Found
  <1> QED BY <1>1, <1>2

(***************************************************************************)
(* The theorems.                                                           *)
(***************************************************************************)

\* The lock of the invoice protects its status, and every payment two requests found
\* is known to be contested.
THEOREM BillingInvariant == BillingSpec => []BillingInv
  BY InitBilling, StepBilling, PTL DEF BillingSpec

\* The invoice, its ledger and its requests have the types the code gives them.
THEOREM BillingTypeCorrect == BillingSpec => []BillingTypeOK
  <1>1. BillingInv => BillingTypeOK
    BY DEF BillingInv
  <1> QED BY <1>1, BillingInvariant, PTL

\* However many admins delete payments at a time, a payment is gone if and only if the
\* audit trail says so, twice only where two requests had found it.
THEOREM DeletionsAudited == BillingSpec => []DeletionsAreAudited
  <1>1. BillingInv => DeletionsAreAudited
    BY DEF BillingInv, LedgerInv
  <1> QED BY <1>1, BillingInvariant, PTL

\* However many admins decide at a time, the decisions in the audit trail follow from
\* one another by allowed steps.
THEOREM DecisionsFollow == BillingSpec => DecisionsChain
  <1> DEFINE Chained == decision' # decision => /\ decision'[1] = decision[2]
                                               /\ decision' \in AllowedTransitions
                                               /\ decision'[2] = invoiceStatus'
  <1>1. BillingInv /\ [BillingNext]_billing => [Chained]_billing
    <2>1. ASSUME BillingInv, BillingNext PROVE Chained
      <3>1. PICK r \in Requests :
                \/ PostPayment(r) \/ CommitPayment(r) \/ PostDelete(r) \/ DeletePayment(r)
                \/ PostStatus(r) \/ SetInvoiceStatus(r) \/ Abort(r)
        BY <2>1 DEF BillingNext
      <3>2. CASE PostPayment(r) \/ CommitPayment(r) \/ PostDelete(r) \/ DeletePayment(r)
        BY <3>2 DEF PostPayment, InsertPayment, Inserting, CommitPayment, PostDelete, FindPayment,
                    DeletePayment
      <3> QED BY <2>1, <3>1, <3>2, StatusStep
    <2> QED BY <2>1
  <1> QED BY <1>1, BillingInvariant, PTL DEF BillingSpec, DecisionsChain
(***************************************************************************)
(* What the ledger adds up to, and what is told of it.                     *)
(***************************************************************************)
LEMMA AmountIsNat ==
    ASSUME NEW rows \in [Payments -> [state : {"none", "recorded", "deleted"},
                                      amount : Amounts \cup {0}, crossed : BOOLEAN]],
           NEW p \in Payments
    PROVE  rows[p].amount \in Nat
  <1>1. Amounts \cup {0} \subseteq Nat
    BY BillingAssumption DEF BillingAssumption
  <1>2. rows[p].amount \in Amounts \cup {0}
    OBVIOUS
  <1> QED BY <1>1, <1>2

LEMMA CentsFacts ==
    ASSUME BillingTypeOK
    PROVE  /\ IsFiniteSet(Payments) /\ \A p \in Payments : Cents[p] \in Nat
           /\ Cents = [p \in Payments |-> ledger[p].amount]
           /\ amount \in Nat /\ MaxInt \in Nat
           /\ Recorded \in SUBSET Payments /\ Uncrossed \in SUBSET Recorded
  <1>1. IsFiniteSet(Payments) /\ Amounts \subseteq Nat /\ MaxInt \in Nat
    BY BillingAssumption DEF BillingAssumption
  <1>2. \A p \in Payments : ledger[p].amount \in Nat
    BY AmountIsNat DEF BillingTypeOK
  <1> QED BY <1>1, <1>2 DEF Cents, BillingTypeOK, Recorded, Uncrossed

\* The ledger is worth at least what was recorded in time, which is no less for more payments.
LEMMA TotalFacts ==
    ASSUME BillingTypeOK, NEW T \in SUBSET Payments, NEW R \in SUBSET T
    PROVE  Total(T) \in Nat /\ Total(R) \in Nat /\ Total(R) <= Total(T)
  <1>1. /\ IsFiniteSet(Payments) /\ \A p \in Payments : Cents[p] \in Nat
        /\ R \in SUBSET Payments
    BY CentsFacts
  <1>2. /\ SumFunctionOnSet(Cents, T) \in Nat /\ SumFunctionOnSet(Cents, R) \in Nat
        /\ SumFunctionOnSet(Cents, R) <= SumFunctionOnSet(Cents, T)
    BY <1>1, SumType, SumGrows
  <1> QED BY <1>2 DEF Total

\* What a set of payments adds up to when one is recorded, and is among them or not.
LEMMA TotalsAfter ==
    ASSUME BillingTypeOK, BillingTypeOK', NEW p \in Payments, NEW T \in SUBSET Payments,
           p \notin T, \A q \in Payments \ {p} : ledger'[q] = ledger[q]
    PROVE  /\ SumFunctionOnSet(Cents', T) = Total(T)
           /\ SumFunctionOnSet(Cents', T \cup {p}) = Total(T) + ledger'[p].amount
  <1>1. /\ IsFiniteSet(Payments) /\ \A q \in Payments : Cents[q] \in Nat
        /\ IsFiniteSet(T)
    BY CentsFacts, FS_Subset
  <1>2. /\ \A q \in Payments : Cents'[q] = ledger'[q].amount
        /\ \A q \in Payments : Cents[q] = ledger[q].amount
    BY DEF Cents
  <1>3. \A q \in Payments : Cents'[q] \in Nat
    <2>1. \A q \in Payments : ledger'[q].amount \in Nat
      BY AmountIsNat DEF BillingTypeOK
    <2> QED BY <1>2, <2>1
  <1>4. \A q \in T : Cents[q] \in Nat /\ Cents'[q] = Cents[q]
    BY <1>1, <1>2
  <1>5. SumFunctionOnSet(Cents', T) = SumFunctionOnSet(Cents, T)
    BY <1>1, <1>4, SumAgrees
  <1>6. SumFunctionOnSet(Cents', T \cup {p}) = SumFunctionOnSet(Cents', T) + Cents'[p]
    BY <1>1, <1>3, SumAdds
  <1> QED BY <1>2, <1>5, <1>6 DEF Total

\* A step that leaves the ledger alone, by a request whose sum, if any, is of now.
LEMMA NewsKept ==
    ASSUME BillingTypeOK, BillingTypeOK', NewsInv, UNCHANGED <<amount, ledger, told>>,
           \/ news' = NoNews
           \/ UNCHANGED <<news, invoiceStatus>>,
           \A r \in Requests : req'[r].at = "summed" =>
              \/ req'[r] = req[r]
              \/ req'[r].sum = Sum + req'[r].amount
    PROVE  NewsInv'
  <1>1. /\ Sum' = Sum /\ Uncrossed' = Uncrossed
        /\ Total(Uncrossed)' = Total(Uncrossed)
    BY DEF Sum, Total, Cents, Recorded, Uncrossed
  <1>2. SumsAreOfNow'
    <2> SUFFICES ASSUME NEW r \in Requests, req'[r].at = "summed"
                 PROVE  /\ ~req'[r].crossed => req'[r].sum >= Sum' + req'[r].amount
                        /\ ~req'[r].undone => req'[r].sum <= Sum' + req'[r].amount
      BY DEF SumsAreOfNow
    <2>1. CASE req'[r] = req[r]
      BY <1>1, <2>1 DEF NewsInv, SumsAreOfNow
    <2>2. CASE req'[r].sum = Sum + req'[r].amount
      <3>1. Sum \in Nat
        BY CentsFacts, TotalFacts DEF Sum
      <3>2. req'[r] \in Transactions
        BY DEF BillingTypeOK
      <3>3. req'[r].amount \in Nat
        BY <3>2, TransactionParts, BillingAssumption DEF BillingAssumption
      <3> QED BY <1>1, <2>2, <3>1, <3>3
    <2> QED BY <2>1, <2>2
  <1>3. UncrossedIsTold'
    BY <1>1, Zenon DEF NewsInv, UncrossedIsTold
  <1>4. PaidIsTrue'
    BY <1>1 DEF NewsInv, PaidIsTrue, Shown, IsFullyPaid, NoNews
  <1> QED BY <1>2, <1>3, <1>4 DEF NewsInv

LEMMA NewsPaid ==
    ASSUME BillingInv, BillingTypeOK', NewsInv, NEW r \in Requests, CommitPayment(r)
    PROVE  NewsInv'
  <1> DEFINE p == req[r].payment
             c == req[r].amount
  <1>1. BillingTypeOK
    BY DEF BillingInv
  <1>2. /\ req[r].at = "summed" /\ p \in Payments /\ c \in Nat
        /\ req[r].crossed \in BOOLEAN /\ req[r].undone \in BOOLEAN /\ req[r].sum \in 0 .. MaxInt
    BY <1>1, TransactionParts, BillingAssumption
       DEF CommitPayment, BillingTypeOK, BillingAssumption
  <1>3. /\ ledger'[p] = Row("recorded", c, req[r].crossed)
        /\ \A q \in Payments \ {p} : ledger'[q] = ledger[q]
        /\ news' = [paid |-> IsFullyPaid(req[r].sum), undone |-> req[r].undone]
        /\ UNCHANGED <<amount, invoiceStatus>>
    BY <1>1, <1>2 DEF CommitPayment, BillingTypeOK
  <1>4. p \notin Recorded
    BY <1>2 DEF BillingInv, LedgerInv, InsertsAreNew, Recorded
  <1> HIDE DEF p, c
  <1>5. /\ Recorded' = Recorded \cup {p}
        /\ Uncrossed' = IF req[r].crossed THEN Uncrossed ELSE Uncrossed \cup {p}
    BY <1>2, <1>3, <1>4 DEF Recorded, Uncrossed, Row
  <1>6. /\ Recorded \in SUBSET Payments /\ Uncrossed \in SUBSET Recorded
        /\ amount \in Nat /\ MaxInt \in Nat
    BY <1>1, CentsFacts
  <1>7. Sum' = Sum + c
    BY <1>1, <1>2, <1>3, <1>4, <1>5, <1>6, TotalsAfter DEF Sum, Total, Row
  <1>8. /\ Total(Uncrossed)' \in Nat /\ Total(Uncrossed)' <= Sum'
        /\ req[r].crossed => Total(Uncrossed)' = Total(Uncrossed)
    <2>1. /\ IsFiniteSet(Payments) /\ \A q \in Payments : Cents'[q] \in Nat
          /\ Recorded' \in SUBSET Payments /\ Uncrossed' \in SUBSET Recorded'
      <3>1. \A q \in Payments : ledger'[q].amount \in Nat
        BY AmountIsNat DEF BillingTypeOK
      <3>2. \A q \in Payments : Cents'[q] = ledger'[q].amount
        BY DEF Cents
      <3> QED BY <1>1, <1>2, <1>5, <1>6, <3>1, <3>2, CentsFacts
    <2>2. /\ SumFunctionOnSet(Cents', Uncrossed') <= SumFunctionOnSet(Cents', Recorded')
          /\ SumFunctionOnSet(Cents', Uncrossed') \in Nat
      BY <2>1, SumGrows, SumType
    <2>3. req[r].crossed => SumFunctionOnSet(Cents', Uncrossed) = Total(Uncrossed)
      BY <1>1, <1>2, <1>3, <1>4, <1>6, TotalsAfter
    <2> QED BY <1>5, <2>2, <2>3 DEF Sum, Total
  <1>9. /\ ~req[r].crossed => req[r].sum >= Sum'
        /\ ~req[r].undone => req[r].sum <= Sum'
    BY <1>2, <1>7 DEF NewsInv, SumsAreOfNow, c
  <1>10. SumsAreOfNow'
    <2>1. CommitLedger(r, TRUE)
      BY DEF CommitPayment
    <2>2. ASSUME NEW q \in Requests, req'[q].at = "summed"
          PROVE  /\ req'[q].crossed = TRUE
                 /\ ~req'[q].undone => req'[q].sum <= Sum' + req'[q].amount
      <3>1. q # r
        <4>1. req'[r] = NoTransaction
          BY <1>1, <2>1, OthersAreCrossed
        <4> QED BY <2>2, <4>1 DEF NoTransaction
      <3>2. /\ req[q].at = "summed" /\ req'[q].crossed = TRUE /\ req'[q].undone = req[q].undone
            /\ req'[q].sum = req[q].sum /\ req'[q].amount = req[q].amount
        BY <1>1, <2>1, <2>2, <3>1, OthersAreCrossed
      <3>3. ~req[q].undone => req[q].sum <= Sum + req[q].amount
        BY <3>2 DEF NewsInv, SumsAreOfNow
      <3>4. req[q].sum \in Int /\ req[q].amount \in Nat /\ Sum \in Nat
        BY <1>1, <1>6, <3>2, SumParts, TotalFacts DEF Sum
      <3> QED BY <1>2, <1>7, <3>2, <3>3, <3>4
    <2> QED BY <2>2 DEF SumsAreOfNow
  <1>11. UncrossedIsTold'
    <2>1. told => told'
      BY Zenon DEF CommitPayment
    <2>2. IsFullyPaid(req[r].sum) /\ Sum + c >= amount => told'
      BY Zenon DEF CommitPayment, c
    <2>3. CASE req[r].crossed
      <3>1. /\ Total(Uncrossed) <= MaxInt
            /\ amount > 0 /\ Total(Uncrossed) >= amount => told
        BY Zenon DEF NewsInv, UncrossedIsTold
      <3>2. Total(Uncrossed)' = Total(Uncrossed) /\ amount' = amount
        BY <1>3, <1>8, <2>3
      <3> QED BY <2>1, <3>1, <3>2, Zenon DEF UncrossedIsTold
    <2>4. CASE ~req[r].crossed
      <3>0. Sum \in Nat
        BY <1>1, <1>6, TotalFacts DEF Sum
      <3>1. req[r].sum >= Sum' /\ Total(Uncrossed)' <= MaxInt
        BY <1>2, <1>6, <1>7, <1>8, <1>9, <2>4, <3>0
      <3>2. ASSUME amount > 0, Total(Uncrossed)' >= amount
            PROVE  IsFullyPaid(req[r].sum) /\ Sum + c >= amount
        BY <1>2, <1>6, <1>7, <1>8, <3>0, <3>1, <3>2 DEF IsFullyPaid
      <3>3. amount' = amount
        BY <1>3
      <3> QED BY <2>2, <3>1, <3>2, <3>3, Zenon DEF UncrossedIsTold
    <2> QED BY <1>2, <2>3, <2>4
  <1>12. PaidIsTrue'
    <2>1. Sum \in Nat
      BY <1>1, <1>6, TotalFacts DEF Sum
    <2> QED BY <1>2, <1>3, <1>6, <1>7, <1>9, <2>1 DEF PaidIsTrue, Shown, IsFullyPaid
  <1> QED BY <1>10, <1>11, <1>12 DEF NewsInv

LEMMA NewsDeleted ==
    ASSUME BillingInv, NewsInv, NEW r \in Requests, DeletePayment(r)
    PROVE  NewsInv'
  <1> DEFINE p == req[r].payment
  <1>1. BillingTypeOK
    BY DEF BillingInv
  <1>2. p \in Payments
    BY <1>1, TransactionParts DEF DeletePayment, BillingTypeOK
  <1>3. /\ ledger' = [ledger EXCEPT ![p] = [ledger[p] EXCEPT !.state = "deleted"]]
        /\ UNCHANGED amount /\ news' = NoNews
    BY <1>1, <1>2 DEF DeletePayment, BillingTypeOK
  <1> HIDE DEF p
  <1>4. /\ ledger'[p].state = "deleted" /\ ledger'[p].amount = ledger[p].amount
        /\ \A q \in Payments \ {p} : ledger'[q] = ledger[q]
    BY <1>1, <1>2, <1>3 DEF BillingTypeOK
  <1>5. Cents' = Cents /\ Recorded' = Recorded \ {p} /\ Uncrossed' = Uncrossed \ {p}
    BY <1>2, <1>4 DEF Cents, Recorded, Uncrossed
  <1>6. /\ Recorded \in SUBSET Payments /\ Uncrossed \in SUBSET Recorded
        /\ amount \in Nat /\ MaxInt \in Nat
    BY <1>1, CentsFacts
  <1>7. /\ Total(Uncrossed \ {p}) <= Total(Uncrossed)
        /\ Total(Uncrossed \ {p}) <= Total(Recorded \ {p})
        /\ Total(Uncrossed) \in Nat /\ Total(Uncrossed \ {p}) \in Nat
        /\ Total(Recorded \ {p}) \in Nat
    BY <1>1, <1>6, TotalFacts
  <1>8. Total(Uncrossed)' = Total(Uncrossed \ {p})
    BY <1>5 DEF Total
  <1>9. SumsAreOfNow'
    <2>1. CommitLedger(r, FALSE)
      BY DEF DeletePayment
    <2>2. ASSUME NEW q \in Requests, req'[q].at = "summed"
          PROVE  /\ req'[q].undone = TRUE
                 /\ ~req'[q].crossed => req'[q].sum >= Sum' + req'[q].amount
      <3>1. q # r
        <4>1. req'[r] = NoTransaction
          BY <1>1, <2>1, OthersAreCrossed
        <4> QED BY <2>2, <4>1 DEF NoTransaction
      <3>2. /\ req[q].at = "summed" /\ req'[q].undone = TRUE /\ req'[q].crossed = req[q].crossed
            /\ req'[q].sum = req[q].sum /\ req'[q].amount = req[q].amount
        BY <1>1, <2>1, <2>2, <3>1, OthersAreCrossed
      <3>3. ~req[q].crossed => req[q].sum >= Sum + req[q].amount
        BY <3>2 DEF NewsInv, SumsAreOfNow
      <3>4. req[q].sum \in Int /\ req[q].amount \in Nat
        BY <1>1, <3>2, SumParts
      <3>5. Sum \in Nat /\ Sum' \in Nat /\ Sum' <= Sum
        <4>1. Total(Recorded) \in Nat /\ Total(Recorded \ {p}) <= Total(Recorded)
          BY <1>1, <1>6, TotalFacts
        <4>2. Sum' = Total(Recorded \ {p})
          BY <1>5 DEF Sum, Total
        <4> QED BY <1>7, <4>1, <4>2 DEF Sum
      <3> QED BY <3>2, <3>3, <3>4, <3>5
    <2> QED BY <2>2 DEF SumsAreOfNow
  <1>10. UncrossedIsTold'
    <2>1. told /\ IsFullyPaid(Total(Recorded \ {p})) => told'
      BY Zenon DEF DeletePayment, p
    <2>2. /\ Total(Uncrossed) <= MaxInt
          /\ amount > 0 /\ Total(Uncrossed) >= amount => told
      BY Zenon DEF NewsInv, UncrossedIsTold
    <2>3. Total(Uncrossed \ {p}) <= MaxInt
      BY <1>6, <1>7, <2>2
    <2>4. ASSUME amount > 0, Total(Uncrossed \ {p}) >= amount
          PROVE  Total(Uncrossed) >= amount /\ IsFullyPaid(Total(Recorded \ {p}))
      BY <1>6, <1>7, <2>4 DEF IsFullyPaid
    <2>5. amount' = amount
      BY <1>3
    <2> QED BY <1>8, <2>1, <2>2, <2>3, <2>4, <2>5, Zenon DEF UncrossedIsTold
  <1>11. PaidIsTrue'
    BY <1>3 DEF PaidIsTrue, NoNews
  <1> QED BY <1>9, <1>10, <1>11 DEF NewsInv

LEMMA NewsNext == BillingInv /\ BillingInv' /\ NewsInv /\ [BillingNext]_billing => NewsInv'
  <1> SUFFICES ASSUME BillingInv, BillingInv', NewsInv, [BillingNext]_billing PROVE NewsInv'
    OBVIOUS
  <1>1. BillingTypeOK /\ BillingTypeOK'
    BY DEF BillingInv
  <1>2. ASSUME NEW r \in Requests, PostPayment(r) PROVE NewsInv'
    <2>1. PICK p \in Payments, cents \in Amounts : InsertPayment(r, p, cents)
      BY <1>2 DEF PostPayment
    <2>2. /\ UNCHANGED <<amount, ledger, told>> /\ news' = NoNews
          /\ req' = [req EXCEPT ![r] = [at |-> "summed", payment |-> p, amount |-> cents,
                                        sum |-> Sum + cents, crossed |-> FALSE,
                                        undone |-> FALSE]]
      BY <2>1 DEF InsertPayment, Inserting, BeginTransaction
    <2>3. \A q \in Requests : req'[q] = req[q] \/ req'[q].sum = Sum + req'[q].amount
      BY <1>1, <2>2 DEF BillingTypeOK
    <2> QED BY <1>1, <2>2, <2>3, NewsKept
  <1>3. ASSUME NEW r \in Requests,
               PostDelete(r) \/ PostStatus(r) \/ SetInvoiceStatus(r) \/ Abort(r)
        PROVE  NewsInv'
    <2>1. UNCHANGED <<amount, ledger, told>> /\ news' = NoNews
      BY <1>3 DEF PostDelete, FindPayment, PostStatus, LockInvoice, SetInvoiceStatus, Abort
    <2>2. \A q \in Requests : req'[q] = req[q] \/ req'[q].at # "summed"
      <3>1. PICK o : o.at # "summed" /\ req' = [req EXCEPT ![r] = o]
        <4>1. CASE PostDelete(r)
          BY <4>1 DEF PostDelete, FindPayment, BeginTransaction
        <4>2. CASE PostStatus(r)
          BY <4>2 DEF PostStatus, LockInvoice, BeginTransaction
        <4>3. CASE SetInvoiceStatus(r) \/ Abort(r)
          BY <4>3 DEF SetInvoiceStatus, Abort, EndTransaction, NoTransaction
        <4> QED BY <1>3, <4>1, <4>2, <4>3
      <3> QED BY <1>1, <3>1 DEF BillingTypeOK
    <2> QED BY <1>1, <2>1, <2>2, NewsKept
  <1>4. CASE UNCHANGED billing
    BY <1>1, <1>4, NewsKept DEF billing
  <1> QED BY <1>1, <1>2, <1>3, <1>4, NewsPaid, NewsDeleted DEF BillingNext

\* The inductive invariant of the news: a sum that no payment has crossed is no less than
\* the ledger of now, one that no deletion has undone no more, and what was recorded
\* on sums that were not crossed fits an integer and was told.
THEOREM NewsInvariant == BillingSpec => []NewsInv
  <1>1. BillingInit => NewsInv
    <2> SUFFICES ASSUME BillingInit PROVE NewsInv
      OBVIOUS
    <2>1. Uncrossed = {} /\ Total({}) = 0
      BY SumOfNone DEF BillingInit, Uncrossed, Recorded, NoPayment, Row, Total
    <2>2. amount \in Nat /\ MaxInt \in Nat
      BY BillingAssumption DEF BillingInit, BillingAssumption
    <2>3. Total(Uncrossed) <= MaxInt /\ ~(amount > 0 /\ Total(Uncrossed) >= amount)
      BY <2>1, <2>2
    <2>4. UncrossedIsTold
      BY <2>3, Zenon DEF UncrossedIsTold
    <2> QED BY <2>4 DEF BillingInit, NewsInv, SumsAreOfNow, PaidIsTrue, NoNews, NoTransaction
  <1> QED BY <1>1, NewsNext, BillingInvariant, PTL DEF BillingSpec

LEMMA NewsFollow ==
    BillingInv /\ NewsInv => PaidNewsIsRight /\ LedgerFits
  <1> SUFFICES ASSUME BillingInv, NewsInv PROVE PaidNewsIsRight /\ LedgerFits
    OBVIOUS
  <1>1. ~Crossed => Uncrossed = Recorded
    BY DEF Crossed, Uncrossed
  <1>2. /\ Total(Uncrossed) <= MaxInt
        /\ amount > 0 /\ Total(Uncrossed) >= amount => told
    BY Zenon DEF NewsInv, UncrossedIsTold
  <1>3. PaidIsTold
    BY <1>1, <1>2, Zenon DEF PaidIsTold, IsFullyPaid, Sum
  <1>4. LedgerFits
    <2>1. Recorded \in SUBSET Payments /\ MaxInt \in Nat
      BY CentsFacts DEF BillingInv
    <2>2. Total(Recorded) \in Nat
      BY <2>1, TotalFacts DEF BillingInv
    <2> QED BY <1>1, <1>2, <2>1, <2>2 DEF LedgerFits, Sum
  <1> QED BY <1>3, <1>4 DEF PaidNewsIsRight, NewsInv

\* An invoice that its ledger has paid was announced as paid unless two payments passed
\* each other, and what is announced as paid is shown as paid, however payments are
\* recorded and deleted around each other.
THEOREM PaidNewsAlways == BillingSpec => []PaidNewsIsRight
  BY NewsFollow, BillingInvariant, NewsInvariant, PTL

\* The ledger adds up to more than an integer holds only when two payments passed each
\* other: each was checked against a sum without the other.
THEOREM LedgerFitsAlways == BillingSpec => []LedgerFits
  BY NewsFollow, BillingInvariant, NewsInvariant, PTL
=============================================================================
