----------------------------- MODULE ReadsProofs -----------------------------
(***************************************************************************)
(* Proofs about Reads, for every set of rows and environments, every scope *)
(* and page size, and any number of writes of others during the walk.      *)
(***************************************************************************)
EXTENDS Reads, FiniteSetTheorems, FunctionTheorems, WellFoundedInduction, TLAPS

Shown == {row[1] : row \in shown}

(* The rows a statement returns before id, and how many those are, in the  *)
(* order of route r.                                                       *)
Ahead(r, ids, id) == {i \in ids : IF r = "audit" THEN i > id ELSE i < id}

Place(r, ids, id) == Cardinality(Ahead(r, ids, id))

(* The walks the properties promise to be whole.                           *)
Whole ==
    \/ route \in {"audit", "inventory"}
    \/ route \in {"values", "environments"} /\ (full \/ asked \in Scope)

-----------------------------------------------------------------------------
(* The inductive invariant.                                                *)

Asked == route \notin {"values", "audit"} => asked = 0

(* What stayed in sight is in sight.                                       *)
InSight == steady \subseteq Sight

(* A row the walk owes is on a page to come, and none is owed at the end.  *)
StillToCome ==
    Whole /\ ~disturbed =>
       IF pc = "done" THEN steady \subseteq Shown
       ELSE \A id \in steady \ Shown : Place(route, Sight, id) >= offset

ReadsInv == ReadsTypeOK /\ Asked /\ InSight /\ ReadsStayInScope /\ StillToCome

-----------------------------------------------------------------------------
(* The places of rows in a statement.                                      *)

LEMMA AheadTransitive ==
  ASSUME NEW r, NEW S \in SUBSET Nat, NEW T \in SUBSET Nat, NEW j \in Nat,
         NEW i \in Ahead(r, S, j)
  PROVE  Ahead(r, T, i) \subseteq Ahead(r, T, j) /\ i \notin Ahead(r, T, i)
  <1>1. i \in Nat
    BY DEF Ahead
  <1>2. CASE r = "audit"
    <2>1. i > j
      BY <1>2 DEF Ahead
    <2>2. \A k \in T : k > i => k > j
      BY <1>1, <2>1
    <2>3. \A h : Ahead(r, T, h) = {k \in T : k > h}
      BY <1>2 DEF Ahead
    <2>4. ~(i > i)
      BY <1>1
    <2>5. QED
      BY <2>2, <2>3, <2>4
  <1>3. CASE r # "audit"
    <2>1. i < j
      BY <1>3 DEF Ahead
    <2>2. \A k \in T : k < i => k < j
      BY <1>1, <2>1
    <2>3. \A h : Ahead(r, T, h) = {k \in T : k < h}
      BY <1>3 DEF Ahead
    <2>4. ~(i < i)
      BY <1>1
    <2>5. QED
      BY <2>2, <2>3, <2>4
  <1>4. QED
    BY <1>2, <1>3

LEMMA PlaceType ==
  ASSUME NEW r, NEW S \in SUBSET RowId, NEW id
  PROVE  IsFiniteSet(Ahead(r, S, id)) /\ Place(r, S, id) \in Nat
  <1>1. Ahead(r, S, id) \in SUBSET RowId
    BY DEF Ahead
  <1>2. QED
    BY <1>1, ReadsAssumption, FS_Subset, FS_CardinalityType DEF Place

(* More rows never bring a row forward.                                    *)
LEMMA PlaceGrows ==
  ASSUME NEW r, NEW T \in SUBSET RowId, NEW S \in SUBSET T, NEW id
  PROVE  Place(r, S, id) <= Place(r, T, id)
  <1>1. Ahead(r, S, id) \in SUBSET Ahead(r, T, id)
    BY DEF Ahead
  <1>2. QED
    BY <1>1, PlaceType, FS_Subset DEF Place

(* Nor does the loss of a row that is itself still to come bring a row     *)
(* that is still to come behind the walk.                                  *)
LEMMA PlaceHolds ==
  ASSUME NEW r, NEW S \in SUBSET RowId, NEW gone \in S, NEW id \in S \ {gone},
         NEW n \in Nat, Place(r, S, id) >= n, Place(r, S, gone) >= n
  PROVE  Place(r, S \ {gone}, id) >= n
  <1>1. S \ {gone} \in SUBSET RowId /\ id \in Nat /\ gone \in Nat /\ S \subseteq Nat
    BY ReadsAssumption
  <1>2. CASE gone \in Ahead(r, S, id)
    <2>1. Ahead(r, S, gone) \in SUBSET Ahead(r, S \ {gone}, id)
      <3>1. Ahead(r, S, gone) \subseteq Ahead(r, S, id) /\ gone \notin Ahead(r, S, gone)
        BY <1>1, <1>2, AheadTransitive
      <3>2. QED
        BY <3>1 DEF Ahead
    <2>2. Place(r, S, gone) <= Place(r, S \ {gone}, id)
      BY <1>1, <2>1, PlaceType, FS_Subset DEF Place
    <2>3. QED
      BY <1>1, <2>2, PlaceType
  <1>3. CASE gone \notin Ahead(r, S, id)
    <2>1. Ahead(r, S \ {gone}, id) = Ahead(r, S, id)
      BY <1>3 DEF Ahead
    <2>2. QED
      BY <2>1 DEF Place
  <1>4. QED
    BY <1>2, <1>3

LEMMA PlaceStrict ==
  ASSUME NEW r, NEW S \in SUBSET RowId, NEW j \in S, NEW i \in Ahead(r, S, j)
  PROVE  Place(r, S, i) < Place(r, S, j)
  <1>1. i \in Nat /\ j \in Nat /\ S \subseteq Nat
    BY ReadsAssumption DEF Ahead
  <1>2. Ahead(r, S, i) \in SUBSET Ahead(r, S, j) /\ i \notin Ahead(r, S, i)
    BY <1>1, AheadTransitive
  <1>3. Ahead(r, S, i) # Ahead(r, S, j)
    BY <1>2
  <1>4. QED
    BY <1>2, <1>3, PlaceType, FS_Subset DEF Place

(* No two rows have one place.                                             *)
LEMMA PlaceInjective ==
  ASSUME NEW r, NEW S \in SUBSET RowId, NEW i \in S, NEW j \in S,
         Place(r, S, i) = Place(r, S, j)
  PROVE  i = j
  <1>1. i \in Nat /\ j \in Nat
    BY ReadsAssumption
  <1>2. i # j => i \in Ahead(r, S, j) \/ j \in Ahead(r, S, i)
    BY <1>1 DEF Ahead
  <1>3. QED
    BY <1>2, PlaceStrict, PlaceType

LEMMA FewPlaces ==
  ASSUME NEW r, NEW S \in SUBSET RowId, NEW B \in SUBSET S, NEW n \in Nat,
         \A i \in B : Place(r, S, i) < n
  PROVE  IsFiniteSet(B) /\ Cardinality(B) <= n
  <1> DEFINE f == [i \in B |-> Place(r, S, i)]
  <1>1. f \in [B -> 0..(n-1)]
    BY PlaceType
  <1>2. \A i, j \in B : f[i] = f[j] => i = j
    BY PlaceInjective
  <1>3. f \in Injection(B, 0..(n-1))
    BY <1>1, <1>2, Fun_IsInj, Zenon
  <1>4. IsFiniteSet(0..(n-1)) /\ Cardinality(0..(n-1)) = n
    BY FS_Interval
  <1>5. QED
    BY <1>3, <1>4, FS_Injection

LEMMA LeastNatural ==
  ASSUME NEW T \in SUBSET Nat, T # {}
  PROVE  \E k \in T : \A m \in T : k <= m
  <1>1. PICK k \in T : \A m \in T : <<m, k>> \notin OpToRel(<, Nat)
    BY NatLessThanWellFounded, WFMin, Zenon
  <1>2. ASSUME NEW m \in T PROVE k <= m
    <2> DEFINE pair == <<m, k>>
    <2>1. pair \in Nat \X Nat /\ pair[1] = m /\ pair[2] = k
      OBVIOUS
    <2>2. pair \notin OpToRel(<, Nat)
      BY <1>1, Zenon
    <2> HIDE DEF pair
    <2>3. ~(pair[1] < pair[2])
      BY <2>1, <2>2, Zenon DEF OpToRel
    <2>4. QED
      BY <2>1, <2>3
  <1>3. QED
    BY <1>2

(* When a row is behind n others, there is one at place n.                 *)
LEMMA PlaceReached ==
  ASSUME NEW r, NEW S \in SUBSET RowId, NEW n \in Nat,
         NEW id \in S, Place(r, S, id) >= n
  PROVE  \E x \in S : Place(r, S, x) = n
  <1> DEFINE Places == {k \in Nat : k >= n /\ \E x \in S : Place(r, S, x) = k}
  <1>1. Places # {} /\ Places \subseteq Nat
    BY PlaceType
  <1> HIDE DEF Places
  <1>2. PICK k \in Places : \A m \in Places : k <= m
    BY <1>1, LeastNatural
  <1>3. k \in Nat /\ k >= n
    BY <1>2 DEF Places
  <1>4. PICK x \in S : Place(r, S, x) = k
    BY <1>2 DEF Places
  <1>5. \A i \in Ahead(r, S, x) : Place(r, S, i) < n
    <2>1. SUFFICES ASSUME NEW i \in Ahead(r, S, x) PROVE Place(r, S, i) < n
      OBVIOUS
    <2>2. i \in S /\ Place(r, S, i) \in Nat /\ Place(r, S, i) < k
      BY <1>4, <2>1, PlaceStrict, PlaceType DEF Ahead
    <2>3. Place(r, S, i) \notin Places
      BY <1>2, <1>3, <2>2
    <2>4. QED
      BY <2>2, <2>3 DEF Places
  <1>6. Ahead(r, S, x) \in SUBSET S
    BY DEF Ahead
  <1>7. Place(r, S, x) <= n
    BY <1>5, <1>6, FewPlaces DEF Place
  <1>8. QED
    BY <1>3, <1>4, <1>7

(* When a row lies beyond a page, the page is full.                        *)
LEMMA PageIsFull ==
  ASSUME NEW r, NEW S \in SUBSET RowId, NEW n \in Nat, NEW m \in Nat,
         NEW id \in S, Place(r, S, id) >= n + m,
         NEW P, P = {x \in S : n <= Place(r, S, x) /\ Place(r, S, x) < n + m}
  PROVE  IsFiniteSet(P) /\ Cardinality(P) \in Nat /\ Cardinality(P) >= m
  <1> DEFINE B == {x \in S : Place(r, S, x) < n}
  <1>1. PICK x \in S : Place(r, S, x) = n + m
    BY PlaceReached
  <1>2. IsFiniteSet(B) /\ Cardinality(B) <= n /\ Cardinality(B) \in Nat
    BY FewPlaces, FS_CardinalityType
  <1>3. IsFiniteSet(P) /\ Cardinality(P) \in Nat
    <2>1. P \in SUBSET RowId
      OBVIOUS
    <2>2. QED
      BY <2>1, ReadsAssumption, FS_Subset, FS_CardinalityType
  <1>4. Ahead(r, S, x) \in SUBSET (B \cup P)
    <2>1. \A i \in Ahead(r, S, x) : i \in S /\ Place(r, S, i) \in Nat /\ Place(r, S, i) < n + m
      BY <1>1, PlaceStrict, PlaceType DEF Ahead
    <2>2. QED
      BY <2>1
  <1> HIDE DEF B
  <1>5. IsFiniteSet(B \cup P) /\ Cardinality(B \cup P) <= Cardinality(B) + Cardinality(P)
    <2>1. B \cap P \in SUBSET B
      OBVIOUS
    <2>2. Cardinality(B \cap P) \in Nat
      BY <1>2, <2>1, FS_Subset, FS_CardinalityType
    <2>3. IsFiniteSet(B \cup P) /\
          Cardinality(B \cup P) = Cardinality(B) + Cardinality(P) - Cardinality(B \cap P)
      BY <1>2, <1>3, FS_Union
    <2>4. QED
      BY <1>2, <1>3, <2>2, <2>3
  <1>6. Cardinality(Ahead(r, S, x)) <= Cardinality(B \cup P) /\ Cardinality(B \cup P) \in Nat
    BY <1>4, <1>5, FS_Subset, FS_CardinalityType
  <1>7. Cardinality(P) >= m
    BY <1>1, <1>2, <1>3, <1>5, <1>6 DEF Place
  <1>8. QED
    BY <1>3, <1>7

-----------------------------------------------------------------------------
(* What a read returns.                                                    *)

LEMMA LivesType ==
  ASSUME ReadsTypeOK, NEW id \in Present
  PROVE  id \in RowId /\ id \in Nat /\ Lives(id) \in Nat
  <1>1. id \in RowId /\ id \in Nat
    BY ReadsAssumption DEF Present
  <1>2. table[id] \in Values(route)
    BY DEF Present, ReadsTypeOK
  <1>3. Values(route) \subseteq Nat
    BY ReadsAssumption DEF Values
  <1>4. QED
    BY <1>1, <1>2, <1>3 DEF Lives

LEMMA SightType == Sight \in SUBSET RowId
  BY DEF Sight, Present

(* Every route's rows are in the scope of the token they are sent to.      *)
LEMMA HandledIsPresent == Handled \subseteq Present
  <1>1. auditList \subseteq Present /\ inventory \subseteq Present /\ listing \subseteq Present
    BY DEF auditList, inventory, listing, Page, Selected
  <1>2. QED
    BY <1>1 DEF Handled

LEMMA ReadIsInScope ==
  ASSUME route \in Route
  PROVE
  /\ route # "value" => \A id \in read(Handled) : id \in Present /\ (full \/ Lives(id) \in Scope)
  /\ route = "value" =>
       \A i \in RowId : \A id \in read({i} \cap Present) :
          id \in Present /\ (full \/ Lives(id) \in Scope)
  <1>1. CASE full
    BY <1>1, HandledIsPresent DEF read
  <1>2. CASE ~full /\ route = "audit"
    <2>1. environmentFilter \subseteq Scope
      BY <1>2 DEF environmentFilter
    <2>2. \A id \in auditList : id \in Present /\ table[id] \in Scope
      BY <2>1 DEF auditList, Page
    <2>3. read(Handled) = auditList
      BY <1>2 DEF read, Handled, readClass, scopeField
    <2>4. QED
      BY <1>2, <2>2, <2>3 DEF Lives
  <1>3. CASE ~full /\ route = "inventory"
    <2>1. \A id \in inventory : id \in Present /\ table[id] \in Scope
      BY <1>3 DEF inventory, Page, inScope
    <2>2. read(Handled) = inventory
      BY <1>3 DEF read, Handled, readClass, scopeField
    <2>3. QED
      BY <1>3, <2>1, <2>2 DEF Lives
  <1>4. CASE ~full /\ route \notin {"audit", "inventory"}
    <2>1. CASE route = "environments"
      <3>1. \A ids : read(ids) = {id \in ids : id \in Scope}
        BY <1>4, <2>1 DEF read, readClass, scopeField, scopeFilter, rowEnvironment
      <3>2. QED
        BY <2>1, <3>1, HandledIsPresent DEF Lives
    <2>2. CASE route \in {"values", "value"}
      <3>1. \A ids : read(ids) = {id \in ids : table[id] \in Scope}
        BY <1>4, <2>2 DEF read, readClass, scopeField, scopeFilter, rowEnvironment
      <3>2. \A id : Lives(id) = table[id]
        BY <2>2 DEF Lives
      <3>3. QED
        BY <3>1, <3>2, HandledIsPresent
    <2>3. QED
      BY <1>4, <2>1, <2>2 DEF Route
  <1>5. QED
    BY <1>1, <1>2, <1>3, <1>4
(* On a walk that is promised to be whole, a page is a page of the sight.  *)
LEMMA ReadPagesSight ==
  ASSUME ReadsTypeOK, Asked, Whole
  PROVE  read(Handled) = {id \in Sight : /\ offset <= Place(route, Sight, id)
                                         /\ Place(route, Sight, id) < offset + Limit}
  <1>1. \A id \in Present : id \in Nat /\ Lives(id) \in Nat
    BY LivesType
  <1>2. \A ids : Page(ids) = {id \in ids : /\ offset <= Place(route, ids, id)
                                           /\ Place(route, ids, id) < offset + Limit}
    BY DEF Page, Rank, Before, Place, Ahead
  <1>3. 0 \notin Scope /\ 0 \notin Env /\ Scope \subseteq Env
    BY ReadsAssumption
  <1>4. read(Handled) = Page(Sight)
    <2>1. CASE route = "audit"
      <3>1. \A id \in Present : Lives(id) = table[id] /\ table[id] \in Env \cup {0}
        BY <2>1 DEF Lives, Present, ReadsTypeOK, Values
      <3>2. {id \in Present : table[id] \in environmentFilter} = Sight
        BY <1>3, <3>1 DEF Sight, environmentFilter
      <3>3. read(Handled) = auditList
        BY <2>1 DEF read, Handled, readClass, scopeField
      <3>4. QED
        BY <3>2, <3>3 DEF auditList
    <2>2. CASE route = "inventory"
      <3>1. {id \in Present : inScope(table[id])} = Sight
        BY <2>2 DEF Asked, inScope, Sight, Lives
      <3>2. read(Handled) = inventory
        BY <2>2 DEF read, Handled, readClass, scopeField
      <3>3. QED
        BY <3>1, <3>2 DEF inventory
    <2>3. CASE route = "environments" /\ full
      <3>1. Selected = Sight
        BY <2>3 DEF Asked, Selected, Sight
      <3>2. read(Handled) = listing
        BY <2>3 DEF read, Handled
      <3>3. QED
        BY <3>1, <3>2 DEF listing
    <2>4. CASE route = "values" /\ full
      <3>1. Selected = Sight
        BY <2>4 DEF Selected, Sight, Lives
      <3>2. read(Handled) = listing
        BY <2>4 DEF read, Handled
      <3>3. QED
        BY <3>1, <3>2 DEF listing
    <2>5. CASE route = "values" /\ ~full /\ asked \in Scope
      <3>1. asked # 0
        BY <1>3, <2>5
      <3>2. Selected = Sight
        BY <2>5, <3>1 DEF Selected, Sight, Lives
      <3>3. \A id \in Selected : table[id] \in Scope
        BY <2>5, <3>1 DEF Selected
      <3>4. read(Handled) = {id \in listing : table[id] \in Scope}
        BY <2>5 DEF read, Handled, readClass, scopeField, scopeFilter, rowEnvironment
      <3>5. \A id \in listing : table[id] \in Scope
        BY <3>3 DEF listing, Page
      <3>6. QED
        BY <3>2, <3>4, <3>5 DEF listing
    <2>6. route = "environments" => full
      BY <1>3 DEF Whole, Asked
    <2>7. QED
      BY <2>1, <2>2, <2>3, <2>4, <2>5, <2>6 DEF Whole
  <1>5. QED
    BY <1>2, <1>4

-----------------------------------------------------------------------------
(* Every step keeps the invariant.                                         *)

LEMMA InitHolds == Init => ReadsInv
  <1>1. SUFFICES ASSUME Init PROVE ReadsInv
    OBVIOUS
  <1>2. ReadsTypeOK /\ Asked
    <2>1. asked \in Env \cup {0} /\ Asked
      BY <1>1 DEF Init, Asked
    <2>2. 0 \in Nat /\ 0 \in 0..MaxChanges
      BY ReadsAssumption
    <2>3. shown \subseteq RowId \X Nat /\ steady \subseteq RowId
      BY <1>1, SightType DEF Init
    <2>4. QED
      BY <1>1, <2>1, <2>2, <2>3 DEF Init, ReadsTypeOK
  <1>3. InSight /\ ReadsStayInScope
    BY <1>1 DEF Init, InSight, ReadsStayInScope
  <1>4. StillToCome
    <2>1. \A id : Place(route, Sight, id) >= 0
      BY SightType, PlaceType
    <2>2. QED
      BY <1>1, <2>1 DEF Init, StillToCome
  <1>5. QED
    BY <1>2, <1>3, <1>4 DEF ReadsInv

(* What a read shows is typed and in scope.                                *)
LEMMA ShowHolds ==
  ASSUME ReadsInv, route' = route, full' = full,
         NEW ids \in SUBSET Present, \A id \in ids : full \/ Lives(id) \in Scope,
         Show(ids)
  PROVE  shown' \subseteq RowId \X Nat /\ ReadsStayInScope'
  <1>1. \A id \in ids : id \in RowId /\ Lives(id) \in Nat
    BY LivesType DEF ReadsInv
  <1>2. \A row \in shown' : row \in shown \/ \E id \in ids : row = <<id, Lives(id)>>
    BY DEF Show
  <1>3. shown' \subseteq RowId \X Nat
    BY <1>1, <1>2 DEF ReadsInv, ReadsTypeOK
  <1>4. ReadsStayInScope'
    BY <1>2 DEF ReadsInv, ReadsStayInScope
  <1>5. QED
    BY <1>3, <1>4

LEMMA NextPageHolds == ReadsInv /\ NextPage => ReadsInv'
  <1> SUFFICES ASSUME ReadsInv, NextPage PROVE ReadsInv'
    OBVIOUS
  <1> DEFINE P == read(Handled)
  <1>1. P \subseteq Present /\ \A id \in P : full \/ Lives(id) \in Scope
    BY ReadIsInScope DEF ReadsInv, ReadsTypeOK, NextPage
  <1>2. /\ Show(P)
        /\ UNCHANGED <<route, full, asked, table, changes, steady, disturbed>>
        /\ pc' = (IF Last(P) THEN "done" ELSE "walking") /\ offset' = offset + Limit
        /\ pc = "walking"
    BY DEF NextPage, request
  <1> HIDE DEF P
  <1>3. shown' \subseteq RowId \X Nat /\ ReadsStayInScope'
    BY <1>1, <1>2, ShowHolds
  <1>4. Limit \in Nat \ {0} /\ offset \in Nat
    BY ReadsAssumption DEF ReadsInv, ReadsTypeOK
  <1>5. ReadsTypeOK' /\ Asked'
    BY <1>2, <1>3, <1>4 DEF ReadsInv, ReadsTypeOK, Asked
  <1>6. Sight' = Sight
    BY <1>2 DEF Sight, Present, Lives
  <1>7. InSight'
    BY <1>2, <1>6 DEF ReadsInv, InSight
  <1>8. StillToCome'
    <2>1. SUFFICES ASSUME Whole, ~disturbed
          PROVE  IF pc' = "done" THEN steady \subseteq Shown'
                 ELSE \A id \in steady \ Shown' : Place(route, Sight, id) >= offset + Limit
      BY <1>2, <1>6 DEF StillToCome, Whole
    <2>2. P = {id \in Sight : /\ offset <= Place(route, Sight, id)
                              /\ Place(route, Sight, id) < offset + Limit}
      BY <2>1, ReadPagesSight DEF ReadsInv, P
    <2>3. P \subseteq Shown' /\ Shown \subseteq Shown'
      <3>1. \A id \in P : <<id, Lives(id)>> \in shown' /\ <<id, Lives(id)>>[1] = id
        BY <1>2 DEF Show
      <3>2. shown \subseteq shown'
        BY <1>2 DEF Show
      <3>3. QED
        BY <3>1, <3>2 DEF Shown
    <2>4. ASSUME NEW id \in steady \ Shown'
          PROVE  id \in Sight /\ Place(route, Sight, id) >= offset + Limit
      <3>1. id \in Sight /\ Place(route, Sight, id) >= offset
        BY <1>2, <2>1, <2>3, <2>4 DEF ReadsInv, InSight, StillToCome
      <3>2. Place(route, Sight, id) \in Nat
        BY SightType, PlaceType
      <3>3. QED
        BY <1>4, <2>2, <2>3, <2>4, <3>1, <3>2
    <2>5. ASSUME Last(P), NEW id \in steady \ Shown'
          PROVE  FALSE
      <3>1. id \in Sight /\ Place(route, Sight, id) >= offset + Limit
        BY <2>4, <2>5
      <3>2. IsFiniteSet(P) /\ Cardinality(P) \in Nat /\ Cardinality(P) >= Limit
        BY <1>4, <2>2, <3>1, SightType, PageIsFull
      <3>3. P # {}
        BY <1>4, <3>2, FS_EmptySet
      <3>4. QED
        BY <1>4, <2>5, <3>2, <3>3 DEF Last
    <2>6. QED
      BY <1>2, <2>4, <2>5
  <1>9. QED
    BY <1>3, <1>5, <1>7, <1>8 DEF ReadsInv

LEMMA FetchHolds == \A id \in RowId : ReadsInv /\ Fetch(id) => ReadsInv'
  <1> SUFFICES ASSUME NEW id \in RowId, ReadsInv, Fetch(id) PROVE ReadsInv'
    OBVIOUS
  <1> DEFINE P == read({id} \cap Present)
  <1>1. P \subseteq Present /\ \A i \in P : full \/ Lives(i) \in Scope
    BY ReadIsInScope DEF ReadsInv, ReadsTypeOK, Fetch
  <1>2. /\ Show(P) /\ route = "value"
        /\ UNCHANGED <<route, full, asked, table, offset, pc, changes, steady, disturbed>>
    BY DEF Fetch, request
  <1> HIDE DEF P
  <1>3. shown' \subseteq RowId \X Nat /\ ReadsStayInScope'
    BY <1>1, <1>2, ShowHolds
  <1>4. ReadsTypeOK' /\ Asked' /\ InSight'
    BY <1>2, <1>3 DEF ReadsInv, ReadsTypeOK, Asked, InSight, Sight, Present, Lives
  <1>5. StillToCome'
    BY <1>2 DEF StillToCome, Whole
  <1>6. QED
    BY <1>3, <1>4, <1>5 DEF ReadsInv
(* The write of another keeps it, if it writes what a row can hold.        *)
LEMMA ChangeHolds ==
  ASSUME ReadsInv, NEW id \in RowId, NEW value \in Values(route) \cup {Absent},
         Change(id, value)
  PROVE  ReadsInv'
  <1>1. /\ UNCHANGED <<route, full, asked, offset, pc, shown>>
        /\ table' = [table EXCEPT ![id] = value] /\ steady' = steady \cap Sight'
        /\ changes' = changes + 1 /\ changes < MaxChanges
        /\ disturbed' = (disturbed \/ (id \in Sight \ Sight' /\ Rank(Sight, id) < offset))
    BY DEF Change, request
  <1>2. ReadsTypeOK
    BY DEF ReadsInv
  <1>3. Sight \in SUBSET RowId
    BY SightType
  <1>4. Sight' \in SUBSET RowId
    BY DEF Sight, Present
  <1>5. ReadsTypeOK'
    <2>1. table' \in [RowId -> Values(route) \cup {Absent}]
      BY <1>1, <1>2 DEF ReadsTypeOK
    <2>2. Values(route') = Values(route)
      BY <1>1
    <2>3. changes' \in 0..MaxChanges
      BY <1>1, <1>2, ReadsAssumption DEF ReadsTypeOK
    <2>4. steady' \subseteq RowId
      BY <1>1, <1>4
    <2>5. disturbed' \in BOOLEAN
      BY <1>1
    <2>6. QED
      BY <1>1, <1>2, <2>1, <2>2, <2>3, <2>4, <2>5 DEF ReadsTypeOK
  <1>6. Asked' /\ InSight' /\ ReadsStayInScope'
    BY <1>1 DEF ReadsInv, Asked, InSight, ReadsStayInScope
  <1>7. Sight \subseteq Sight' \cup {id} /\ Sight' \subseteq Sight \cup {id}
    <2>1. \A i \in RowId \ {id} : table'[i] = table[i]
      BY <1>1, <1>2 DEF ReadsTypeOK
    <2>2. \A i \in RowId \ {id} : Lives(i)' = Lives(i)
      BY <1>1, <2>1 DEF Lives
    <2>3. \A i \in RowId \ {id} : i \in Sight <=> i \in Sight'
      BY <1>1, <2>1, <2>2 DEF Sight, Present
    <2>4. QED
      BY <1>3, <1>4, <2>3
  <1>8. StillToCome'
    <2>1. SUFFICES ASSUME Whole, ~disturbed'
          PROVE  IF pc = "done" THEN steady' \subseteq Shown
                 ELSE \A i \in steady' \ Shown : Place(route, Sight', i) >= offset
      BY <1>1 DEF StillToCome, Whole, Shown
    <2>2. ~disturbed /\ (id \in Sight \ Sight' => Place(route, Sight, id) >= offset)
      <3>1. Rank(Sight, id) = Place(route, Sight, id)
        BY DEF Rank, Before, Place, Ahead
      <3>2. Place(route, Sight, id) \in Nat /\ offset \in Nat
        BY <1>2, <1>3, PlaceType DEF ReadsTypeOK
      <3>3. ~disturbed /\ ~(id \in Sight \ Sight' /\ Rank(Sight, id) < offset)
        BY <1>1, <2>1, Zenon
      <3>4. QED
        BY <3>1, <3>2, <3>3
    <2>3. CASE pc = "done"
      BY <1>1, <2>1, <2>2, <2>3 DEF ReadsInv, StillToCome
    <2>4. CASE pc # "done"
      <3>1. SUFFICES ASSUME NEW i \in steady' \ Shown
            PROVE  Place(route, Sight', i) >= offset
        BY <2>4
      <3>2. i \in Sight /\ i \in Sight' /\ Place(route, Sight, i) >= offset
        BY <1>1, <2>1, <2>2, <2>4, <3>1 DEF ReadsInv, StillToCome, InSight
      <3>3. CASE Sight \subseteq Sight'
        <4>1. Place(route, Sight, i) <= Place(route, Sight', i)
          BY <1>4, <3>3, PlaceGrows
        <4>2. Place(route, Sight, i) \in Nat /\ Place(route, Sight', i) \in Nat /\ offset \in Nat
          BY <1>2, <1>3, <1>4, PlaceType DEF ReadsTypeOK
        <4>3. QED
          BY <3>2, <4>1, <4>2
      <3>4. CASE id \in Sight \ Sight'
        <4>1. Sight' = Sight \ {id}
          BY <1>7, <3>4
        <4>2. offset \in Nat
          BY <1>2 DEF ReadsTypeOK
        <4>3. QED
          BY <1>3, <2>2, <3>2, <3>4, <4>1, <4>2, PlaceHolds
      <3>5. QED
        BY <1>7, <3>3, <3>4
    <2>5. QED
      BY <2>3, <2>4
  <1>9. QED
    BY <1>5, <1>6, <1>8 DEF ReadsInv

LEMMA NextHolds == ReadsInv /\ [Next]_vars => ReadsInv'
  <1> SUFFICES ASSUME ReadsInv, [Next]_vars PROVE ReadsInv'
    OBVIOUS
  <1>1. CASE NextPage
    BY <1>1, NextPageHolds
  <1>2. ASSUME NEW id \in RowId, Fetch(id) PROVE ReadsInv'
    BY <1>2, FetchHolds
  <1>3. ASSUME NEW id \in RowId, Create(id) PROVE ReadsInv'
    BY <1>3, ChangeHolds DEF Create
  <1>4. ASSUME NEW id \in RowId, Move(id) PROVE ReadsInv'
    BY <1>4, ChangeHolds DEF Move
  <1>5. ASSUME NEW id \in RowId, Delete(id) PROVE ReadsInv'
    BY <1>5, ChangeHolds DEF Delete
  <1>6. CASE UNCHANGED vars
    BY <1>6 DEF vars, request, ReadsInv, ReadsTypeOK, Asked, InSight, ReadsStayInScope,
                StillToCome, Whole, Shown, Sight, Present, Lives
  <1>7. QED
    BY <1>1, <1>2, <1>3, <1>4, <1>5, <1>6 DEF Next

-----------------------------------------------------------------------------
(* Theorems.                                                               *)

THEOREM ReadsInvariance == ReadsSpec => []ReadsInv
  BY InitHolds, NextHolds, PTL DEF ReadsSpec

(* The collection, the request and the walk keep their shape.              *)
THEOREM ReadsTypeCorrect == ReadsSpec => []ReadsTypeOK
  <1>1. ReadsInv => ReadsTypeOK
    BY DEF ReadsInv
  <1>2. QED
    BY <1>1, ReadsInvariance, PTL

(* Whichever mechanism a route is narrowed by, no row reaches a token that *)
(* does not name the environment the row lives in.                         *)
THEOREM NarrowReadsStayInScope == ReadsSpec => []ReadsStayInScope
  <1>1. ReadsInv => ReadsStayInScope
    BY DEF ReadsInv
  <1>2. QED
    BY <1>1, ReadsInvariance, PTL

LEMMA NothingMissed == ReadsInv /\ Whole => Missed = {}
  BY DEF ReadsInv, StillToCome, Missed, Shown

(* A finished walk of /audit has shown every record it may see that was    *)
(* there when it began.                                                    *)
THEOREM TrailIsWhole == ReadsSpec => []TrailWalkMissesNothing
  <1>1. ReadsInv => TrailWalkMissesNothing
    BY NothingMissed DEF TrailWalkMissesNothing, Whole
  <1>2. QED
    BY <1>1, ReadsInvariance, PTL

(* A finished walk of /inventory has shown every row that stayed in scope. *)
THEOREM InventoryIsWhole == ReadsSpec => []InventoryWalkMissesNothing
  <1>1. ReadsInv => InventoryWalkMissesNothing
    BY NothingMissed DEF InventoryWalkMissesNothing, Whole
  <1>2. QED
    BY <1>1, ReadsInvariance, PTL

(* So has a finished walk of a listing that nothing narrows on its way out *)
(* or that asks for one environment of the token.                          *)
THEOREM FilteredListingIsWhole == ReadsSpec => []FilteredWalkMissesNothing
  <1>1. ReadsInv => FilteredWalkMissesNothing
    BY NothingMissed DEF FilteredWalkMissesNothing, Whole
  <1>2. QED
    BY <1>1, ReadsInvariance, PTL

(* Whatever narrows a walk that is promised to be whole, it has shown at   *)
(* its end every row that stayed in sight.                                 *)
THEOREM WalksAreWhole == ReadsSpec => []WalksMissNothing
  <1>1. TrailWalkMissesNothing /\ InventoryWalkMissesNothing
           /\ FilteredWalkMissesNothing => WalksMissNothing
    BY DEF WalksMissNothing
  <1>2. QED
    BY <1>1, TrailIsWhole, InventoryIsWhole, FilteredListingIsWhole, PTL
=============================================================================
