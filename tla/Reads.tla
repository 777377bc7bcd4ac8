--------------------------------- MODULE Reads ---------------------------------
(***************************************************************************)
(* internal/app and internal/audit, what a read returns: the guard of a    *)
(* read route, the three ways a token that is not full scope is narrowed   *)
(* (the domains' answers on their way out, the trail in SQL, the inventory *)
(* in its handler), and a caller that walks the pages of one collection    *)
(* while others write it.                                                  *)
(*                                                                         *)
(* A page is a set of row ids: of the rows a statement selects, those with *)
(* offset to offset + Limit - 1 rows before them in its ORDER BY.  One     *)
(* collection is walked at a time, and a statement sees one state of it.   *)
(* The credential has been accepted, and no read of the walk fails.        *)
(***************************************************************************)
EXTENDS Integers, FiniteSets

CONSTANTS
    RowId,       \* ids rows of the collection can have
    Env,         \* environment ids
    Scope,       \* the environments of the token that is not full scope
    Limit,       \* ?limit, after ParsePage has clamped it
    MaxChanges   \* bound on the writes of others during the walk

(* parseTokenScope refuses a scope without an environment id and ids below *)
(* 1; a ?limit of 0 is clamped to the largest page.                        *)
ASSUME ReadsAssumption ==
    /\ RowId \subseteq Nat \ {0} /\ IsFiniteSet(RowId)
    /\ Env \subseteq Nat \ {0}
    /\ Scope \subseteq Env /\ Scope # {}
    /\ Limit \in Nat \ {0}
    /\ MaxChanges \in Nat

VARIABLES
    route,       \* the route that is read
    full,        \* whether the token is full scope
    asked,       \* ?environmentId, 0 when the parameter is absent
    table,       \* table[id]: the row's environmentId, 0 if it has none
    offset,      \* ?offset of the next page
    pc,          \* of the walk: "walking", or "done" after its last page
    changes,     \* writes of others so far
    (* What the properties look back at.                                   *)
    shown,       \* rows the caller got, with the environment each lived in
    steady,      \* rows within its sight ever since the walk began
    disturbed    \* whether a row of a page behind the walk left its sight

request == <<route, full, asked>>
vars == <<request, table, offset, pc, changes, shown, steady, disturbed>>

Route == {"values", "value", "environments", "audit", "inventory"}

(* No row has this id.                                                     *)
Absent == -1

Present == {id \in RowId : table[id] # Absent}

-----------------------------------------------------------------------------
(* What the caller is entitled to: the environment a row lives in is its   *)
(* own id in CONFIG_ENVIRONMENTS and its ENVIRONMENT_ID elsewhere.         *)

Lives(id) == IF route = "environments" THEN id ELSE table[id]

Sight == {id \in Present : /\ full \/ Lives(id) \in Scope
                           /\ asked \in {0, Lives(id)}}

-----------------------------------------------------------------------------
(* The statements and their pages.                                         *)

Before(i, j) == IF route = "audit" THEN i > j ELSE i < j

Rank(ids, id) == Cardinality({i \in ids : Before(i, id)})

Page(ids) == {id \in ids : offset <= Rank(ids, id) /\ Rank(ids, id) < offset + Limit}

Selected == {id \in Present : asked \in {0, table[id]}}

(* The domains' listings: WHERE, ORDER BY ID, LIMIT and OFFSET.            *)
listing == Page(Selected)

(* Fault: the parameter replaces the scope.                                *)
environmentFilterWidens ==
    IF asked = 0 THEN IF full THEN Env \cup {0} ELSE Scope ELSE {asked}

(* environmentFilter: the parameter narrows and never widens.  A full      *)
(* scope without it is no filter, which rows without environment pass.     *)
environmentFilter ==
    IF asked = 0 THEN IF full THEN Env \cup {0} ELSE Scope
                 ELSE IF ~full /\ asked \notin Scope THEN {} ELSE {asked}

(* The trail: ENVIRONMENT_ID IN (...) in the statement that pages it.      *)
auditList == Page({id \in Present : table[id] \in environmentFilter})

inScope(env) == full \/ env \in Scope

(* Fault: the pager counts every row, and drops those out of scope after.  *)
inventoryCountsAll == {id \in Page(Present) : inScope(table[id])}

(* The inventory: every row is read, and the pager counts those in scope.  *)
inventory == Page({id \in Present : inScope(table[id])})

-----------------------------------------------------------------------------
(* The guard of a read.                                                    *)

readClass(r) ==
    CASE r \in {"values", "value"} -> "envRows"
      [] r = "environments" -> "envs"
      [] OTHER -> r

scopeField(class) ==
    CASE class = "envRows" -> "environmentId"
      [] class = "envs" -> "id"
      [] OTHER -> ""

(* An environment's row has no environmentId.                              *)
rowEnvironment(id, field) == IF field = "id" THEN id ELSE table[id]

(* A listing keeps the rows in scope, a single row out of it becomes 404,  *)
(* and an empty page is [] whichever of the two made it empty.             *)
scopeFilter(ids, field) == {id \in ids : rowEnvironment(id, field) \in Scope}

(* What reaches the caller of what the handler wrote.                      *)
read(ids) ==
    LET field == scopeField(readClass(route))
    IN  IF full \/ field = "" THEN ids ELSE scopeFilter(ids, field)

-----------------------------------------------------------------------------
(* The caller.                                                             *)

Handled ==
    CASE route = "audit" -> auditList
      [] route = "inventory" -> inventory
      [] OTHER -> listing

(* The documented end of a walk: a short page of the trail, [] elsewhere.  *)
Last(ids) == IF route = "audit" THEN Cardinality(ids) < Limit ELSE ids = {}

Show(ids) == shown' = shown \cup {<<id, Lives(id)>> : id \in ids}

NextPage ==
    /\ route # "value" /\ pc = "walking"
    /\ Show(read(Handled))
    /\ pc' = IF Last(read(Handled)) THEN "done" ELSE "walking"
    /\ offset' = offset + Limit
    /\ UNCHANGED <<request, table, changes, steady, disturbed>>

(* A GET of one row by its id.                                             *)
Fetch(id) ==
    /\ route = "value" /\ pc = "walking"
    /\ Show(read({id} \cap Present))
    /\ UNCHANGED <<request, table, offset, pc, changes, steady, disturbed>>

-----------------------------------------------------------------------------
(* The writes of others.                                                   *)

(* What a row of the collection can hold: an environment's row names none, *)
(* and a refused or unrouted write leaves a record without one.            *)
Values(r) == CASE r = "environments" -> {0}
               [] r = "audit" -> Env \cup {0}
               [] OTHER -> Env

Change(id, value) ==
    /\ changes < MaxChanges
    /\ changes' = changes + 1
    /\ table' = [table EXCEPT ![id] = value]
    /\ UNCHANGED <<request, offset, pc, shown>>
    /\ steady' = steady \cap Sight'
    /\ disturbed' = (disturbed \/ (id \in Sight \ Sight' /\ Rank(Sight, id) < offset))

(* Fault: a create does not insist on an environment.                      *)
CreateUnchecked(id) ==
    /\ id \notin Present
    /\ \E value \in Values(route) \cup {0} : Change(id, value)

(* Rows become visible in any order of their ids.                          *)
Create(id) ==
    /\ id \notin Present
    /\ \E value \in Values(route) : Change(id, value)

(* An update may move a row to another environment; records of the trail   *)
(* are never updated or deleted.                                           *)
Move(id) ==
    /\ route \in {"values", "value", "inventory"} /\ id \in Present
    /\ \E value \in Values(route) \ {table[id]} : Change(id, value)

Delete(id) ==
    /\ route # "audit" /\ id \in Present
    /\ Change(id, Absent)

-----------------------------------------------------------------------------
Init ==
    /\ route \in Route /\ full \in BOOLEAN
    /\ asked \in IF route \in {"values", "audit"} THEN Env \cup {0} ELSE {0}
    /\ table \in [RowId -> Values(route) \cup {Absent}]
    /\ offset = 0 /\ pc = "walking" /\ changes = 0
    /\ shown = {} /\ steady = Sight /\ disturbed = FALSE

Next ==
    \/ NextPage
    \/ \E id \in RowId : Fetch(id) \/ Create(id) \/ Move(id) \/ Delete(id)

ReadsSpec == Init /\ [][Next]_vars

-----------------------------------------------------------------------------
(* Properties.                                                             *)

(* The collection, the request and the walk keep their shape: every row of *)
(* a domain names an environment (middleware.go:622-637 counts on it).     *)
ReadsTypeOK ==
    /\ route \in Route /\ full \in BOOLEAN /\ asked \in Env \cup {0}
    /\ table \in [RowId -> Values(route) \cup {Absent}]
    /\ offset \in Nat /\ pc \in {"walking", "done"} /\ changes \in 0..MaxChanges
    /\ shown \subseteq RowId \X Nat /\ steady \subseteq RowId /\ disturbed \in BOOLEAN

(* No row reaches a token that is not full scope while the row lives in an *)
(* environment the token does not name, whichever of the three mechanisms  *)
(* its route is narrowed by and whatever ?environmentId asks for.          *)
ReadsStayInScope ==
    \A row \in shown : full \/ row[2] \in Scope

(* What a finished walk owed its caller and did not show.  A row that left *)
(* sight behind the walk moves the rest forward, and excuses it.           *)
Missed ==
    IF pc = "done" /\ ~disturbed THEN steady \ {row[1] : row \in shown} ELSE {}

(* A walk of /audit that ends with its first short page has shown every    *)
(* record it may see that was there when it began, whatever was recorded   *)
(* meanwhile (store.go:107-131: narrowed and paged by one statement).      *)
TrailWalkMissesNothing ==
    route = "audit" => Missed = {}

(* A walk of /inventory that ends with its first empty page has shown      *)
(* every row that stayed in the token's scope, whatever was done to rows   *)
(* outside it (inventory.go:145-171: the pager counts rows in scope).      *)
InventoryWalkMissesNothing ==
    route = "inventory" => Missed = {}

(* So has a walk of a listing when nothing is narrowed on its way out: the *)
(* token is full scope, or ?environmentId names an environment it reaches. *)
FilteredWalkMissesNothing ==
    route \in {"values", "environments"} /\ (full \/ asked \in Scope) => Missed = {}

(* The walks that are promised to be whole are, whichever mechanism their  *)
(* route is narrowed by.                                                   *)
WalksMissNothing ==
    /\ TrailWalkMissesNothing
    /\ InventoryWalkMissesNothing
    /\ FilteredWalkMissesNothing

=============================================================================
