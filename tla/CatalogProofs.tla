---------------------------- MODULE CatalogProofs ----------------------------
(***************************************************************************)
(* Proofs about Catalog, for every number of requests, environments, flags *)
(* and rows, and every number of faults.                                   *)
(***************************************************************************)
EXTENDS Catalog, PublisherProofs, FiniteSetTheorems

-----------------------------------------------------------------------------
(* The invariant.  A table is held when each of its rows has what its      *)
(* foreign keys ask for and no two rows feed one key.  A value names its   *)
(* flag, and the unique constraint of a value compares it only with the    *)
(* values of that flag, so it takes the uniqueness of the live flag to     *)
(* conclude that no other value has its key.                               *)

ValueRows(R, F) == {row \in Row : row.key \in R /\ row.flag \in F}
BundleRows(R) == {row \in Row : row.key \in R /\ Service \in R}

Held(T, A) ==
    \A id \in Rows(T) :
        T[id] \in A /\ \A other \in Rows(T) \ {id} : T[other].key # T[id].key

OneFlag(F) == \A f, g \in F : f = g

Tables(d) ==
    /\ d \in Database
    /\ OneFlag(d.flags)
    /\ Held(d.values, ValueRows(d.refs, d.flags))
    /\ Held(d.bundles, BundleRows(d.refs))

(* What a request carries is fit for the statement it is about to run.     *)
Asked(r) ==
    /\ r.op \in {"createRef", "deleteRef"} => r.key \in Ref
    /\ r.op = "createValue" => r.id \in FlagId
    /\ r.op \in {"createValue", "createBundle", "updateBundle"} => r.key \in Key
    /\ r.op \in {"createValue", "updateValue", "createBundle", "updateBundle"}
         => r.doc \in Payload
    /\ r.op = "createBundle" => r.id = 0
    /\ r.op = "deleteBundle" /\ r.pc = "exec" => r.prev \in Key

Served ==
    /\ Tables(db)
    /\ reqs \in [Request -> Req] /\ \A c \in Request : Asked(reqs[c])
    /\ started \in 0..MaxRequests
    /\ faults \in 0..MaxFaults

CatInv == Inv /\ Served

(* Each step keeps the tables and the requests, and is to the publisher    *)
(* one of its own steps or none.                                           *)
CatStepOK == Served' /\ [Next]_pubVars

-----------------------------------------------------------------------------
(* Tables.                                                                 *)

LEMMA NoRowIsNone == NoRow \notin Row
  BY CatalogKeyAssumption DEF NoRow, Row

LEMMA DbFacts ==
  ASSUME NEW d \in Database
  PROVE  /\ d.refs \subseteq Ref /\ d.gone \subseteq Ref /\ d.flags \subseteq FlagId
         /\ d.flagSeq \in Nat /\ d.rowSeq \in Nat
         /\ d.values \in [RowId -> Row \cup {NoRow}]
         /\ d.bundles \in [RowId -> Row \cup {NoRow}]
  BY DEF Database

LEMMA RowOf ==
  ASSUME NEW T \in [RowId -> Row \cup {NoRow}], NEW id \in Rows(T)
  PROVE  /\ id \in RowId /\ T[id] \in Row /\ T[id] # NoRow
         /\ T[id].key \in Key /\ T[id].flag \in FlagId \cup {0} /\ T[id].doc \in Payload
  <1>1. id \in RowId /\ T[id] \in Row /\ T[id] # NoRow
    BY DEF Rows
  <1>2. QED
    BY <1>1 DEF Row

(* A row is written.                                                       *)
LEMMA HeldSet ==
  ASSUME NEW T \in [RowId -> Row \cup {NoRow}], NEW A, Held(T, A), NEW i \in RowId,
         NEW row \in Row, row \in A, \A other \in Rows(T) \ {i} : T[other].key # row.key
  PROVE  LET U == [T EXCEPT ![i] = row]
         IN  U \in [RowId -> Row \cup {NoRow}] /\ Held(U, A)
  <1> DEFINE U == [T EXCEPT ![i] = row]
  <1>1. /\ U \in [RowId -> Row \cup {NoRow}] /\ U[i] = row
        /\ \A j \in RowId : j # i => U[j] = T[j]
    OBVIOUS
  <1> HIDE DEF U
  <1>2. \A j \in Rows(U) : j \in RowId /\ (j # i => j \in Rows(T))
    BY <1>1 DEF Rows
  <1>3. Held(U, A)
    <2> SUFFICES ASSUME NEW j \in Rows(U)
                 PROVE  /\ U[j] \in A
                        /\ \A other \in Rows(U) \ {j} : U[other].key # U[j].key
      BY DEF Held
    <2>1. U[j] \in A
      BY <1>1, <1>2 DEF Held
    <2>2. ASSUME NEW other \in Rows(U) \ {j} PROVE U[other].key # U[j].key
      <3>1. CASE j = i
        BY <1>1, <1>2, <3>1
      <3>2. CASE other = i
        BY <1>1, <1>2, <3>2
      <3>3. CASE j # i /\ other # i
        BY <1>1, <1>2, <3>3 DEF Held
      <3>4. QED
        BY <3>1, <3>2, <3>3
    <2>3. QED
      BY <2>1, <2>2
  <1>4. QED
    BY <1>1, <1>3 DEF U

(* Rows are removed, or what they refer to changes but for the rows left.  *)
LEMMA HeldDrop ==
  ASSUME NEW T \in [RowId -> Row \cup {NoRow}], NEW A, Held(T, A), NEW B,
         NEW U \in [RowId -> Row \cup {NoRow}],
         \A id \in RowId : U[id] = T[id] \/ U[id] = NoRow,
         \A id \in Rows(U) : T[id] \in A => T[id] \in B
  PROVE  Held(U, B)
  <1>1. \A id \in Rows(U) : id \in Rows(T) /\ U[id] = T[id]
    BY DEF Rows
  <1>2. QED
    BY <1>1 DEF Held

(* The foreign keys of the rows of a held table.                           *)
LEMMA ValueRowOf ==
  ASSUME NEW d, Tables(d), NEW id \in Rows(d.values)
  PROVE  /\ id \in RowId /\ d.values[id] \in Row /\ d.values[id].key \in Key
         /\ d.values[id].doc \in Payload
         /\ d.values[id].key \in d.refs /\ d.values[id].flag \in d.flags
         /\ \A other \in Rows(d.values) \ {id} : d.values[other].key # d.values[id].key
  <1>1. d.values \in [RowId -> Row \cup {NoRow}]
    BY DbFacts DEF Tables
  <1>2. QED
    BY <1>1, RowOf DEF Tables, Held, ValueRows

LEMMA BundleRowOf ==
  ASSUME NEW d, Tables(d), NEW id \in Rows(d.bundles)
  PROVE  /\ id \in RowId /\ d.bundles[id] \in Row /\ d.bundles[id].key \in Key
         /\ d.bundles[id].doc \in Payload
         /\ d.bundles[id].key \in d.refs /\ Service \in d.refs
         /\ \A other \in Rows(d.bundles) \ {id} : d.bundles[other].key # d.bundles[id].key
  <1>1. d.bundles \in [RowId -> Row \cup {NoRow}]
    BY DbFacts DEF Tables
  <1>2. QED
    BY <1>1, RowOf DEF Tables, Held, BundleRows

-----------------------------------------------------------------------------
(* Each statement that writes keeps the tables.                            *)

LEMMA CatFacts ==
  ASSUME CatInv, NEW c \in Request
  PROVE  /\ Tables(db) /\ db \in Database /\ reqs[c] \in Req /\ Asked(reqs[c])
         /\ reqs \in [Request -> Req] /\ c \in Caller
         /\ started \in 0..MaxRequests /\ faults \in 0..MaxFaults
         /\ db.values \in [RowId -> Row \cup {NoRow}]
         /\ db.bundles \in [RowId -> Row \cup {NoRow}]
  <1>1. db \in Database
    BY DEF CatInv, Served, Tables
  <1>2. QED
    BY <1>1, DbFacts, CatalogRequestAssumption DEF CatInv, Served

LEMMA InsertReferenceKeeps ==
  ASSUME CatInv, NEW c \in Request, InsertReference(c)
  PROVE  Tables(db')
  <1> DEFINE R == db.refs \cup {reqs[c].key}
  <1>1. reqs[c].key \in Ref
    BY CatFacts DEF InsertReference, At, Asked
  <1>2. R \subseteq Ref /\ db.refs \subseteq R /\ db' = [db EXCEPT !.refs = R]
    BY <1>1, CatFacts, DbFacts DEF InsertReference
  <1> HIDE DEF R
  <1>3. /\ db' \in Database /\ db'.refs = R /\ db'.flags = db.flags
        /\ db'.values = db.values /\ db'.bundles = db.bundles
    BY <1>2, CatFacts DEF Database
  <1>4. Held(db.values, ValueRows(R, db.flags)) /\ Held(db.bundles, BundleRows(R))
    BY <1>2, CatFacts DEF Tables, Held, ValueRows, BundleRows
  <1>5. QED
    BY <1>3, <1>4, CatFacts DEF Tables

LEMMA RemoveReferenceKeeps ==
  ASSUME CatInv, NEW c \in Request, RemoveReference(c)
  PROVE  Tables(db')
  <1> DEFINE ref == reqs[c].key
             R == db.refs \ {ref}
             G == db.gone \cup {ref}
  <1>1. ref \in db.refs /\ ~InUse(ref) /\ db' = [db EXCEPT !.refs = R, !.gone = G]
    BY DEF RemoveReference, Unreferenced
  <1>2. R \subseteq Ref /\ G \subseteq Ref
    BY <1>1, CatFacts, DbFacts
  <1>3. \A id \in Rows(db.values) : db.values[id].key # ref
    BY <1>1 DEF InUse, Keys
  <1>4. \A id \in Rows(db.bundles) : db.bundles[id].key # ref /\ ref # Service
    BY <1>1 DEF InUse, Keys
  <1>5. /\ db' \in Database /\ db'.refs = R /\ db'.flags = db.flags
        /\ db'.values = db.values /\ db'.bundles = db.bundles
    <2> HIDE DEF R, G
    <2>1. QED
      BY <1>1, <1>2, CatFacts DEF Database
  <1>6. Held(db.values, ValueRows(R, db.flags))
    BY <1>3, CatFacts, ValueRowOf DEF Held, ValueRows
  <1>7. Held(db.bundles, BundleRows(R))
    BY <1>4, CatFacts, BundleRowOf DEF Held, BundleRows
  <1> HIDE DEF R
  <1>8. QED
    BY <1>5, <1>6, <1>7, CatFacts DEF Tables

LEMMA InsertFlagKeeps ==
  ASSUME CatInv, NEW c \in Request, InsertFlag(c)
  PROVE  Tables(db')
  <1> DEFINE F == {db.flagSeq}
             n == db.flagSeq + 1
  <1>1. db.flags = {} /\ F \subseteq FlagId /\ n \in Nat
        /\ db' = [db EXCEPT !.flags = F, !.flagSeq = n]
    BY CatFacts, DbFacts DEF InsertFlag, FlagKeyFree
  <1>2. OneFlag(F)
    BY DEF OneFlag
  <1> HIDE DEF F, n
  <1>3. /\ db' \in Database /\ db'.refs = db.refs /\ db'.flags = F
        /\ db'.values = db.values /\ db'.bundles = db.bundles
    BY <1>1, CatFacts DEF Database
  <1>4. Rows(db.values) = {}
    BY <1>1, CatFacts, ValueRowOf
  <1>5. Held(db.values, ValueRows(db.refs, F))
    BY <1>4 DEF Held
  <1>6. QED
    BY <1>2, <1>3, <1>5, CatFacts DEF Tables

LEMMA DropFlagKeeps ==
  ASSUME CatInv, NEW c \in Request, DropFlag(c)
  PROVE  Tables(db')
  <1> DEFINE f == reqs[c].id
             F == db.flags \ {f}
             V == [id \in RowId |-> IF id \in ValuesOf(f) THEN NoRow ELSE db.values[id]]
  <1>1. db' = [db EXCEPT !.flags = F, !.values = V]
    BY DEF DropFlag
  <1>2. F \subseteq FlagId /\ OneFlag(F)
    BY CatFacts, DbFacts DEF Tables, OneFlag
  <1>3. V \in [RowId -> Row \cup {NoRow}]
    BY CatFacts
  <1>4. \A id \in RowId : V[id] = db.values[id] \/ V[id] = NoRow
    OBVIOUS
  <1>5. \A id \in Rows(V) : id \in Rows(db.values) /\ db.values[id].flag # f
    BY <1>4 DEF Rows, ValuesOf
  <1> HIDE DEF V
  <1>6. Held(V, ValueRows(db.refs, F))
    <2>1. \A id \in Rows(V) : db.values[id] \in ValueRows(db.refs, F)
      BY <1>5, CatFacts, ValueRowOf DEF ValueRows
    <2> DEFINE A == ValueRows(db.refs, db.flags)
               B == ValueRows(db.refs, F)
    <2>2. db.values \in [RowId -> Row \cup {NoRow}] /\ Held(db.values, A)
      BY CatFacts DEF Tables
    <2>3. \A id \in Rows(V) : db.values[id] \in A => db.values[id] \in B
      BY <2>1
    <2> HIDE DEF A, B
    <2>4. Held(V, B)
      BY <1>3, <1>4, <2>2, <2>3, HeldDrop
    <2>5. QED
      BY <2>4 DEF B
  <1> HIDE DEF F
  <1>7. /\ db' \in Database /\ db'.refs = db.refs /\ db'.flags = F
        /\ db'.values = V /\ db'.bundles = db.bundles
    BY <1>1, <1>2, <1>3, CatFacts DEF Database
  <1>8. QED
    BY <1>2, <1>6, <1>7, CatFacts DEF Tables

(* A table of values, or of bundles, with a row written or removed.        *)
LEMMA ValuesWritten ==
  ASSUME CatInv, NEW c \in Request, NEW V \in [RowId -> Row \cup {NoRow}], NEW n \in Nat,
         Held(V, ValueRows(db.refs, db.flags)), db' = [db EXCEPT !.values = V, !.rowSeq = n]
  PROVE  Tables(db')
  <1>1. /\ db' \in Database /\ db'.refs = db.refs /\ db'.flags = db.flags
        /\ db'.values = V /\ db'.bundles = db.bundles
    BY CatFacts DEF Database
  <1>2. QED
    BY <1>1, CatFacts DEF Tables

LEMMA BundlesWritten ==
  ASSUME CatInv, NEW c \in Request, NEW B \in [RowId -> Row \cup {NoRow}], NEW n \in Nat,
         Held(B, BundleRows(db.refs)), db' = [db EXCEPT !.bundles = B, !.rowSeq = n]
  PROVE  Tables(db')
  <1>1. /\ db' \in Database /\ db'.refs = db.refs /\ db'.flags = db.flags
        /\ db'.values = db.values /\ db'.bundles = B
    BY CatFacts DEF Database
  <1>2. QED
    BY <1>1, CatFacts DEF Tables

LEMMA InsertValueKeeps ==
  ASSUME CatInv, NEW c \in Request, InsertValue(c)
  PROVE  Tables(db')
  <1> DEFINE row == NewValue(c)
             V == [db.values EXCEPT ![db.rowSeq] = row]
  <1>1. /\ row \in Row /\ row.key = reqs[c].key /\ row.flag = reqs[c].id
    BY CatFacts DEF InsertValue, At, Asked, NewValue, Row
  <1> HIDE DEF row
  <1>2. /\ row.key \in db.refs /\ row.flag \in db.flags /\ db.rowSeq \in RowId
        /\ ValueFree(row.key, row.flag) /\ db' = [db EXCEPT !.values = V, !.rowSeq = db.rowSeq + 1]
    BY <1>1 DEF InsertValue, ValueAccepted, ValueRefs, row
  <1>3. \A other \in Rows(db.values) : db.values[other].key # row.key
    <2> SUFFICES ASSUME NEW other \in Rows(db.values) PROVE db.values[other].key # row.key
      OBVIOUS
    <2>1. db.values[other].flag \in db.flags
      BY CatFacts, ValueRowOf
    <2>2. db.values[other].flag = row.flag
      BY <1>2, <2>1, CatFacts DEF Tables, OneFlag
    <2>3. QED
      BY <1>2, <2>2 DEF ValueFree, ValuesOf
  <1>4. V \in [RowId -> Row \cup {NoRow}] /\ Held(V, ValueRows(db.refs, db.flags))
    BY <1>1, <1>2, <1>3, CatFacts, HeldSet DEF Tables, ValueRows
  <1>5. db.rowSeq + 1 \in Nat
    BY CatFacts, DbFacts
  <1> HIDE DEF V
  <1>6. QED
    BY <1>2, <1>4, <1>5, ValuesWritten

LEMMA SetValueKeeps ==
  ASSUME CatInv, NEW c \in Request, SetValue(c)
  PROVE  Tables(db')
  <1> DEFINE i == reqs[c].id
             row == [db.values[i] EXCEPT !.doc = reqs[c].doc]
             V == [db.values EXCEPT ![i] = row]
  <1>1. i \in Rows(db.values) /\ reqs[c].doc \in Payload
    BY CatFacts DEF SetValue, At, Asked
  <1>2. /\ row \in Row /\ row.key = db.values[i].key /\ row.flag = db.values[i].flag
    BY <1>1, CatFacts, ValueRowOf DEF Row
  <1>3. db' = [db EXCEPT !.values = V, !.rowSeq = db.rowSeq]
    BY CatFacts DEF SetValue, Database
  <1> HIDE DEF row
  <1>4. V \in [RowId -> Row \cup {NoRow}] /\ Held(V, ValueRows(db.refs, db.flags))
    <2> DEFINE A == ValueRows(db.refs, db.flags)
    <2>1. db.values \in [RowId -> Row \cup {NoRow}] /\ Held(db.values, A) /\ i \in RowId
      BY <1>1, CatFacts, ValueRowOf DEF Tables
    <2>2. row \in A
      BY <1>1, <1>2, CatFacts, ValueRowOf DEF ValueRows
    <2>3. \A other \in Rows(db.values) \ {i} : db.values[other].key # row.key
      BY <1>1, <1>2, CatFacts, ValueRowOf
    <2> HIDE DEF A, i
    <2>4. V \in [RowId -> Row \cup {NoRow}] /\ Held(V, A)
      BY <1>2, <2>1, <2>2, <2>3, HeldSet
    <2>5. QED
      BY <2>4 DEF A
  <1> HIDE DEF V
  <1>5. QED
    BY <1>3, <1>4, CatFacts, DbFacts, ValuesWritten

LEMMA RowDropped ==
  ASSUME NEW T \in [RowId -> Row \cup {NoRow}], NEW A, Held(T, A), NEW i
  PROVE  LET U == [T EXCEPT ![i] = NoRow]
         IN  U \in [RowId -> Row \cup {NoRow}] /\ Held(U, A)
  <1> DEFINE U == [T EXCEPT ![i] = NoRow]
  <1>1. /\ U \in [RowId -> Row \cup {NoRow}]
        /\ \A id \in RowId : U[id] = T[id] \/ U[id] = NoRow
    OBVIOUS
  <1> HIDE DEF U
  <1>2. QED
    BY <1>1, HeldDrop DEF U

LEMMA RemoveValueKeeps ==
  ASSUME CatInv, NEW c \in Request, RemoveValue(c)
  PROVE  Tables(db')
  <1> DEFINE V == [db.values EXCEPT ![reqs[c].id] = NoRow]
  <1>1. db' = [db EXCEPT !.values = V, !.rowSeq = db.rowSeq]
    BY CatFacts DEF RemoveValue, Database
  <1>2. V \in [RowId -> Row \cup {NoRow}] /\ Held(V, ValueRows(db.refs, db.flags))
    BY CatFacts, RowDropped DEF Tables
  <1> HIDE DEF V
  <1>3. QED
    BY <1>1, <1>2, CatFacts, DbFacts, ValuesWritten

(* The bundle a request writes, where no other bundle has its key.         *)
LEMMA NewBundleFacts ==
  ASSUME CatInv, NEW c \in Request, reqs[c].op \in {"createBundle", "updateBundle"},
         BundleAccepted(c), NEW i \in RowId, reqs[c].op = "updateBundle" => i = reqs[c].id
  PROVE  LET B == [db.bundles EXCEPT ![i] = NewBundle(c)]
         IN  B \in [RowId -> Row \cup {NoRow}] /\ Held(B, BundleRows(db.refs))
  <1> DEFINE row == NewBundle(c)
  <1>1. row \in Row /\ row.key = reqs[c].key
    BY CatFacts DEF Asked, NewBundle, Row
  <1>2. row.key \in db.refs /\ Service \in db.refs /\ ~KeyTaken(c)
    BY <1>1 DEF BundleAccepted, BundleRefs
  <1>3. \A other \in Rows(db.bundles) \ {i} : other # reqs[c].id
    BY CatFacts, CatalogIdAssumption DEF Asked, Rows
  <1>4. \A other \in Rows(db.bundles) \ {i} : db.bundles[other].key # row.key
    BY <1>1, <1>2, <1>3 DEF KeyTaken
  <1> HIDE DEF row
  <1>5. QED
    BY <1>1, <1>2, <1>4, CatFacts, HeldSet DEF Tables, BundleRows, row

LEMMA InsertBundleKeeps ==
  ASSUME CatInv, NEW c \in Request, InsertBundle(c)
  PROVE  Tables(db')
  <1> DEFINE B == [db.bundles EXCEPT ![db.rowSeq] = NewBundle(c)]
  <1>1. /\ db' = [db EXCEPT !.bundles = B, !.rowSeq = db.rowSeq + 1]
        /\ db.rowSeq \in RowId /\ BundleAccepted(c) /\ reqs[c].op = "createBundle"
    BY DEF InsertBundle, At
  <1>2. B \in [RowId -> Row \cup {NoRow}] /\ Held(B, BundleRows(db.refs))
    BY <1>1, NewBundleFacts
  <1>3. db.rowSeq + 1 \in Nat
    BY CatFacts, DbFacts
  <1> HIDE DEF B
  <1>4. QED
    BY <1>1, <1>2, <1>3, BundlesWritten

LEMMA SetBundleKeeps ==
  ASSUME CatInv, NEW c \in Request, SetBundle(c)
  PROVE  Tables(db')
  <1> DEFINE B == [db.bundles EXCEPT ![reqs[c].id] = NewBundle(c)]
  <1>1. /\ reqs[c].id \in RowId /\ BundleAccepted(c) /\ reqs[c].op = "updateBundle"
        /\ db' = [db EXCEPT !.bundles = B, !.rowSeq = db.rowSeq]
    BY CatFacts DEF SetBundle, At, Rows, Database
  <1>2. B \in [RowId -> Row \cup {NoRow}] /\ Held(B, BundleRows(db.refs))
    BY <1>1, NewBundleFacts
  <1> HIDE DEF B
  <1>3. QED
    BY <1>1, <1>2, CatFacts, DbFacts, BundlesWritten

LEMMA RemoveBundleKeeps ==
  ASSUME CatInv, NEW c \in Request, RemoveBundle(c)
  PROVE  Tables(db')
  <1> DEFINE B == [db.bundles EXCEPT ![reqs[c].id] = NoRow]
  <1>1. db' = [db EXCEPT !.bundles = B, !.rowSeq = db.rowSeq]
    BY CatFacts DEF RemoveBundle, Database
  <1>2. B \in [RowId -> Row \cup {NoRow}] /\ Held(B, BundleRows(db.refs))
    BY CatFacts, RowDropped DEF Tables
  <1> HIDE DEF B
  <1>3. QED
    BY <1>1, <1>2, CatFacts, DbFacts, BundlesWritten

LEMMA CommitKeeps ==
  ASSUME CatInv, NEW c \in Request, Commit(c)
  PROVE  Tables(db')
  BY InsertReferenceKeeps, RemoveReferenceKeeps, InsertFlagKeeps, DropFlagKeeps,
     InsertValueKeeps, SetValueKeeps, RemoveValueKeeps, InsertBundleKeeps, SetBundleKeeps,
     RemoveBundleKeeps DEF Commit, ReferenceCommit, FlagCommit, BundleCommit

-----------------------------------------------------------------------------
(* Requests.                                                               *)

LEMMA NoReqType == NoReq \in Req /\ Asked(NoReq)
  BY DEF NoReq, Req, Op, PC, Asked

LEMMA ReqFacts ==
  ASSUME NEW r \in Req
  PROVE  /\ r.op \in Op /\ r.pc \in PC /\ r.id \in RowId \cup FlagId \cup {0}
         /\ r.key \in Ref \cup {NoKey} /\ r.doc \in Payload \cup {NoPayload}
         /\ r.prev \in Key \cup {NoKey} /\ r.purge \subseteq Key
  BY DEF Req

(* What a request was asked for stays; what it notes on its way changes.   *)
LEMMA AskedStays ==
  ASSUME NEW r, Asked(r), NEW t, t.op = r.op, t.id = r.id, t.doc = r.doc,
         t.key = r.key \/ t.key \in Key,
         t.op = "deleteBundle" /\ t.pc = "exec" => t.prev \in Key
  PROVE  Asked(t)
  BY DEF Asked, Ref

(* A step of one request.                                                  *)
LEMMA Moves ==
  ASSUME CatInv, NEW c \in Request, NEW r \in Req, Asked(r), reqs' = [reqs EXCEPT ![c] = r],
         Tables(db'), started' \in 0..MaxRequests, faults' \in 0..MaxFaults, [Next]_pubVars
  PROVE  CatStepOK
  <1>1. reqs' \in [Request -> Req] /\ \A d \in Request : Asked(reqs'[d])
    BY DEF CatInv, Served
  <1>2. QED
    BY <1>1 DEF CatStepOK, Served

LEMMA FinishMoves ==
  ASSUME CatInv, NEW c \in Request, Finish(c), Tables(db'), started' \in 0..MaxRequests,
         faults' \in 0..MaxFaults, [Next]_pubVars
  PROVE  CatStepOK
  BY NoReqType, Moves DEF Finish

LEMMA GotoMoves ==
  ASSUME CatInv, NEW c \in Request, NEW pc \in PC, Goto(c, pc), Tables(db'),
         pc = "exec" => reqs[c].op # "deleteBundle",
         started' \in 0..MaxRequests, faults' \in 0..MaxFaults, [Next]_pubVars
  PROVE  CatStepOK
  <1> DEFINE r == reqs[c]
             t == [r EXCEPT !.pc = pc]
  <1>1. r \in Req /\ Asked(r)
    BY CatFacts
  <1>2. /\ t \in Req /\ t.op = r.op /\ t.id = r.id /\ t.doc = r.doc /\ t.key = r.key
        /\ t.pc = pc
    BY <1>1 DEF Req
  <1>3. reqs' = [reqs EXCEPT ![c] = t]
    BY DEF Goto
  <1> HIDE DEF t, r
  <1>4. Asked(t)
    BY <1>1, <1>2, AskedStays DEF r
  <1>5. QED
    BY <1>2, <1>3, <1>4, Moves

(* The database and the publisher stay.                                    *)
LEMMA QuietFacts ==
  ASSUME CatInv, UNCHANGED <<pubVars, db, started, faults>>
  PROVE  /\ Tables(db') /\ started' \in 0..MaxRequests /\ faults' \in 0..MaxFaults
         /\ [Next]_pubVars
  BY DEF CatInv, Served

LEMMA CheckMoves ==
  ASSUME CatInv, NEW c \in Request, NEW ok, Check(c, ok, "exec"), reqs[c].op # "deleteBundle"
  PROVE  CatStepOK
  <1>1. /\ Goto(c, "exec") \/ Finish(c)
        /\ UNCHANGED <<pubVars, db, started, faults>>
    BY DEF Check
  <1>2. QED
    BY <1>1, QuietFacts, GotoMoves, FinishMoves DEF PC

LEMMA AcceptMoves ==
  ASSUME CatInv, NEW c \in Request, NEW r \in Req, Asked(r), Accept(c, r)
  PROVE  CatStepOK
  <1>1. started' \in 0..MaxRequests
    BY CatFacts, CatalogBoundAssumption DEF Accept
  <1>2. /\ reqs' = [reqs EXCEPT ![c] = r] /\ UNCHANGED <<pubVars, db, faults>>
    BY DEF Accept
  <1>3. Tables(db') /\ faults' \in 0..MaxFaults
    BY <1>2, CatFacts
  <1>4. QED
    BY <1>1, <1>2, <1>3, Moves

LEMMA ArrivalMoves ==
  ASSUME CatInv, NEW c \in Request, Arrival(c)
  PROVE  CatStepOK
  <1>1. ASSUME NEW op \in {"createRef", "deleteRef"}, NEW ref \in Ref,
               Accept(c, [NoReq EXCEPT !.op = op, !.pc = "check", !.key = ref])
        PROVE  CatStepOK
    <2> DEFINE r == [NoReq EXCEPT !.op = op, !.pc = "check", !.key = ref]
    <2>1. r \in Req /\ Asked(r)
      BY <1>1 DEF NoReq, Req, Op, PC, Asked
    <2> HIDE DEF r
    <2>2. QED
      BY <1>1, <2>1, AcceptMoves DEF r
  <1>2. CASE CreateFlag(c)
    <2> DEFINE r == [NoReq EXCEPT !.op = "createFlag", !.pc = "check"]
    <2>1. r \in Req /\ Asked(r)
      BY DEF NoReq, Req, Op, PC, Asked
    <2>2. Accept(c, r)
      BY <1>2 DEF CreateFlag
    <2> HIDE DEF r
    <2>3. QED
      BY <2>1, <2>2, AcceptMoves
  <1>3. ASSUME NEW op \in {"deleteFlag", "deleteValue", "deleteBundle"}, NEW id \in FlagId \cup RowId,
               Accept(c, [NoReq EXCEPT !.op = op, !.pc = "previous", !.id = id])
        PROVE  CatStepOK
    <2> DEFINE r == [NoReq EXCEPT !.op = op, !.pc = "previous", !.id = id]
    <2>1. r \in Req /\ Asked(r)
      BY <1>3 DEF NoReq, Req, Op, PC, Asked
    <2> HIDE DEF r
    <2>2. QED
      BY <1>3, <2>1, AcceptMoves DEF r
  <1>4. ASSUME NEW k \in Key, NEW f \in FlagId, NEW v \in Payload, CreateFlagValue(c, k, f, v)
        PROVE  CatStepOK
    <2> DEFINE r == [NoReq EXCEPT !.op = "createValue", !.pc = "check",
                                  !.key = k, !.id = f, !.doc = v]
    <2>1. r \in Req /\ Asked(r)
      BY <1>4 DEF NoReq, Req, Op, PC, Asked, Ref
    <2>2. Accept(c, r)
      BY <1>4 DEF CreateFlagValue
    <2> HIDE DEF r
    <2>3. QED
      BY <2>1, <2>2, AcceptMoves
  <1>5. ASSUME NEW id \in RowId, NEW v \in Payload, UpdateFlagValue(c, id, v)
        PROVE  CatStepOK
    <2> DEFINE r == [NoReq EXCEPT !.op = "updateValue", !.pc = "exec", !.id = id, !.doc = v]
    <2>1. r \in Req /\ Asked(r)
      BY <1>5 DEF NoReq, Req, Op, PC, Asked
    <2>2. Accept(c, r)
      BY <1>5 DEF UpdateFlagValue
    <2> HIDE DEF r
    <2>3. QED
      BY <2>1, <2>2, AcceptMoves
  <1>6. ASSUME NEW k \in Key, NEW doc \in Payload, CreateLocalization(c, k, doc)
        PROVE  CatStepOK
    <2> DEFINE r == [NoReq EXCEPT !.op = "createBundle", !.pc = "check",
                                  !.key = k, !.doc = doc]
    <2>1. r \in Req /\ Asked(r)
      BY <1>6 DEF NoReq, Req, Op, PC, Asked, Ref
    <2>2. Accept(c, r)
      BY <1>6 DEF CreateLocalization
    <2> HIDE DEF r
    <2>3. QED
      BY <2>1, <2>2, AcceptMoves
  <1>7. ASSUME NEW id \in RowId, NEW k \in Key, NEW doc \in Payload,
               UpdateLocalization(c, id, k, doc)
        PROVE  CatStepOK
    <2> DEFINE r == [NoReq EXCEPT !.op = "updateBundle", !.pc = "previous",
                                  !.id = id, !.key = k, !.doc = doc]
    <2>1. r \in Req /\ Asked(r)
      BY <1>7 DEF NoReq, Req, Op, PC, Asked, Ref
    <2>2. Accept(c, r)
      BY <1>7 DEF UpdateLocalization
    <2> HIDE DEF r
    <2>3. QED
      BY <2>1, <2>2, AcceptMoves
  <1>8. QED
    BY <1>1, <1>2, <1>3, <1>4, <1>5, <1>6, <1>7 DEF Arrival, CreateReference, DeleteReference,
       FlagArrival, DeleteFlag, DeleteFlagValue, BundleArrival, DeleteLocalization

(* A statement that read noted something for later.                        *)
LEMMA NotesMove ==
  ASSUME CatInv, NEW c \in Request, NEW t \in Req, reqs' = [reqs EXCEPT ![c] = t],
         t.op = reqs[c].op, t.id = reqs[c].id, t.doc = reqs[c].doc,
         t.key = reqs[c].key \/ t.key \in Key,
         t.op = "deleteBundle" /\ t.pc = "exec" => t.prev \in Key,
         Tables(db'), started' \in 0..MaxRequests, faults' \in 0..MaxFaults, [Next]_pubVars
  PROVE  CatStepOK
  <1>1. Asked(t)
    BY CatFacts, AskedStays
  <1>2. QED
    BY <1>1, Moves

LEMMA ReferenceMoves ==
  ASSUME CatInv, NEW c \in Request, ReferenceStep(c)
  PROVE  CatStepOK
  <1>1. CASE CheckReference(c)
    BY <1>1, CheckMoves DEF CheckReference, At
  <1>2. CASE ExecReference(c)
    <2>1. Tables(db')
      BY <1>2, CommitKeeps DEF ExecReference, Commit
    <2>2. QED
      BY <1>2, <2>1, CatFacts, FinishMoves DEF ExecReference
  <1>3. CASE ReferenceRefused(c)
    BY <1>3, QuietFacts, FinishMoves DEF ReferenceRefused
  <1>4. QED
    BY <1>1, <1>2, <1>3 DEF ReferenceStep

(* The scans before a delete: the keys of the rows found are to be purged. *)
LEMMA ScanMoves ==
  ASSUME CatInv, NEW c \in Request, NEW X \in SUBSET Key,
         reqs[c].op \in {"deleteFlag", "deleteValue"},
         reqs' = [reqs EXCEPT ![c].pc = "exec", ![c].purge = X],
         UNCHANGED <<pubVars, db, started, faults>>
  PROVE  CatStepOK
  <1> DEFINE r == reqs[c]
             t == [r EXCEPT !.pc = "exec", !.purge = X]
  <1>1. /\ t \in Req /\ t.op = r.op /\ t.id = r.id /\ t.doc = r.doc /\ t.key = r.key
    BY CatFacts DEF Req, PC
  <1>2. reqs' = [reqs EXCEPT ![c] = t]
    OBVIOUS
  <1> HIDE DEF t
  <1>3. QED
    BY <1>1, <1>2, QuietFacts, NotesMove

LEMMA ScanDeletedValuesMoves ==
  ASSUME CatInv, NEW c \in Request, ScanDeletedValues(c)
  PROVE  CatStepOK
  <1> DEFINE X == {db.values[id].key : id \in ValuesOf(reqs[c].id)}
  <1>1. X \in SUBSET Key
    BY CatFacts, ValueRowOf DEF ValuesOf
  <1>2. /\ reqs[c].op = "deleteFlag" /\ UNCHANGED <<pubVars, db, started, faults>>
        /\ Finish(c) \/ reqs' = [reqs EXCEPT ![c].pc = "exec", ![c].purge = X]
    BY DEF ScanDeletedValues, At
  <1> HIDE DEF X
  <1>3. QED
    BY <1>1, <1>2, QuietFacts, FinishMoves, ScanMoves

LEMMA ReadDeletedValueMoves ==
  ASSUME CatInv, NEW c \in Request, ReadDeletedValue(c)
  PROVE  CatStepOK
  <1> DEFINE X == {db.values[reqs[c].id].key}
  <1>1. reqs[c].op = "deleteValue" /\ UNCHANGED <<pubVars, db, started, faults>>
    BY DEF ReadDeletedValue, At
  <1>2. CASE reqs[c].id \in Rows(db.values)
    <2>1. X \in SUBSET Key /\ reqs' = [reqs EXCEPT ![c].pc = "exec", ![c].purge = X]
      BY <1>2, CatFacts, ValueRowOf DEF ReadDeletedValue
    <2> HIDE DEF X
    <2>2. QED
      BY <1>1, <2>1, ScanMoves
  <1>3. CASE reqs[c].id \notin Rows(db.values)
    BY <1>1, <1>3, QuietFacts, FinishMoves DEF ReadDeletedValue
  <1>4. QED
    BY <1>2, <1>3

LEMMA FlagsCommittedMoves ==
  ASSUME CatInv, NEW c \in Request, FlagsCommitted(c)
  PROVE  CatStepOK
  <1>1. /\ FlagCommit(c) /\ UNCHANGED <<pubVars, started, faults>>
    BY DEF FlagsCommitted
  <1>2. Tables(db')
    BY <1>1, CommitKeeps DEF Commit
  <1>3. reqs[c].op \in {"createFlag", "deleteFlag", "deleteValue", "createValue", "updateValue"}
    BY <1>1 DEF FlagCommit, InsertFlag, DropFlag, InsertValue, SetValue, RemoveValue, At
  <1>4. Finish(c) \/ Goto(c, "purging") \/ Goto(c, "readback")
    BY <1>3 DEF FlagsCommitted
  <1>5. QED
    BY <1>1, <1>2, <1>4, CatFacts, FinishMoves, GotoMoves DEF PC

(* A row was read back and is published under the key it has.              *)
LEMMA PublishMoves ==
  ASSUME CatInv, NEW c \in Request, NEW k \in Key, NEW X \in SUBSET Key, Next,
         reqs' = [reqs EXCEPT ![c].pc = "publishing", ![c].key = k, ![c].purge = X],
         UNCHANGED <<db, started, faults>>
  PROVE  CatStepOK
  <1> DEFINE r == reqs[c]
             t == [r EXCEPT !.pc = "publishing", !.key = k, !.purge = X]
  <1>1. /\ t \in Req /\ t.op = r.op /\ t.id = r.id /\ t.doc = r.doc /\ t.key = k
        /\ t.pc = "publishing"
    BY CatFacts DEF Req, PC, Ref
  <1>2. reqs' = [reqs EXCEPT ![c] = t]
    OBVIOUS
  <1> HIDE DEF t
  <1>3. Tables(db') /\ started' \in 0..MaxRequests /\ faults' \in 0..MaxFaults
    BY CatFacts
  <1>4. QED
    BY <1>1, <1>2, <1>3, NotesMove

LEMMA PublishValueMoves ==
  ASSUME CatInv, NEW c \in Request, PublishValue(c)
  PROVE  CatStepOK
  <1> DEFINE found == IF reqs[c].op = "createValue" THEN CreatedValue(c) ELSE UpdatedValue(c)
  <1>1. found \subseteq Rows(db.values)
    BY DEF CreatedValue, UpdatedValue, ValuesOf
  <1>2. UNCHANGED <<db, started, faults>>
    BY DEF PublishValue
  <1>3. ASSUME NEW id \in found, PublishFlag(c, db.values[id].key, db.values[id].doc),
               reqs' = [reqs EXCEPT ![c].pc = "publishing", ![c].key = db.values[id].key]
        PROVE  CatStepOK
    <2>1. db.values[id].key \in Key /\ db.values[id].doc \in Payload
      BY <1>1, CatFacts, ValueRowOf
    <2>2. Next
      BY <1>3, <2>1, CatFacts DEF Next
    <2>3. reqs' = [reqs EXCEPT ![c].pc = "publishing", ![c].key = db.values[id].key,
                               ![c].purge = reqs[c].purge]
      BY <1>3, CatFacts DEF Req
    <2>4. reqs[c].purge \in SUBSET Key
      BY CatFacts, ReqFacts
    <2>5. QED
      BY <1>2, <2>1, <2>2, <2>3, <2>4, PublishMoves
  <1>4. CASE Finish(c) /\ UNCHANGED pubVars
    BY <1>2, <1>4, QuietFacts, FinishMoves
  <1> HIDE DEF found
  <1>5. QED
    BY <1>3, <1>4 DEF PublishValue, found

LEMMA PurgeNextMoves ==
  ASSUME CatInv, NEW c \in Request, NEW b, PurgeNext(c, b)
  PROVE  CatStepOK
  <1>1. PICK k \in reqs[c].purge :
          DeleteKey(c, b, k) /\ reqs' = [reqs EXCEPT ![c].purge = @ \ {k}]
    BY DEF PurgeNext
  <1>2. reqs[c].pc = "purging" /\ UNCHANGED <<db, started, faults>>
    BY DEF PurgeNext
  <1>3. k \in Key /\ b \in Bucket
    BY <1>1, CatFacts, ReqFacts DEF DeleteKey, Begin
  <1>4. Next
    BY <1>1, <1>3, CatFacts DEF Next
  <1> DEFINE r == reqs[c]
             t == [r EXCEPT !.purge = @ \ {k}]
  <1>5. /\ t \in Req /\ t.op = r.op /\ t.id = r.id /\ t.doc = r.doc /\ t.key = r.key
        /\ t.pc = r.pc
    BY CatFacts DEF Req
  <1>6. reqs' = [reqs EXCEPT ![c] = t]
    BY <1>1
  <1> HIDE DEF t
  <1>7. Tables(db') /\ started' \in 0..MaxRequests /\ faults' \in 0..MaxFaults
    BY <1>2, CatFacts
  <1>8. QED
    BY <1>2, <1>4, <1>5, <1>6, <1>7, NotesMove

LEMMA FlagMoves ==
  ASSUME CatInv, NEW c \in Request, FlagStep(c)
  PROVE  CatStepOK
  <1>1. CASE CheckFlag(c) \/ checkFlagValueRefs(c)
    BY <1>1, CheckMoves DEF CheckFlag, checkFlagValueRefs, At
  <1>2. CASE FlagRefused(c)
    BY <1>2, QuietFacts, FinishMoves DEF FlagRefused
  <1>3. QED
    BY <1>1, <1>2, ScanDeletedValuesMoves, ReadDeletedValueMoves, FlagsCommittedMoves,
       PublishValueMoves, PurgeNextMoves DEF FlagStep, PurgeFlag

-----------------------------------------------------------------------------
LEMMA PreviousBundleMoves ==
  ASSUME CatInv, NEW c \in Request, PreviousBundle(c)
  PROVE  CatStepOK
  <1>1. UNCHANGED <<pubVars, db, started, faults>>
    BY DEF PreviousBundle
  <1>2. CASE reqs[c].id \in Rows(db.bundles)
    <2> DEFINE r == reqs[c]
               pc == IF r.op = "updateBundle" THEN "check" ELSE "exec"
               k == db.bundles[r.id].key
               t == [r EXCEPT !.pc = pc, !.prev = k]
    <2>1. k \in Key /\ pc \in PC
      BY <1>2, CatFacts, BundleRowOf DEF PC
    <2>2. reqs' = [reqs EXCEPT ![c] = t]
      BY <1>2 DEF PreviousBundle
    <2> HIDE DEF k, pc
    <2>3. /\ t \in Req /\ t.op = r.op /\ t.id = r.id /\ t.doc = r.doc /\ t.key = r.key
          /\ t.prev = k
      BY <2>1, CatFacts DEF Req
    <2> HIDE DEF t
    <2>4. QED
      BY <1>1, <2>1, <2>2, <2>3, QuietFacts, NotesMove
  <1>3. CASE reqs[c].id \notin Rows(db.bundles)
    BY <1>1, <1>3, QuietFacts, FinishMoves DEF PreviousBundle
  <1>4. QED
    BY <1>2, <1>3

LEMMA BundlesCommittedMoves ==
  ASSUME CatInv, NEW c \in Request, BundlesCommitted(c)
  PROVE  CatStepOK
  <1>1. /\ BundleCommit(c) /\ UNCHANGED <<pubVars, started, faults>>
    BY DEF BundlesCommitted
  <1>2. Tables(db') /\ started' \in 0..MaxRequests /\ faults' \in 0..MaxFaults
    BY <1>1, CommitKeeps, CatFacts DEF Commit
  <1>3. reqs[c].pc = "exec"
    BY <1>1 DEF BundleCommit, InsertBundle, SetBundle, RemoveBundle, At
  <1>4. CASE reqs[c].op = "deleteBundle"
    <2> DEFINE r == reqs[c]
               t == [r EXCEPT !.pc = "purging", !.purge = {r.prev}]
    <2>1. r.prev \in Key
      BY <1>3, <1>4, CatFacts DEF Asked
    <2>2. /\ t \in Req /\ t.op = r.op /\ t.id = r.id /\ t.doc = r.doc /\ t.key = r.key
          /\ t.pc = "purging"
      BY <2>1, CatFacts DEF Req, PC
    <2>3. reqs' = [reqs EXCEPT ![c] = t]
      BY <1>4 DEF BundlesCommitted
    <2> HIDE DEF t
    <2>4. QED
      BY <1>1, <1>2, <2>2, <2>3, NotesMove
  <1>5. CASE reqs[c].op # "deleteBundle"
    BY <1>1, <1>2, <1>5, GotoMoves DEF BundlesCommitted, PC
  <1>6. QED
    BY <1>4, <1>5

LEMMA PublishBundleMoves ==
  ASSUME CatInv, NEW c \in Request, PublishBundle(c)
  PROVE  CatStepOK
  <1>1. WrittenBundle(c) \subseteq Rows(db.bundles) /\ UNCHANGED <<db, started, faults>>
    BY DEF WrittenBundle, PublishBundle
  <1>2. ASSUME NEW id \in WrittenBundle(c), NEW row, row = db.bundles[id],
               PublishDocument(c, BucketLocalization, row.key, row.doc),
               reqs' = [reqs EXCEPT ![c].pc = "publishing", ![c].key = row.key,
                                    ![c].purge = Moved(c, row.key)]
        PROVE  CatStepOK
    <2>1. row.key \in Key /\ row.doc \in Payload
      BY <1>1, <1>2, CatFacts, BundleRowOf
    <2>2. BucketLocalization \in Bucket \ {BucketFlags}
      BY <1>2 DEF PublishDocument, Begin, BucketLocalization, BucketFlags
    <2>3. Next
      BY <1>2, <2>1, <2>2, CatFacts DEF Next
    <2>4. Moved(c, row.key) \in SUBSET Key
      BY CatFacts, ReqFacts DEF Moved
    <2>5. QED
      BY <1>1, <1>2, <2>1, <2>3, <2>4, PublishMoves
  <1>3. CASE Finish(c) /\ UNCHANGED pubVars
    BY <1>1, <1>3, QuietFacts, FinishMoves
  <1>4. QED
    BY <1>2, <1>3 DEF PublishBundle

LEMMA BundleMoves ==
  ASSUME CatInv, NEW c \in Request, BundleStep(c)
  PROVE  CatStepOK
  <1>1. CASE checkRefs(c)
    <2>1. reqs[c].op # "deleteBundle" /\ \E ok : Check(c, ok, "exec")
      BY <1>1 DEF checkRefs
    <2>2. QED
      BY <2>1, CheckMoves
  <1>2. CASE BundleRefused(c)
    BY <1>2, QuietFacts, FinishMoves DEF BundleRefused
  <1>3. QED
    BY <1>1, <1>2, PreviousBundleMoves, BundlesCommittedMoves, PublishBundleMoves,
       PurgeNextMoves DEF BundleStep, PurgeBundle

-----------------------------------------------------------------------------
(* The end of a request, its failures, and the exchanges.                  *)

LEMMA EndMoves ==
  ASSUME CatInv, NEW c \in Request, PurgeDone(c) \/ PurgesDone(c) \/ PublishDone(c)
  PROVE  CatStepOK
  <1>1. Taken(c) => Next
    BY CatFacts DEF Next, Exchange
  <1>2. CASE PurgeDone(c)
    BY <1>1, <1>2 DEF PurgeDone, catVars, CatInv, Served, CatStepOK
  <1>3. CASE PurgesDone(c)
    BY <1>3, QuietFacts, FinishMoves DEF PurgesDone
  <1>4. CASE PublishDone(c)
    <2>1. Next /\ UNCHANGED <<db, started, faults>> /\ (Finish(c) \/ Goto(c, "purging"))
      BY <1>1, <1>4 DEF PublishDone
    <2>2. Tables(db') /\ started' \in 0..MaxRequests /\ faults' \in 0..MaxFaults
      BY <2>1, CatFacts
    <2>3. QED
      BY <2>1, <2>2, FinishMoves, GotoMoves DEF PC
  <1>5. QED
    BY <1>2, <1>3, <1>4

LEMMA FailureMoves ==
  ASSUME CatInv, NEW c \in Request, DatabaseFails(c)
  PROVE  CatStepOK
  <1>1. Tables(db')
    BY CatFacts, CommitKeeps DEF DatabaseFails
  <1>2. faults' \in 0..MaxFaults
    BY CatFacts, CatalogBoundAssumption DEF DatabaseFails
  <1>3. QED
    BY <1>1, <1>2, CatFacts, FinishMoves DEF DatabaseFails

LEMMA ExchangeMoves ==
  ASSUME CatInv, NEW c \in Request, Distribute(c) \/ (Network(c) /\ UNCHANGED catVars)
  PROVE  CatStepOK
  <1>1. Next
    BY CatFacts DEF Distribute, Next, Exchange
  <1>2. UNCHANGED <<db, reqs, started>>
    BY DEF Distribute, catVars
  <1>3. faults' \in 0..MaxFaults
    BY CatFacts, CatalogBoundAssumption DEF Distribute, catVars
  <1>4. QED
    BY <1>1, <1>2, <1>3 DEF CatInv, Served, CatStepOK

LEMMA CatNext == CatInv /\ [CatalogNext]_catalogVars => CatStepOK
  <1> SUFFICES ASSUME CatInv, [CatalogNext]_catalogVars PROVE CatStepOK
    OBVIOUS
  <1>1. CASE CatalogStep
    BY <1>1, ArrivalMoves, ReferenceMoves, FlagMoves, BundleMoves, EndMoves, FailureMoves,
       ExchangeMoves DEF CatalogStep, RequestStep
  <1>2. CASE UNCHANGED catalogVars
    BY <1>2 DEF catalogVars, catVars, CatInv, Served, CatStepOK
  <1>3. QED
    BY <1>1, <1>2 DEF CatalogNext

-----------------------------------------------------------------------------
(* The tables and the buckets at the start.                                *)

LEMMA InSequence ==
  ASSUME NEW S \in SUBSET Key
  PROVE  LET q == SetToSeq(S)
             n == Cardinality(S)
         IN  /\ n \in Nat /\ q \in [1..n -> S] /\ q \in Seq(S) /\ Len(q) = n
             /\ \A i, j \in 1..n : q[i] = q[j] => i = j
  <1> DEFINE n == Cardinality(S)
  <1>1. IsFiniteSet(S)
    BY SeedAssumption, FS_Subset
  <1>2. n \in Nat
    BY <1>1, FS_CardinalityType
  <1>3. \E f \in [1..n -> S] : IsInjective(f)
    <2>1. PICK m \in Nat : ExistsBijection(1..m, S)
      BY <1>1, FS_NatBijection
    <2>2. m = n
      BY <2>1, FS_CountingElements
    <2>3. QED
      BY <2>1, <2>2 DEF ExistsBijection, Bijection, Injection
  <1>4. SetToSeq(S) \in [1..n -> S] /\ IsInjective(SetToSeq(S))
    BY <1>3 DEF SetToSeq
  <1> DEFINE q == SetToSeq(S)
  <1> HIDE DEF n, q
  <1>5. q \in [1..n -> S] /\ IsInjective(q)
    BY <1>4 DEF q, n
  <1>6. q \in Seq(S) /\ Len(q) = n /\ \A i, j \in 1..n : q[i] = q[j] => i = j
    BY <1>2, <1>5 DEF IsInjective
  <1>7. QED
    BY <1>2, <1>5, <1>6 DEF q, n

firstDoc == CHOOSE p \in Payload : p # EmptyDoc

LEMMA FirstDoc == firstDoc \in Payload
  BY SeedAssumption, EmptyDocAssumption DEF firstDoc

LEMMA SeedRows ==
  ASSUME NEW S \in SUBSET Key, NEW first \in Nat, NEW flag \in FlagId \cup {0}
  PROVE  LET T == Seed(SetToSeq(S), first, flag)
         IN  /\ T \in [RowId -> Row \cup {NoRow}]
             /\ \A id \in Rows(T) : /\ T[id] \in Row /\ T[id].key \in S /\ T[id].flag = flag
                                    /\ \A other \in Rows(T) \ {id} : T[other].key # T[id].key
  <1> DEFINE q == SetToSeq(S)
             n == Cardinality(S)
             T == Seed(q, first, flag)
             at(id) == [key |-> q[id - first + 1], flag |-> flag, doc |-> firstDoc]
  <1> HIDE DEF q, n
  <1>1. /\ n \in Nat /\ q \in [1..n -> S] /\ Len(q) = n
        /\ \A i, j \in 1..n : q[i] = q[j] => i = j
    BY InSequence DEF q, n
  <1>2. T = [id \in RowId |-> IF id \in first..(first + n - 1) THEN at(id) ELSE NoRow]
    BY <1>1 DEF Seed, firstDoc
  <1>3. \A id \in RowId : id \in Nat
    BY CatalogIdAssumption
  <1>4. \A id \in RowId : id \in first..(first + n - 1) => id - first + 1 \in 1..n
    BY <1>1, <1>3
  <1>5. \A id \in RowId : id \in first..(first + n - 1) =>
           at(id) \in Row /\ at(id).key = q[id - first + 1] /\ at(id).key \in S /\ at(id).flag = flag
    BY <1>1, <1>4, FirstDoc DEF Row
  <1>6. \A id \in Rows(T) : id \in RowId /\ id \in first..(first + n - 1) /\ T[id] = at(id)
    BY <1>2 DEF Rows
  <1>7. T \in [RowId -> Row \cup {NoRow}]
    BY <1>2, <1>5
  <1> HIDE DEF T, at
  <1>8. ASSUME NEW id \in Rows(T), NEW other \in Rows(T) \ {id}
        PROVE  T[other].key # T[id].key
    <2>1. id - first + 1 # other - first + 1
      BY <1>3, <1>6
    <2>2. QED
      BY <1>1, <1>4, <1>5, <1>6, <2>1
  <1>9. QED
    BY <1>5, <1>6, <1>7, <1>8 DEF T, q

LEMMA SeedTables ==
  ASSUME NEW vs \in SUBSET Key, NEW bs \in SUBSET Key,
         NEW refs \in {Ref, vs \cup bs \cup {Service}}
  PROVE  Tables(SeedDatabase(SetToSeq(vs), SetToSeq(bs), refs))
  <1> DEFINE d == SeedDatabase(SetToSeq(vs), SetToSeq(bs), refs)
             nv == Len(SetToSeq(vs))
             nb == Len(SetToSeq(bs))
             V == Seed(SetToSeq(vs), 1, 1)
             B == Seed(SetToSeq(bs), nv + 1, 0)
  <1>1. nv \in Nat /\ nb \in Nat
    BY InSequence
  <1>2. /\ V \in [RowId -> Row \cup {NoRow}]
        /\ \A id \in Rows(V) : /\ V[id] \in Row /\ V[id].key \in vs /\ V[id].flag = 1
                               /\ \A other \in Rows(V) \ {id} : V[other].key # V[id].key
    BY SeedAssumption, SeedRows
  <1>3. /\ B \in [RowId -> Row \cup {NoRow}]
        /\ \A id \in Rows(B) : /\ B[id] \in Row /\ B[id].key \in bs /\ B[id].flag = 0
                               /\ \A other \in Rows(B) \ {id} : B[other].key # B[id].key
    BY <1>1, SeedRows
  <1>4. d = [refs |-> refs, gone |-> {}, flags |-> {1}, flagSeq |-> 2,
             rowSeq |-> nv + nb + 1, values |-> V, bundles |-> B]
    BY DEF SeedDatabase
  <1> HIDE DEF d, nv, nb, V, B
  <1>5. refs \subseteq Ref /\ vs \subseteq refs /\ bs \subseteq refs /\ Service \in refs
    BY DEF Ref
  <1>6. nv + nb + 1 \in Nat
    BY <1>1
  <1>7. /\ d \in Database /\ d.refs = refs /\ d.flags = {1} /\ d.values = V /\ d.bundles = B
    BY <1>2, <1>3, <1>4, <1>5, <1>6, SeedAssumption DEF Database
  <1>8. Held(V, ValueRows(refs, {1}))
    BY <1>2, <1>5 DEF Held, ValueRows
  <1>9. Held(B, BundleRows(refs))
    BY <1>3, <1>5 DEF Held, BundleRows
  <1>10. Tables(d)
    BY <1>7, <1>8, <1>9 DEF Tables, OneFlag
  <1>11. QED
    BY <1>10 DEF d

LEMMA SeedBucketFacts ==
  ASSUME NEW S \in SUBSET Key, NEW stamp \in {0, 1}
  PROVE  LET s == SeedBucket(SetToSeq(S), firstDoc, stamp)
         IN  /\ s \in BucketState
             /\ \A k \in Key : s.entry[k].revision <= s.seq /\ s.entry[k].stamp \in {0, stamp}
  <1> DEFINE q == SetToSeq(S)
             n == Cardinality(S)
             rev(k) == CHOOSE i \in DOMAIN q : q[i] = k
             full(k) == [payload |-> firstDoc, stamp |-> stamp, revision |-> rev(k)]
             E == [k \in Key |-> IF k \in Range(q) THEN full(k) ELSE Absent]
  <1> HIDE DEF q, n
  <1>1. n \in Nat /\ q \in [1..n -> S] /\ Len(q) = n
    BY InSequence DEF q, n
  <1>2. SeedBucket(q, firstDoc, stamp) = [seq |-> n, entry |-> E]
    BY <1>1 DEF SeedBucket
  <1>3. \A k \in Range(q) : rev(k) \in 1..n
    <2> SUFFICES ASSUME NEW k \in Range(q) PROVE rev(k) \in 1..n
      OBVIOUS
    <2>1. \E i \in DOMAIN q : q[i] = k
      BY DEF Range
    <2>2. rev(k) \in DOMAIN q
      BY <2>1
    <2>3. QED
      BY <1>1, <2>2
  <1> HIDE DEF rev
  <1>4. \A k \in Range(q) : full(k) \in Entry /\ full(k).revision <= n /\ full(k).stamp = stamp
    BY <1>1, <1>3, FirstDoc DEF Entry
  <1>5. Absent \in Entry /\ Absent.revision = 0 /\ Absent.stamp = 0
    BY DEF Absent, Entry
  <1> HIDE DEF full
  <1>6. /\ E \in [Key -> Entry]
        /\ \A k \in Key : E[k].revision <= n /\ E[k].stamp \in {0, stamp}
    BY <1>1, <1>4, <1>5
  <1> HIDE DEF E
  <1>7. QED
    BY <1>1, <1>2, <1>6 DEF BucketState, q

LEMMA CatInit == CatalogInit => CatInv
  <1> SUFFICES ASSUME CatalogInit PROVE CatInv
    OBVIOUS
  <1>1. PICK vs \in SUBSET Key, bs \in SUBSET Key :
          /\ db \in {SeedDatabase(SetToSeq(vs), SetToSeq(bs), refs) :
                        refs \in {Ref, vs \cup bs \cup {Service}}}
          /\ kv = [b \in Bucket |-> IF b = BucketFlags THEN SeedBucket(SetToSeq(vs), firstDoc, 1)
                                                     ELSE SeedBucket(SetToSeq(bs), firstDoc, 0)]
    BY DEF CatalogInit, firstDoc
  <1>2. Tables(db)
    BY <1>1, SeedTables
  <1>3. /\ kv \in [Bucket -> BucketState]
        /\ \A b \in Bucket : \A k \in Key :
             /\ kv[b].entry[k].revision <= kv[b].seq
             /\ kv[b].entry[k].stamp \in {0, IF b = BucketFlags THEN 1 ELSE 0}
    BY <1>1, SeedBucketFacts
  <1>4. /\ provisioned = TRUE /\ clock = 1 /\ started = 0 /\ faults = 0
        /\ calls = [c \in Caller |-> NoCall] /\ late = [c \in Caller |-> NoMessage]
        /\ reqs = [c \in Request |-> NoReq]
    BY DEF CatalogInit
  <1>5. TypeOK
    BY <1>3, <1>4, NoCallType DEF TypeOK
  <1>6. Bounded(kv, clock)
    BY <1>3, <1>4 DEF Bounded
  <1>7. \A c \in Caller : calls[c].pc = "idle" /\ late[c].kind = "none"
    BY <1>4 DEF NoCall, NoMessage
  <1>8. Inv
    BY <1>5, <1>6, <1>7 DEF Inv, Contended
  <1>9. Served
    BY <1>2, <1>4, NoReqType, CatalogBoundAssumption DEF Served
  <1>10. QED
    BY <1>8, <1>9 DEF CatInv

-----------------------------------------------------------------------------
(* The requests of the catalogue use the publisher only through its        *)
(* operations, each with arguments it takes, and keep their tables.        *)
THEOREM CatalogInvariance == CatalogSpec => []CatInv /\ [][Next]_pubVars
  <1>1. CatInv /\ [CatalogNext]_catalogVars => [Next]_pubVars
    BY CatNext DEF CatStepOK
  <1>2. CatInv /\ [CatalogNext]_catalogVars => CatInv'
    BY CatNext, NextInv DEF CatInv, CatStepOK
  <1>3. QED
    BY <1>1, <1>2, CatInit, PTL DEF CatalogSpec

(* Type correctness of the tables and the requests.                        *)
THEOREM CatalogTypeCorrect == CatalogSpec => []CatalogTypeOK
  <1>1. CatInv => CatalogTypeOK
    BY DEF CatInv, Served, Tables, Inv, CatalogTypeOK
  <1>2. QED
    BY <1>1, CatalogInvariance, PTL

(* Whatever creates, moves and deletes of flags, values, bundles,          *)
(* environments and microservices overlap or fail half-way, no row is left *)
(* without what it refers to, and no two rows feed one key.                *)
THEOREM NoOrphans == CatalogSpec => []ReferencesHold
  <1>1. CatInv => ReferencesHold
    <2> SUFFICES ASSUME CatInv PROVE ReferencesHold
      OBVIOUS
    <2>1. Tables(db)
      BY DEF CatInv, Served
    <2>2. QED
      BY <2>1, ValueRowOf, BundleRowOf DEF ReferencesHold, ValueRefs, BundleRefs
  <1>2. QED
    BY <1>1, CatalogInvariance, PTL

(* The promises of the publisher about flags hold with these requests for  *)
(* callers, from buckets that were filled before.                          *)
THEOREM CatalogStampsMonotonic == CatalogSpec => FlagStampsNeverGoBack
  <1>1. Inv /\ [Next]_pubVars =>
          [\A b \in Bucket, k \in Key :
             /\ Live(kv[b], k)
             /\ Live(kv'[b], k)
             => kv'[b].entry[k].stamp >= kv[b].entry[k].stamp]_pubVars
    BY KeySteps
  <1>2. CatInv => Inv
    BY DEF CatInv
  <1>3. QED
    BY <1>1, <1>2, CatalogInvariance, PTL DEF FlagStampsNeverGoBack

-----------------------------------------------------------------------------
(* Drift.  A key is clean when no step on it failed and no two requests    *)
(* overlapped on it.  Under a clean key several requests may be under way  *)
(* at once, but all of them say the same: what is left to publish is the   *)
(* row as it is, and what is left to purge has no row.                     *)

Clean(b, k) == <<b, k>> \notin faulted \cup contested

Backs(b, id, k) == id \in Rows(Table(db, b)) /\ Table(db, b)[id].key = k

Unbacked(b, k) == \A id \in RowId : ~Backs(b, id, k)

Shown(b, k) == \E id \in RowId : /\ Backs(b, id, k)
                                 /\ kv[b].entry[k].payload = Table(db, b)[id].doc

Gone(b, k) == Unbacked(b, k) /\ ~Live(kv[b], k)

ValueOp == {"createValue", "updateValue"}
BundleOp == {"createBundle", "updateBundle"}

(* The rows the read-back of c would find.                                 *)
ReadBack(c) == CASE reqs[c].op = "createValue" -> CreatedValue(c)
                 [] reqs[c].op = "updateValue" -> UpdatedValue(c)
                 [] OTHER                      -> WrittenBundle(c)

Putting(c) == calls[c].pc \in {"get", "write"}

CallOn(c, b, k) == calls[c].bucket = b /\ calls[c].key = k

(* What c has yet to publish, and to purge.                                *)
ToPublish(c, b, k) ==
    \/ Putting(c) /\ CallOn(c, b, k)
    \/ /\ reqs[c].pc = "readback" /\ Serves(c) = b
       /\ \E id \in ReadBack(c) : Backs(b, id, k)

ToPurge(c, b, k) ==
    \/ calls[c].pc = "purge" /\ CallOn(c, b, k)
    \/ Serves(c) = b /\ reqs[c].pc \in {"publishing", "purging"} /\ k \in reqs[c].purge
    \/ Serves(c) = b /\ At(c, "updateBundle", "readback") /\ k = reqs[c].prev /\ k # reqs[c].key

(* How far a request is, and what its call is about.                       *)
Stage(c) ==
    /\ Putting(c) => reqs[c].pc = "publishing" /\ CallOn(c, Serves(c), reqs[c].key)
    /\ calls[c].pc = "purge" => reqs[c].pc = "purging" /\ calls[c].bucket = Serves(c)
    /\ reqs[c].pc \in {"readback", "publishing"} => reqs[c].op \in ValueOp \cup BundleOp
    /\ reqs[c].op \in ValueOp => reqs[c].purge = {}
    /\ reqs[c].op \in BundleOp => reqs[c].doc # EmptyDoc
    /\ reqs[c].op = "createBundle" => reqs[c].prev = NoKey

(* The document on its way is that of the row; a key to purge has no row.  *)
Put(c) ==
    \A b \in Bucket, k \in Key : Clean(b, k) /\ Putting(c) /\ CallOn(c, b, k)
       => \E id \in RowId : Backs(b, id, k) /\ Table(db, b)[id].doc = calls[c].payload

Purged(c) ==
    \A b \in Bucket, k \in Key : Clean(b, k) /\ ToPurge(c, b, k) => Unbacked(b, k)

(* A message that outlived its call is about a key that is not clean.      *)
Wire(c) == late[c].kind # "none" => <<late[c].bucket, late[c].key>> \in faulted

(* The rows a delete or a move has noted are still as they were, or        *)
(* another commit has contested the keys.                                  *)
StillNoted(c, key) ==
    \/ reqs[c].id \in Rows(db.bundles) /\ db.bundles[reqs[c].id].key = key
    \/ /\ reqs[c].prev \in Key => <<BucketLocalization, reqs[c].prev>> \in contested
       /\ reqs[c].id \in Rows(db.bundles)
            => <<BucketLocalization, db.bundles[reqs[c].id].key>> \in contested

SeenFlag(c) ==
    At(c, "deleteFlag", "exec") => \A k \in Key : Clean(BucketFlags, k) =>
       (k \in reqs[c].purge <=> \E id \in ValuesOf(reqs[c].id) : db.values[id].key = k)

SeenValue(c) ==
    At(c, "deleteValue", "exec") =>
       \/ reqs[c].id \in Rows(db.values) /\ reqs[c].purge = {db.values[reqs[c].id].key}
       \/ /\ \A k \in reqs[c].purge : <<BucketFlags, k>> \in contested
          /\ reqs[c].id \in Rows(db.values)
               => <<BucketFlags, db.values[reqs[c].id].key>> \in contested

SeenBundle(c) ==
    /\ At(c, "deleteBundle", "exec") \/ At(c, "updateBundle", "check")
       \/ At(c, "updateBundle", "exec") => StillNoted(c, reqs[c].prev)
    /\ At(c, "updateBundle", "readback") => StillNoted(c, reqs[c].key)

Duty(c) ==
    Stage(c) /\ Put(c) /\ Purged(c) /\ Wire(c) /\ SeenFlag(c) /\ SeenValue(c) /\ SeenBundle(c)

(* A clean key shows its row or has neither row nor entry, or a request    *)
(* is about to see to it.                                                  *)
Settled(b, k) ==
    \/ Shown(b, k) \/ Gone(b, k)
    \/ \E c \in Request : ToPublish(c, b, k)
    \/ Unbacked(b, k) /\ \E c \in Request : ToPurge(c, b, k)

Settles == \A b \in Bucket, k \in Key : Clean(b, k) => Settled(b, k)

(* No bundle is empty, and the ids to come have no row.                    *)
Documented == \A id \in Rows(db.bundles) : db.bundles[id].doc # EmptyDoc

Unnumbered == \A id \in RowId : id >= db.rowSeq => db.values[id] = NoRow /\ db.bundles[id] = NoRow

DriftInv ==
    /\ provisioned = TRUE
    /\ Documented
    /\ Unnumbered
    /\ Settles
    /\ \A c \in Request : Duty(c)

-----------------------------------------------------------------------------
(* What a step leaves to the other requests.                               *)

Alone(c) ==
    /\ \A d \in Request \ {c} : reqs'[d] = reqs[d] /\ calls'[d] = calls[d] /\ late'[d] = late[d]
    /\ provisioned' = provisioned
    /\ Watch

LEMMA TableOf ==
  ASSUME NEW d, Tables(d), NEW b
  PROVE  /\ Table(d, b) \in [RowId -> Row \cup {NoRow}]
         /\ \A id \in Rows(Table(d, b)) :
              /\ id \in RowId /\ Table(d, b)[id].key \in Key /\ Table(d, b)[id].key # NoKey
              /\ Table(d, b)[id].doc \in Payload
              /\ \A other \in Rows(Table(d, b)) \ {id} : Table(d, b)[other].key # Table(d, b)[id].key
  <1>1. d.values \in [RowId -> Row \cup {NoRow}] /\ d.bundles \in [RowId -> Row \cup {NoRow}]
    BY DbFacts DEF Tables
  <1>2. QED
    BY <1>1, ValueRowOf, BundleRowOf, CatalogKeyAssumption DEF Table

LEMMA RowStays ==
  ASSUME Tables(db), Tables(db'), NEW b, NEW k \in Key, k \notin ChangedKeys(b), NEW id \in RowId
  PROVE  /\ Backs(b, id, k) <=> Backs(b, id, k)'
         /\ Backs(b, id, k) => Table(db', b)[id] = Table(db, b)[id]
  <1>1. k # NoKey
    BY CatalogKeyAssumption
  <1>2. id \in ChangedRows(b) => Table(db, b)[id].key # k /\ Table(db', b)[id].key # k
    BY <1>1 DEF ChangedKeys
  <1>3. id \notin ChangedRows(b) => Table(db', b)[id] = Table(db, b)[id]
    BY DEF ChangedRows
  <1>4. QED
    BY <1>2, <1>3 DEF Backs, Rows

LEMMA RowsStay ==
  ASSUME Tables(db), Tables(db'), NEW b, NEW k \in Key, k \notin ChangedKeys(b)
  PROVE  Unbacked(b, k) <=> Unbacked(b, k)'
  <1>1. \A id \in RowId : Backs(b, id, k) <=> Backs(b, id, k)'
    BY RowStays
  <1>2. QED
    BY <1>1 DEF Unbacked

(* What the history variables record of a step.                            *)
LEMMA Watched ==
  ASSUME Watch
  PROVE  /\ faulted \subseteq faulted' /\ contested \subseteq contested'
         /\ \A b, k : Clean(b, k)' => Clean(b, k)
         /\ \A d \in Request : reqs'[d] = reqs[d] =>
              \A k \in Overlap(d, Serves(d)) : <<Serves(d), k>> \in contested'
         /\ \A d \in Request : Failed(d) => <<calls[d].bucket, calls[d].key>> \in faulted'
         /\ \A d \in Request : reqs[d].pc # "idle" /\ reqs'[d] = NoReq /\ faults' # faults =>
              \A k \in Abandoned(d) : <<Serves(d), k>> \in faulted'
  <1>1. faulted \subseteq faulted' /\ contested \subseteq contested'
    BY DEF Watch
  <1>2. \A b, k : Clean(b, k)' => Clean(b, k)
    BY <1>1 DEF Clean
  <1>3. \A d \in Request : reqs'[d] = reqs[d] =>
              \A k \in Overlap(d, Serves(d)) : <<Serves(d), k>> \in contested'
    BY DEF Watch
  <1>4. \A d \in Request : Failed(d) => <<calls[d].bucket, calls[d].key>> \in faulted'
    BY DEF Watch
  <1>5. \A d \in Request : reqs[d].pc # "idle" /\ reqs'[d] = NoReq /\ faults' # faults =>
              \A k \in Abandoned(d) : <<Serves(d), k>> \in faulted'
    BY DEF Watch
  <1>6. QED
    BY <1>1, <1>2, <1>3, <1>4, <1>5

(* A key another request is about to distribute is not changed under it.   *)
LEMMA DistributedStays ==
  ASSUME Watch, NEW d \in Request, reqs'[d] = reqs[d], Stage(d),
         NEW b, NEW k, Clean(b, k)',
         ToPurge(d, b, k) \/ (Putting(d) /\ CallOn(d, b, k))
  PROVE  k \notin ChangedKeys(b)
  <1>1. b = Serves(d) /\ k \in Pending(d)
    <2>1. CASE Putting(d) /\ CallOn(d, b, k)
      BY <2>1 DEF Stage, CallOn, Pending
    <2>2. CASE calls[d].pc = "purge" /\ CallOn(d, b, k)
      BY <2>2 DEF Stage, CallOn, Pending
    <2>3. CASE Serves(d) = b /\ reqs[d].pc \in {"publishing", "purging"} /\ k \in reqs[d].purge
      BY <2>3 DEF Pending
    <2>4. CASE Serves(d) = b /\ At(d, "updateBundle", "readback") /\ k = reqs[d].prev
      BY <2>4 DEF Pending, At
    <2>5. QED
      BY <2>1, <2>2, <2>3, <2>4 DEF ToPurge
  <1>2. k \in ChangedKeys(b) => k \in Overlap(d, b)
    BY <1>1 DEF Overlap
  <1>3. k \in ChangedKeys(b) => <<b, k>> \in contested'
    BY <1>1, <1>2, Watched
  <1>4. QED
    BY <1>3 DEF Clean

LEMMA OtherPut ==
  ASSUME Tables(db), Tables(db'), Watch, NEW d \in Request, Duty(d),
         reqs'[d] = reqs[d], calls'[d] = calls[d], late'[d] = late[d]
  PROVE  Stage(d)' /\ Put(d)' /\ Purged(d)' /\ Wire(d)'
  <1>1. Stage(d)'
    BY DEF Duty, Stage, Putting, CallOn, Serves
  <1>2. ASSUME NEW b \in Bucket, NEW k \in Key, Clean(b, k)', Putting(d), CallOn(d, b, k)
        PROVE  (\E id \in RowId : Backs(b, id, k) /\ Table(db, b)[id].doc = calls[d].payload)'
    <2>1. PICK id \in RowId : Backs(b, id, k) /\ Table(db, b)[id].doc = calls[d].payload
      BY <1>2, Watched DEF Duty, Put
    <2>2. k \notin ChangedKeys(b)
      BY <1>2, DistributedStays DEF Duty
    <2>3. Backs(b, id, k)' /\ Table(db', b)[id] = Table(db, b)[id]
      BY <2>1, <2>2, RowStays
    <2>4. QED
      BY <2>1, <2>3
  <1>3. Put(d)'
    BY <1>2 DEF Put, Putting, CallOn
  <1>4. ASSUME NEW b \in Bucket, NEW k \in Key, Clean(b, k)', ToPurge(d, b, k)
        PROVE  Unbacked(b, k)'
    <2>1. Unbacked(b, k)
      BY <1>4, Watched DEF Duty, Purged
    <2>2. k \notin ChangedKeys(b)
      BY <1>4, DistributedStays DEF Duty
    <2>3. QED
      BY <2>1, <2>2, RowsStay
  <1>5. \A b, k : ToPurge(d, b, k)' => ToPurge(d, b, k)
    BY DEF ToPurge, CallOn, Serves, At
  <1>6. Purged(d)'
    BY <1>4, <1>5 DEF Purged
  <1>7. Wire(d)'
    BY Watched DEF Duty, Wire
  <1>8. QED
    BY <1>1, <1>3, <1>6, <1>7

(* A row that a request noted and somebody else changed: the keys it had   *)
(* and has are contested, and so is the key the request noted.             *)
LEMMA NotedRow ==
  ASSUME Tables(db), Tables(db'), Watch, NEW d \in Request, reqs'[d] = reqs[d],
         NEW id \in Noted(d), id \in RowId
  PROVE  LET b == Serves(d)
         IN  \/ Table(db', b)[id] = Table(db, b)[id]
             \/ /\ id \in Rows(Table(db, b)) => <<b, Table(db, b)[id].key>> \in contested'
                /\ id \in Rows(Table(db', b)) => <<b, Table(db', b)[id].key>> \in contested'
                /\ reqs[d].prev # NoKey => <<b, reqs[d].prev>> \in contested'
  <1> DEFINE b == Serves(d)
             T == Table(db, b)
             U == Table(db', b)
  <1>1. CASE id \notin ChangedRows(b)
    BY <1>1 DEF ChangedRows
  <1>2. CASE id \in ChangedRows(b)
    <2>1. Overlap(d, b) = (ChangedKeys(b) \cap Pending(d))
                            \cup ChangedKeys(b) \cup ({reqs[d].prev} \ {NoKey})
      BY <1>2 DEF Overlap
    <2>2. \A k \in ChangedKeys(b) : <<b, k>> \in contested'
      BY <2>1, Watched
    <2>3. reqs[d].prev # NoKey => <<b, reqs[d].prev>> \in contested'
      BY <2>1, Watched
    <2>4. (id \in Rows(T) => T[id].key # NoKey) /\ (id \in Rows(U) => U[id].key # NoKey)
      BY TableOf
    <2>5. (id \in Rows(T) => T[id].key \in ChangedKeys(b)) /\ (id \in Rows(U) => U[id].key \in ChangedKeys(b))
      BY <1>2, <2>4 DEF ChangedKeys
    <2> HIDE DEF b, T, U
    <2>6. QED
      BY <2>2, <2>3, <2>5 DEF T, U, b
  <1>3. QED
    BY <1>1, <1>2

LEMMA OtherSeenFlag ==
  ASSUME Tables(db), Tables(db'), Watch, NEW d \in Request, SeenFlag(d), reqs'[d] = reqs[d]
  PROVE  SeenFlag(d)'
  <1> SUFFICES ASSUME At(d, "deleteFlag", "exec"), NEW k \in Key, Clean(BucketFlags, k)'
               PROVE  k \in reqs[d].purge <=> (\E id \in ValuesOf(reqs[d].id) : db.values[id].key = k)'
    BY DEF SeenFlag, At
  <1>1. k \in reqs[d].purge <=> \E id \in ValuesOf(reqs[d].id) : db.values[id].key = k
    BY Watched DEF SeenFlag
  <1>2. Serves(d) = BucketFlags /\ Noted(d) = RowId
    BY DEF Serves, Noted, At
  <1>3. k \notin ChangedKeys(BucketFlags)
    <2>1. CASE ChangedRows(BucketFlags) = {}
      BY <2>1 DEF ChangedKeys
    <2>2. CASE ChangedRows(BucketFlags) # {}
      <3>1. ChangedRows(BucketFlags) \cap Noted(d) # {}
        BY <1>2, <2>2 DEF ChangedRows
      <3>2. \A j \in ChangedKeys(BucketFlags) : <<BucketFlags, j>> \in contested'
        BY <1>2, <3>1, Watched DEF Overlap
      <3>3. QED
        BY <3>2 DEF Clean
    <2>3. QED
      BY <2>1, <2>2
  <1>4. \A id \in RowId : /\ Backs(BucketFlags, id, k) <=> Backs(BucketFlags, id, k)'
                          /\ Backs(BucketFlags, id, k) => db'.values[id] = db.values[id]
    BY <1>3, RowStays DEF Table
  <1>5. (\E id \in ValuesOf(reqs[d].id) : db.values[id].key = k)
           <=> \E id \in RowId : Backs(BucketFlags, id, k) /\ db.values[id].flag = reqs[d].id
    BY DEF ValuesOf, Rows, Backs, Table
  <1>6. (\E id \in ValuesOf(reqs[d].id) : db.values[id].key = k)'
           <=> \E id \in RowId : Backs(BucketFlags, id, k)' /\ db'.values[id].flag = reqs[d].id
    BY DEF ValuesOf, Rows, Backs, Table
  <1>7. QED
    BY <1>1, <1>4, <1>5, <1>6

LEMMA OtherSeenValue ==
  ASSUME Tables(db), Tables(db'), Watch, NEW d \in Request, SeenValue(d), reqs'[d] = reqs[d]
  PROVE  SeenValue(d)'
  <1> SUFFICES ASSUME At(d, "deleteValue", "exec")
               PROVE  \/ reqs[d].id \in Rows(db'.values) /\ reqs[d].purge = {db'.values[reqs[d].id].key}
                      \/ /\ \A k \in reqs[d].purge : <<BucketFlags, k>> \in contested'
                         /\ reqs[d].id \in Rows(db'.values)
                              => <<BucketFlags, db'.values[reqs[d].id].key>> \in contested'
    BY DEF SeenValue, At, Rows
  <1>1. Serves(d) = BucketFlags /\ Noted(d) = {reqs[d].id}
    BY DEF Serves, Noted, At
  <1>2. reqs[d].id \in RowId =>
          \/ db'.values[reqs[d].id] = db.values[reqs[d].id]
          \/ /\ reqs[d].id \in Rows(db.values) => <<BucketFlags, db.values[reqs[d].id].key>> \in contested'
             /\ reqs[d].id \in Rows(db'.values) => <<BucketFlags, db'.values[reqs[d].id].key>> \in contested'
    BY <1>1, NotedRow DEF Table
  <1>3. \A T : reqs[d].id \in Rows(T) <=> reqs[d].id \in RowId /\ T[reqs[d].id] # NoRow
    BY DEF Rows
  <1>4. contested \subseteq contested'
    BY Watched
  <1>5. QED
    BY <1>2, <1>3, <1>4 DEF SeenValue

LEMMA OtherStillNoted ==
  ASSUME Tables(db), Tables(db'), Watch, NEW d \in Request, reqs'[d] = reqs[d],
         Serves(d) = BucketLocalization, Noted(d) = {reqs[d].id}, NEW k, StillNoted(d, k)
  PROVE  \/ reqs[d].id \in Rows(db'.bundles) /\ db'.bundles[reqs[d].id].key = k
         \/ /\ reqs[d].prev \in Key => <<BucketLocalization, reqs[d].prev>> \in contested'
            /\ reqs[d].id \in Rows(db'.bundles)
                 => <<BucketLocalization, db'.bundles[reqs[d].id].key>> \in contested'
  <1>1. reqs[d].id \in RowId =>
          \/ db'.bundles[reqs[d].id] = db.bundles[reqs[d].id]
          \/ /\ reqs[d].id \in Rows(db.bundles) => <<BucketLocalization, db.bundles[reqs[d].id].key>> \in contested'
             /\ reqs[d].id \in Rows(db'.bundles) => <<BucketLocalization, db'.bundles[reqs[d].id].key>> \in contested'
             /\ reqs[d].prev # NoKey => <<BucketLocalization, reqs[d].prev>> \in contested'
    <2>1. \A e : Table(e, BucketLocalization) = e.bundles
      BY DEF Table, BucketLocalization, BucketFlags
    <2>2. QED
      BY <2>1, NotedRow
  <1>2. \A T : reqs[d].id \in Rows(T) <=> reqs[d].id \in RowId /\ T[reqs[d].id] # NoRow
    BY DEF Rows
  <1>3. contested \subseteq contested' /\ (reqs[d].prev \in Key => reqs[d].prev # NoKey)
    BY Watched, CatalogKeyAssumption
  <1>4. QED
    BY <1>1, <1>2, <1>3 DEF StillNoted

LEMMA OtherSeenBundle ==
  ASSUME Tables(db), Tables(db'), Watch, NEW d \in Request, SeenBundle(d), reqs'[d] = reqs[d]
  PROVE  SeenBundle(d)'
  <1>1. \/ At(d, "deleteBundle", "exec") \/ At(d, "updateBundle", "check")
        \/ At(d, "updateBundle", "exec") \/ At(d, "updateBundle", "readback")
        => Serves(d) = BucketLocalization /\ Noted(d) = {reqs[d].id}
    BY DEF Serves, Noted, At
  <1>2. QED
    BY <1>1, OtherStillNoted DEF SeenBundle, StillNoted, At, Rows

LEMMA OtherDuties ==
  ASSUME Tables(db), Tables(db'), Watch, NEW d \in Request, Duty(d),
         reqs'[d] = reqs[d], calls'[d] = calls[d], late'[d] = late[d]
  PROVE  Duty(d)'
  BY OtherPut, OtherSeenFlag, OtherSeenValue, OtherSeenBundle DEF Duty

(* The duties under a key whose rows and entry stay.                       *)
LEMMA OtherToPublish ==
  ASSUME Tables(db), Tables(db'), NEW d \in Request, Stage(d), NEW b, NEW k \in Key,
         k \notin ChangedKeys(b), reqs'[d] = reqs[d], calls'[d] = calls[d], ToPublish(d, b, k)
  PROVE  ToPublish(d, b, k)'
  <1>1. CASE Putting(d) /\ CallOn(d, b, k)
    BY <1>1 DEF ToPublish, Putting, CallOn
  <1>2. CASE /\ reqs[d].pc = "readback" /\ Serves(d) = b
             /\ \E id \in ReadBack(d) : Backs(b, id, k)
    <2>1. PICK id \in ReadBack(d) : Backs(b, id, k)
      BY <1>2
    <2>2. id \in RowId /\ reqs[d].op \in ValueOp \cup BundleOp
      BY <1>2, <2>1 DEF Backs, Rows, Stage
    <2>3. Backs(b, id, k)' /\ Table(db', b)[id] = Table(db, b)[id]
      BY <2>1, <2>2, RowStays
    <2>4. CASE reqs[d].op \in ValueOp
      <3>1. /\ b = BucketFlags /\ \A e : Table(e, b) = e.values
            /\ ReadBack(d) = IF reqs[d].op = "createValue" THEN CreatedValue(d) ELSE UpdatedValue(d)
            /\ ReadBack(d)' = IF reqs[d].op = "createValue" THEN CreatedValue(d)' ELSE UpdatedValue(d)'
        BY <1>2, <2>4 DEF ValueOp, Serves, Table, ReadBack
      <3>2. db'.values[id] = db.values[id] /\ id \in Rows(db.values) /\ id \in Rows(db'.values)
        BY <2>1, <2>3, <3>1 DEF Backs
      <3>3. id \in ReadBack(d)'
        BY <2>1, <3>1, <3>2 DEF CreatedValue, UpdatedValue, ValuesOf, Rows
      <3>4. QED
        BY <1>2, <2>3, <3>3 DEF ToPublish, Serves
    <2>5. CASE reqs[d].op \in BundleOp
      <3>1. b = BucketLocalization /\ BucketLocalization # BucketFlags
        BY <1>2, <2>5 DEF BundleOp, Serves, BucketLocalization, BucketFlags
      <3>2. /\ \A e : Table(e, b) = e.bundles
            /\ ReadBack(d) = WrittenBundle(d) /\ ReadBack(d)' = WrittenBundle(d)'
        BY <2>5, <3>1 DEF BundleOp, Table, ReadBack
      <3>3. db'.bundles[id] = db.bundles[id] /\ id \in Rows(db.bundles) /\ id \in Rows(db'.bundles)
        BY <2>1, <2>3, <3>2 DEF Backs
      <3>4. id \in ReadBack(d)'
        BY <2>1, <3>2, <3>3 DEF WrittenBundle, Rows
      <3>5. QED
        BY <1>2, <2>3, <3>4 DEF ToPublish, Serves
    <2>6. QED
      BY <2>2, <2>4, <2>5
  <1>3. QED
    BY <1>1, <1>2 DEF ToPublish

LEMMA SettledStays ==
  ASSUME Tables(db), Tables(db'), DriftInv, NEW c \in Request, Alone(c),
         NEW b \in Bucket, NEW k \in Key, Clean(b, k)', k \notin ChangedKeys(b),
         kv'[b].entry[k] = kv[b].entry[k],
         ToPublish(c, b, k) => Settled(b, k)',
         Unbacked(b, k) /\ ToPurge(c, b, k) => Settled(b, k)'
  PROVE  Settled(b, k)'
  <1>1. Settled(b, k)
    BY Watched DEF Alone, DriftInv, Settles
  <1>2. /\ \A id \in RowId : /\ Backs(b, id, k) <=> Backs(b, id, k)'
                             /\ Backs(b, id, k) => Table(db', b)[id] = Table(db, b)[id]
        /\ Unbacked(b, k) <=> Unbacked(b, k)'
    BY RowStays, RowsStay
  <1>3. CASE Shown(b, k)
    BY <1>2, <1>3 DEF Settled, Shown
  <1>4. CASE Gone(b, k)
    BY <1>2, <1>4 DEF Settled, Gone, Live
  <1>5. ASSUME NEW d \in Request, ToPublish(d, b, k) PROVE Settled(b, k)'
    <2>1. CASE d = c
      BY <1>5, <2>1
    <2>2. CASE d # c
      <3>1. ToPublish(d, b, k)'
        BY <1>5, <2>2, OtherToPublish DEF Alone, DriftInv, Duty
      <3>2. QED
        BY <3>1 DEF Settled
    <2>3. QED
      BY <2>1, <2>2
  <1>6. ASSUME NEW d \in Request, Unbacked(b, k), ToPurge(d, b, k) PROVE Settled(b, k)'
    <2>1. CASE d = c
      BY <1>6, <2>1
    <2>2. CASE d # c
      <3>1. ToPurge(d, b, k)'
        BY <1>6, <2>2 DEF Alone, ToPurge, CallOn, Serves, At
      <3>2. QED
        BY <1>2, <1>6, <3>1 DEF Settled
    <2>3. QED
      BY <2>1, <2>2
  <1>7. QED
    BY <1>1, <1>3, <1>4, <1>5, <1>6 DEF Settled

(* What a step of c has to show.                                           *)
LEMMA DriftKept ==
  ASSUME CatInv, DriftInv, Tables(db'), NEW c \in Request, Alone(c), Duty(c)',
         Documented', Unnumbered', Settles'
  PROVE  DriftInv'
  <1>1. Tables(db) /\ Watch
    BY CatFacts DEF Alone
  <1>2. \A d \in Request \ {c} : Duty(d)'
    BY <1>1, OtherDuties DEF Alone, DriftInv
  <1>3. QED
    BY <1>2 DEF DriftInv, Alone

(* A step that leaves the rows of values and bundles as they are.          *)
SameRows == db'.values = db.values /\ db'.bundles = db.bundles /\ db'.rowSeq = db.rowSeq

LEMMA SameRowsFacts ==
  ASSUME SameRows
  PROVE  /\ \A b : Table(db', b) = Table(db, b) /\ ChangedKeys(b) = {}
         /\ \A b, id, k : Backs(b, id, k)' <=> Backs(b, id, k)
         /\ \A b, k : Unbacked(b, k)' <=> Unbacked(b, k)
   <1>1. \A b : Table(db', b) = Table(db, b)
    BY DEF SameRows, Table
  <1>2. \A b : ChangedKeys(b) = {}
    BY <1>1 DEF ChangedKeys, ChangedRows
  <1>3. \A b, id, k : Backs(b, id, k)' <=> Backs(b, id, k)
    BY <1>1 DEF Backs
  <1>4. \A b, k : Unbacked(b, k)' <=> Unbacked(b, k)
    BY <1>3 DEF Unbacked
  <1>5. QED
    BY <1>1, <1>2, <1>3, <1>4

LEMMA SameRowsKeep ==
  ASSUME SameRows, DriftInv
  PROVE  Documented' /\ Unnumbered'
  BY DEF SameRows, DriftInv, Documented, Unnumbered

(* Neither rows nor buckets change, and what c had to do it still has.     *)
LEMMA QuietDrift ==
  ASSUME CatInv, DriftInv, Tables(db'), NEW c \in Request, Alone(c), SameRows,
         kv' = kv, late' = late,
         Stage(c)', Put(c)', Purged(c)', SeenFlag(c)', SeenValue(c)', SeenBundle(c)',
         \A b \in Bucket, k \in Key : Clean(b, k)' =>
            /\ ToPublish(c, b, k) => ToPublish(c, b, k)'
            /\ ToPurge(c, b, k) => ToPurge(c, b, k)'
  PROVE  DriftInv'
  <1>1. Wire(c)'
    BY Watched DEF DriftInv, Duty, Wire, Alone
  <1>2. ASSUME NEW b \in Bucket, NEW k \in Key, Clean(b, k)' PROVE Settled(b, k)'
    <2>1. ToPublish(c, b, k) => Settled(b, k)'
      BY <1>2 DEF Settled
    <2>2. Unbacked(b, k) /\ ToPurge(c, b, k) => Settled(b, k)'
      BY <1>2, SameRowsFacts DEF Settled
    <2>3. QED
      BY <1>2, <2>1, <2>2, CatFacts, SameRowsFacts, SettledStays
  <1>3. Settles' /\ Documented' /\ Unnumbered'
    BY <1>2, SameRowsKeep DEF Settles
  <1>4. QED
    BY <1>1, <1>3, DriftKept DEF Duty

(* The request ends, with nothing left to distribute under a clean key.    *)
LEMMA EndDrift ==
  ASSUME CatInv, DriftInv, Tables(db'), NEW c \in Request, Alone(c), Finish(c), SameRows,
         kv' = kv, late' = late, ~Putting(c)', calls'[c].pc # "purge",
         \A b \in Bucket, k \in Key : Clean(b, k)' => ~ToPublish(c, b, k) /\ ~ToPurge(c, b, k)
  PROVE  DriftInv'
  <1>1. reqs'[c] = NoReq
    BY CatFacts DEF Finish
  <1>2. Stage(c)' /\ Put(c)' /\ SeenFlag(c)' /\ SeenValue(c)' /\ SeenBundle(c)'
    BY <1>1, CatalogKeyAssumption DEF Stage, Put, SeenFlag, SeenValue, SeenBundle, At, NoReq,
       ValueOp, BundleOp
  <1>3. Purged(c)'
    BY <1>1 DEF Purged, ToPurge, NoReq, At
  <1>4. QED
    BY <1>2, <1>3, QuietDrift

-----------------------------------------------------------------------------
(* A step of one request touches its own record, call and message only.    *)

LEMMA CallAlone ==
  ASSUME Inv, NEW c \in Caller,
         \/ Exchange(c) \/ Network(c)
         \/ \E b, k, p, pc : Begin(c, b, k, p, pc)
  PROVE  /\ \A d \in Caller \ {c} : calls'[d] = calls[d] /\ late'[d] = late[d]
         /\ provisioned' = provisioned
  <1>1. calls \in [Caller -> Call] /\ late \in [Caller -> Message]
    BY DEF Inv, TypeOK
  <1>2. ASSUME NEW a, Return(c, a)
        PROVE  \A d \in Caller \ {c} : calls'[d] = calls[d]
    BY <1>1, <1>2 DEF Return
  <1>3. CASE Network(c)
    BY <1>1, <1>3 DEF Network, LatePut, LatePurge, LateLost
  <1>4. CASE \E b, k, p, pc : Begin(c, b, k, p, pc)
    BY <1>1, <1>2, <1>4 DEF Begin
  <1>5. CASE Current(c)
    BY <1>1, <1>2, <1>5 DEF Current
  <1>6. CASE Write(c) \/ Purge(c) \/ ExchangeFails(c) \/ Taken(c)
    BY <1>1, <1>2, <1>6 DEF Write, Purge, ExchangeFails, Taken
  <1>7. CASE WriteConflict(c)
    BY <1>1, <1>2, <1>7 DEF WriteConflict
  <1>8. CASE ExchangeTimesOut(c)
    BY <1>1, <1>2, <1>8 DEF ExchangeTimesOut
  <1>9. QED
    BY <1>3, <1>4, <1>5, <1>6, <1>7, <1>8 DEF Exchange

LEMMA RequestAlone ==
  ASSUME CatInv, NEW c \in Request, Arrival(c) \/ RequestStep(c)
  PROVE  /\ \A d \in Request \ {c} : reqs'[d] = reqs[d]
         /\ \/ UNCHANGED pubVars
            \/ Exchange(c)
            \/ \E b, k, p, pc : Begin(c, b, k, p, pc)
            \/ calls' = [calls EXCEPT ![c] = [NoCall EXCEPT !.pc = "failed"]]
                 /\ UNCHANGED <<kv, provisioned, clock, late>>
  <1>1. reqs \in [Request -> Req]
    BY CatFacts
  <1>2. CASE Arrival(c)
    <2>1. \E r : Accept(c, r)
      BY <1>2 DEF Arrival, CreateReference, DeleteReference, FlagArrival, CreateFlag, DeleteFlag,
         CreateFlagValue, UpdateFlagValue, DeleteFlagValue, BundleArrival, CreateLocalization,
         UpdateLocalization, DeleteLocalization
    <2>2. QED
      BY <1>1, <2>1 DEF Accept
  <1>3. CASE ReferenceStep(c)
    BY <1>1, <1>3 DEF ReferenceStep, CheckReference, ExecReference, ReferenceRefused, Check, Goto, Finish
  <1>4. CASE CheckFlag(c) \/ ScanDeletedValues(c) \/ ReadDeletedValue(c) \/ checkFlagValueRefs(c)
    BY <1>1, <1>4 DEF CheckFlag, ScanDeletedValues, ReadDeletedValue, checkFlagValueRefs,
       Check, Goto, Finish
  <1>5. CASE FlagsCommitted(c)
    <2>1. reqs[c].op \in {"createFlag", "deleteFlag", "deleteValue", "createValue", "updateValue"}
      BY <1>5 DEF FlagsCommitted, FlagCommit, InsertFlag, DropFlag, InsertValue, SetValue, RemoveValue, At
    <2>2. /\ Finish(c) \/ Goto(c, "purging") \/ Goto(c, "readback")
          /\ UNCHANGED pubVars
      BY <1>5, <2>1 DEF FlagsCommitted
    <2>3. QED
      BY <1>1, <2>2 DEF Finish, Goto
  <1>6. CASE FlagRefused(c)
    BY <1>1, <1>6 DEF FlagRefused, Finish
  <1>7. CASE PublishValue(c)
    BY <1>1, <1>7 DEF PublishValue, PublishFlag, Finish
  <1>8. CASE PurgeFlag(c) \/ PurgeBundle(c)
    BY <1>1, <1>8 DEF PurgeFlag, PurgeBundle, PurgeNext, DeleteKey
  <1>9. CASE PreviousBundle(c) \/ checkRefs(c) \/ BundlesCommitted(c) \/ BundleRefused(c)
    BY <1>1, <1>9 DEF PreviousBundle, checkRefs, BundlesCommitted, BundleRefused, Check, Goto, Finish
  <1>10. CASE PublishBundle(c)
    BY <1>1, <1>10 DEF PublishBundle, PublishDocument, Return, Finish
  <1>11. CASE PurgeDone(c) \/ PurgesDone(c) \/ PublishDone(c)
    BY <1>1, <1>11 DEF PurgeDone, PurgesDone, PublishDone, Exchange, Goto, Finish, catVars
  <1>12. CASE DatabaseFails(c)
    BY <1>1, <1>12 DEF DatabaseFails, Finish
  <1>13. CASE Distribute(c)
    BY <1>1, <1>13 DEF Distribute, Exchange, catVars
  <1>14. QED
    BY <1>2, <1>3, <1>4, <1>5, <1>6, <1>7, <1>8, <1>9, <1>10, <1>11, <1>12, <1>13
       DEF RequestStep, FlagStep, BundleStep

LEMMA StepAlone ==
  ASSUME CatInv, NEW c \in Request, Watch,
         Arrival(c) \/ RequestStep(c) \/ (Network(c) /\ UNCHANGED catVars)
  PROVE  Alone(c)
  <1>1. c \in Caller /\ Request \subseteq Caller /\ Inv
    BY CatFacts, CatalogRequestAssumption DEF CatInv
  <1>2. CASE Network(c) /\ UNCHANGED catVars
    BY <1>1, <1>2, CallAlone DEF Alone, catVars
  <1>3. CASE Arrival(c) \/ RequestStep(c)
    <2>1. calls \in [Caller -> Call]
      BY <1>1 DEF Inv, TypeOK
    <2>2. /\ \A d \in Request \ {c} : calls'[d] = calls[d] /\ late'[d] = late[d]
          /\ provisioned' = provisioned
      BY <1>1, <1>3, <2>1, RequestAlone, CallAlone DEF pubVars
    <2>3. QED
      BY <1>3, <2>2, RequestAlone DEF Alone
  <1>4. QED
    BY <1>2, <1>3

-----------------------------------------------------------------------------
(* Until its commit a request has nothing to distribute.                   *)

Early == {"idle", "previous", "check", "exec"}

LEMMA EarlyFacts ==
  ASSUME DriftInv, NEW c \in Request
  PROVE  /\ reqs[c].pc \notin {"publishing", "purging"} => ~Putting(c) /\ calls[c].pc # "purge"
         /\ reqs[c].pc \in Early => \A b, k : ~ToPublish(c, b, k) /\ ~ToPurge(c, b, k)
  <1>1. Stage(c)
    BY DEF DriftInv, Duty
  <1>2. reqs[c].pc \notin {"publishing", "purging"} => ~Putting(c) /\ calls[c].pc # "purge"
    BY <1>1 DEF Stage
  <1>3. reqs[c].pc \in Early => \A b, k : ~ToPublish(c, b, k) /\ ~ToPurge(c, b, k)
    BY <1>2 DEF Early, ToPublish, ToPurge, At
  <1>4. QED
    BY <1>2, <1>3

(* What the stage of a request asks of its record alone.                   *)
Formed(r) ==
    /\ r.pc \in {"readback", "publishing"} => r.op \in ValueOp \cup BundleOp
    /\ r.op \in ValueOp => r.purge = {}
    /\ r.op \in BundleOp => r.doc # EmptyDoc
    /\ r.op = "createBundle" => r.prev = NoKey

LEMMA EarlyDrift ==
  ASSUME CatInv, DriftInv, NEW c \in Request, Alone(c), UNCHANGED <<pubVars, db>>,
         reqs[c].pc \in Early, reqs'[c].pc \in Early, Formed(reqs'[c]),
         SeenFlag(c)', SeenValue(c)', SeenBundle(c)'
  PROVE  DriftInv'
  <1>1. Tables(db') /\ SameRows /\ kv' = kv /\ late' = late /\ calls' = calls
    BY CatFacts DEF SameRows, pubVars
  <1>2. ~Putting(c) /\ calls[c].pc # "purge" /\ \A b, k : ~ToPublish(c, b, k) /\ ~ToPurge(c, b, k)
    BY EarlyFacts DEF Early
  <1>3. ~Putting(c)' /\ calls'[c].pc # "purge"
    BY <1>1, <1>2 DEF Putting
  <1>4. Stage(c)'
    BY <1>3 DEF Stage, Formed
  <1>5. Put(c)' /\ Purged(c)'
    BY <1>3 DEF Put, Purged, ToPurge, Early, At
  <1>6. QED
    BY <1>1, <1>2, <1>4, <1>5, QuietDrift

LEMMA EarlyEnd ==
  ASSUME CatInv, DriftInv, Tables(db'), NEW c \in Request, Alone(c), UNCHANGED pubVars, SameRows,
         Finish(c), reqs[c].pc \in Early
  PROVE  DriftInv'
  <1>1. kv' = kv /\ late' = late /\ calls' = calls
    BY DEF pubVars
  <1>2. ~Putting(c)' /\ calls'[c].pc # "purge"
    BY <1>1, EarlyFacts DEF Early, Putting
  <1>3. QED
    BY <1>1, <1>2, EarlyFacts, EndDrift

LEMMA QuietEnd ==
  ASSUME CatInv, DriftInv, NEW c \in Request, Alone(c), UNCHANGED <<pubVars, db>>,
         Finish(c), reqs[c].pc \in Early
  PROVE  DriftInv'
  BY CatFacts, EarlyEnd DEF SameRows

LEMMA AcceptDrift ==
  ASSUME CatInv, DriftInv, NEW c \in Request, Alone(c), NEW r, Accept(c, r),
         r.pc \in {"previous", "check"} \/ (r.op = "updateValue" /\ r.pc = "exec"),
         r.pc = "check" => r.op # "updateBundle", Formed(r)
  PROVE  DriftInv'
  <1>1. reqs[c].pc = "idle" /\ reqs'[c] = r /\ UNCHANGED <<pubVars, db>>
    BY CatFacts DEF Accept, NoReq
  <1>2. SeenFlag(c)' /\ SeenValue(c)' /\ SeenBundle(c)'
    BY <1>1 DEF SeenFlag, SeenValue, SeenBundle, At
  <1>3. QED
    BY <1>1, <1>2, EarlyDrift DEF Early

LEMMA ArrivalDrift ==
  ASSUME CatInv, DriftInv, NEW c \in Request, Alone(c), Arrival(c)
  PROVE  DriftInv'
  <1>1. ASSUME NEW op \in {"createRef", "deleteRef"}, NEW ref \in Ref,
               Accept(c, [NoReq EXCEPT !.op = op, !.pc = "check", !.key = ref])
        PROVE  DriftInv'
    <2> DEFINE r == [NoReq EXCEPT !.op = op, !.pc = "check", !.key = ref]
    <2>1. /\ Formed(r)
          /\ r.pc \in {"previous", "check"} \/ (r.op = "updateValue" /\ r.pc = "exec")
          /\ r.pc = "check" => r.op # "updateBundle"
      BY <1>1 DEF NoReq, Formed, ValueOp, BundleOp
    <2>2. Accept(c, r)
      BY <1>1
    <2> HIDE DEF r
    <2>3. QED
      BY <2>1, <2>2, AcceptDrift
  <1>2. ASSUME CreateFlag(c)
        PROVE  DriftInv'
    <2> DEFINE r == [NoReq EXCEPT !.op = "createFlag", !.pc = "check"]
    <2>1. /\ Formed(r)
          /\ r.pc \in {"previous", "check"} \/ (r.op = "updateValue" /\ r.pc = "exec")
          /\ r.pc = "check" => r.op # "updateBundle"
      BY DEF NoReq, Formed, ValueOp, BundleOp
    <2>2. Accept(c, r)
      BY <1>2 DEF CreateFlag
    <2> HIDE DEF r
    <2>3. QED
      BY <2>1, <2>2, AcceptDrift
  <1>3. ASSUME NEW op \in {"deleteFlag", "deleteValue", "deleteBundle"}, NEW id,
               Accept(c, [NoReq EXCEPT !.op = op, !.pc = "previous", !.id = id])
        PROVE  DriftInv'
    <2> DEFINE r == [NoReq EXCEPT !.op = op, !.pc = "previous", !.id = id]
    <2>1. /\ Formed(r)
          /\ r.pc \in {"previous", "check"} \/ (r.op = "updateValue" /\ r.pc = "exec")
          /\ r.pc = "check" => r.op # "updateBundle"
      BY <1>3 DEF NoReq, Formed, ValueOp, BundleOp
    <2>2. Accept(c, r)
      BY <1>3
    <2> HIDE DEF r
    <2>3. QED
      BY <2>1, <2>2, AcceptDrift
  <1>4. ASSUME NEW k \in Key, NEW f \in FlagId, NEW v \in Payload, CreateFlagValue(c, k, f, v)
        PROVE  DriftInv'
    <2> DEFINE r == [NoReq EXCEPT !.op = "createValue", !.pc = "check",
                                  !.key = k, !.id = f, !.doc = v]
    <2>1. /\ Formed(r)
          /\ r.pc \in {"previous", "check"} \/ (r.op = "updateValue" /\ r.pc = "exec")
          /\ r.pc = "check" => r.op # "updateBundle"
      BY DEF NoReq, Formed, ValueOp, BundleOp
    <2>2. Accept(c, r)
      BY <1>4 DEF CreateFlagValue
    <2> HIDE DEF r
    <2>3. QED
      BY <2>1, <2>2, AcceptDrift
  <1>5. ASSUME NEW id \in RowId, NEW v \in Payload, UpdateFlagValue(c, id, v)
        PROVE  DriftInv'
    <2> DEFINE r == [NoReq EXCEPT !.op = "updateValue", !.pc = "exec", !.id = id, !.doc = v]
    <2>1. /\ Formed(r)
          /\ r.pc \in {"previous", "check"} \/ (r.op = "updateValue" /\ r.pc = "exec")
          /\ r.pc = "check" => r.op # "updateBundle"
      BY DEF NoReq, Formed, ValueOp, BundleOp
    <2>2. Accept(c, r)
      BY <1>5 DEF UpdateFlagValue
    <2> HIDE DEF r
    <2>3. QED
      BY <2>1, <2>2, AcceptDrift
  <1>6. ASSUME NEW k \in Key, NEW doc \in Payload, CreateLocalization(c, k, doc)
        PROVE  DriftInv'
    <2> DEFINE r == [NoReq EXCEPT !.op = "createBundle", !.pc = "check",
                                  !.key = k, !.doc = doc]
    <2>1. /\ Formed(r)
          /\ r.pc \in {"previous", "check"} \/ (r.op = "updateValue" /\ r.pc = "exec")
          /\ r.pc = "check" => r.op # "updateBundle"
      BY <1>6 DEF CreateLocalization, checkBundle, NoReq, Formed, ValueOp, BundleOp
    <2>2. Accept(c, r)
      BY <1>6 DEF CreateLocalization
    <2> HIDE DEF r
    <2>3. QED
      BY <2>1, <2>2, AcceptDrift
  <1>7. ASSUME NEW id \in RowId, NEW k \in Key, NEW doc \in Payload,
               UpdateLocalization(c, id, k, doc)
        PROVE  DriftInv'
    <2> DEFINE r == [NoReq EXCEPT !.op = "updateBundle", !.pc = "previous",
                                  !.id = id, !.key = k, !.doc = doc]
    <2>1. /\ Formed(r)
          /\ r.pc \in {"previous", "check"} \/ (r.op = "updateValue" /\ r.pc = "exec")
          /\ r.pc = "check" => r.op # "updateBundle"
      BY <1>7 DEF UpdateLocalization, checkBundle, NoReq, Formed, ValueOp, BundleOp
    <2>2. Accept(c, r)
      BY <1>7 DEF UpdateLocalization
    <2> HIDE DEF r
    <2>3. QED
      BY <2>1, <2>2, AcceptDrift
  <1>8. QED
    BY <1>1, <1>2, <1>3, <1>4, <1>5, <1>6, <1>7 DEF Arrival, CreateReference, DeleteReference,
       FlagArrival, DeleteFlag, DeleteFlagValue, BundleArrival, DeleteLocalization

(* The statements that read.                                               *)
LEMMA CheckDrift ==
  ASSUME CatInv, DriftInv, NEW c \in Request, Alone(c), NEW ok, reqs[c].pc = "check",
         Check(c, ok, "exec"),
         reqs[c].op \notin {"deleteFlag", "deleteValue", "deleteBundle"}
  PROVE  DriftInv'
  <1>1. CASE Finish(c)
    BY <1>1, QuietEnd DEF Check, Early
  <1>2. CASE Goto(c, "exec")
    <2>1. /\ reqs'[c] = [reqs[c] EXCEPT !.pc = "exec"] /\ reqs[c] \in Req
      BY <1>2, CatFacts DEF Goto
    <2>2. /\ reqs'[c].pc = "exec" /\ reqs'[c].op = reqs[c].op /\ reqs'[c].id = reqs[c].id
          /\ reqs'[c].prev = reqs[c].prev /\ reqs'[c].purge = reqs[c].purge
          /\ reqs'[c].doc = reqs[c].doc
      BY <2>1 DEF Req
    <2>3. Stage(c) /\ SeenBundle(c) /\ UNCHANGED <<pubVars, db>>
      BY DEF DriftInv, Duty, Check
    <2>4. Formed(reqs'[c])
      BY <2>2, <2>3 DEF Stage, Formed
    <2>5. SeenFlag(c)' /\ SeenValue(c)'
      BY <2>2 DEF SeenFlag, SeenValue, At
    <2>6. contested \subseteq contested'
      BY Watched DEF Alone
    <2>7. SeenBundle(c)'
      BY <2>2, <2>3, <2>6 DEF SeenBundle, StillNoted, At, Rows
    <2>8. QED
      BY <2>2, <2>3, <2>4, <2>5, <2>7, EarlyDrift DEF Early
  <1>3. QED
    BY <1>1, <1>2 DEF Check

LEMMA ScanDrift ==
  ASSUME CatInv, DriftInv, NEW c \in Request, Alone(c),
         reqs[c].pc = "previous", reqs[c].op \in {"deleteFlag", "deleteValue"},
         NEW t, reqs'[c] = t, t.pc = "exec", t.op = reqs[c].op, t.id = reqs[c].id,
         UNCHANGED <<pubVars, db>>,
         t.op = "deleteFlag" => t.purge = {db.values[id].key : id \in ValuesOf(t.id)},
         t.op = "deleteValue" => t.id \in Rows(db.values) /\ t.purge = {db.values[t.id].key}
  PROVE  DriftInv'
  <1>1. Formed(t) /\ SeenBundle(c)'
    BY DEF Formed, ValueOp, BundleOp, SeenBundle, At
  <1>2. SeenFlag(c)'
    <2>1. ValuesOf(t.id)' = ValuesOf(t.id)
      BY DEF ValuesOf, Rows
    <2>2. t.op = "deleteFlag"
            => \A k : k \in t.purge <=> \E id \in ValuesOf(t.id) : db.values[id].key = k
      OBVIOUS
    <2>3. QED
      BY <2>1, <2>2 DEF SeenFlag, At
  <1>3. SeenValue(c)'
    BY DEF SeenValue, At, Rows
  <1>4. QED
    BY <1>1, <1>2, <1>3, EarlyDrift DEF Early

LEMMA ScanRecord ==
  ASSUME CatInv, NEW c \in Request, NEW X \in SUBSET Key,
         reqs' = [reqs EXCEPT ![c].pc = "exec", ![c].purge = X]
  PROVE  /\ reqs'[c].pc = "exec" /\ reqs'[c].op = reqs[c].op /\ reqs'[c].id = reqs[c].id
         /\ reqs'[c].purge = X
  <1> DEFINE t == [reqs[c] EXCEPT !.pc = "exec", !.purge = X]
  <1>1. t.pc = "exec" /\ t.op = reqs[c].op /\ t.id = reqs[c].id /\ t.purge = X
    BY CatFacts DEF Req
  <1>2. reqs' = [reqs EXCEPT ![c] = t]
    OBVIOUS
  <1> HIDE DEF t
  <1>3. reqs'[c] = t
    BY <1>2, CatFacts
  <1>4. QED
    BY <1>1, <1>3

LEMMA ScanDeletedValuesDrift ==
  ASSUME CatInv, DriftInv, NEW c \in Request, Alone(c), ScanDeletedValues(c)
  PROVE  DriftInv'
  <1> DEFINE X == {db.values[id].key : id \in ValuesOf(reqs[c].id)}
  <1>1. X \in SUBSET Key
    BY CatFacts, ValueRowOf DEF ValuesOf
  <1>2. /\ reqs[c].op = "deleteFlag" /\ reqs[c].pc = "previous" /\ UNCHANGED <<pubVars, db>>
        /\ Finish(c) \/ reqs' = [reqs EXCEPT ![c].pc = "exec", ![c].purge = X]
    BY DEF ScanDeletedValues, At
  <1>3. CASE Finish(c)
    BY <1>2, <1>3, QuietEnd DEF Early
  <1>4. CASE reqs' = [reqs EXCEPT ![c].pc = "exec", ![c].purge = X]
    <2> HIDE DEF X
    <2>1. /\ reqs'[c].pc = "exec" /\ reqs'[c].op = reqs[c].op /\ reqs'[c].id = reqs[c].id
          /\ reqs'[c].purge = X
      BY <1>1, <1>4, ScanRecord
    <2>2. reqs'[c].purge = {db.values[id].key : id \in ValuesOf(reqs'[c].id)}
      BY <2>1 DEF X
    <2>3. QED
      BY <1>2, <2>1, <2>2, ScanDrift
  <1>5. QED
    BY <1>2, <1>3, <1>4

LEMMA ReadDeletedValueDrift ==
  ASSUME CatInv, DriftInv, NEW c \in Request, Alone(c), ReadDeletedValue(c)
  PROVE  DriftInv'
  <1> DEFINE X == {db.values[reqs[c].id].key}
  <1>1. reqs[c].op = "deleteValue" /\ reqs[c].pc = "previous" /\ UNCHANGED <<pubVars, db>>
    BY DEF ReadDeletedValue, At
  <1>2. CASE reqs[c].id \in Rows(db.values)
    <2>1. X \in SUBSET Key /\ reqs' = [reqs EXCEPT ![c].pc = "exec", ![c].purge = X]
      BY <1>2, CatFacts, ValueRowOf DEF ReadDeletedValue
    <2> HIDE DEF X
    <2>2. /\ reqs'[c].pc = "exec" /\ reqs'[c].op = reqs[c].op /\ reqs'[c].id = reqs[c].id
          /\ reqs'[c].purge = X
      BY <2>1, ScanRecord
    <2>3. reqs'[c].purge = {db.values[reqs'[c].id].key} /\ reqs'[c].id \in Rows(db.values)
      BY <1>2, <2>2 DEF X
    <2>4. QED
      BY <1>1, <2>2, <2>3, ScanDrift
  <1>3. CASE reqs[c].id \notin Rows(db.values)
    BY <1>1, <1>3, QuietEnd DEF ReadDeletedValue, Early
  <1>4. QED
    BY <1>2, <1>3

LEMMA PreviousBundleDrift ==
  ASSUME CatInv, DriftInv, NEW c \in Request, Alone(c), PreviousBundle(c)
  PROVE  DriftInv'
  <1>1. CASE Finish(c)
    BY <1>1, QuietEnd DEF PreviousBundle, Early
  <1>2. CASE reqs[c].id \in Rows(db.bundles)
    <2> DEFINE k == db.bundles[reqs[c].id].key
               pc == IF reqs[c].op = "updateBundle" THEN "check" ELSE "exec"
    <2>1. /\ reqs'[c] = [reqs[c] EXCEPT !.pc = pc, !.prev = k] /\ reqs[c] \in Req
          /\ UNCHANGED <<pubVars, db>>
          /\ reqs[c].op \in {"updateBundle", "deleteBundle"} /\ reqs[c].pc = "previous"
      BY <1>2, CatFacts DEF PreviousBundle
    <2> HIDE DEF k, pc
    <2>2. /\ reqs'[c].pc = pc /\ reqs'[c].op = reqs[c].op /\ reqs'[c].id = reqs[c].id
          /\ reqs'[c].prev = k /\ reqs'[c].purge = reqs[c].purge /\ reqs'[c].doc = reqs[c].doc
      BY <2>1 DEF Req
    <2>3. Stage(c) /\ pc \in {"check", "exec"}
      BY DEF DriftInv, Duty, pc
    <2>4. Formed(reqs'[c])
      BY <2>1, <2>2, <2>3 DEF Formed, Stage, ValueOp, BundleOp
    <2>5. SeenFlag(c)' /\ SeenValue(c)'
      BY <2>1, <2>2 DEF SeenFlag, SeenValue, At
    <2>6. SeenBundle(c)'
      BY <1>2, <2>1, <2>2, <2>3 DEF SeenBundle, StillNoted, At, Rows, k
    <2>7. QED
      BY <2>1, <2>2, <2>3, <2>4, <2>5, <2>6, EarlyDrift DEF Early
  <1>3. QED
    BY <1>1, <1>2 DEF PreviousBundle

-----------------------------------------------------------------------------
(* The commits.  The keys of the rows a commit changes are what the        *)
(* request has to distribute from there on.                                *)

LEMMA OtherTable ==
  ASSUME NEW b, Table(db', b) = Table(db, b)
  PROVE  ChangedKeys(b) = {}
  BY DEF ChangedKeys, ChangedRows

LEMMA Tabled ==
  /\ \A b \in Bucket : b = BucketFlags \/ b = BucketLocalization
  /\ BucketFlags # BucketLocalization
  /\ \A e : Table(e, BucketFlags) = e.values
  /\ \A e : Table(e, BucketLocalization) = e.bundles
  BY BucketAssumption, CatalogBucketAssumption
     DEF Table, BucketFlags, BucketLocalization, BucketServiceSettings

(* Which rows a commit changes.                                            *)
Numbered(T, U, i) ==
    /\ i \in RowId /\ \A j \in RowId : j # i => U[j] = T[j]
    /\ \/ i = db.rowSeq /\ db'.rowSeq = db.rowSeq + 1
       \/ i \in Rows(T) /\ db'.rowSeq = db.rowSeq

LEMMA ReferenceEffect ==
  ASSUME CatInv, NEW c \in Request, ReferenceCommit(c) \/ InsertFlag(c)
  PROVE  reqs[c].pc = "exec" /\ SameRows
  <1>1. db \in Database
    BY CatFacts
  <1>2. CASE InsertReference(c)
    BY <1>1, <1>2 DEF InsertReference, At, Database, SameRows
  <1>3. CASE RemoveReference(c)
    BY <1>1, <1>3 DEF RemoveReference, At, Database, SameRows
  <1>4. CASE InsertFlag(c)
    BY <1>1, <1>4 DEF InsertFlag, At, Database, SameRows
  <1>5. QED
    BY <1>2, <1>3, <1>4 DEF ReferenceCommit

LEMMA ValueEffect ==
  ASSUME CatInv, NEW c \in Request, DropFlag(c) \/ InsertValue(c) \/ SetValue(c) \/ RemoveValue(c)
  PROVE  /\ reqs[c].pc = "exec" /\ Serves(c) = BucketFlags /\ db'.bundles = db.bundles
         /\ \/ /\ \A id \in RowId : db'.values[id] = db.values[id] \/ db'.values[id] = NoRow
               /\ db'.rowSeq = db.rowSeq
            \/ \E i : Numbered(db.values, db'.values, i)
  <1>1. db \in Database /\ db.values \in [RowId -> Row \cup {NoRow}]
    BY CatFacts
  <1>2. CASE DropFlag(c)
    BY <1>1, <1>2 DEF DropFlag, At, Database, Serves
  <1>3. CASE RemoveValue(c)
    BY <1>1, <1>3 DEF RemoveValue, At, Database, Serves
  <1>4. CASE InsertValue(c)
    BY <1>1, <1>4 DEF InsertValue, At, Database, Numbered, Serves
  <1>5. CASE SetValue(c)
    BY <1>1, <1>5 DEF SetValue, At, Database, Numbered, Rows, Serves
  <1>6. QED
    BY <1>2, <1>3, <1>4, <1>5

LEMMA BundleEffect ==
  ASSUME CatInv, NEW c \in Request, BundleCommit(c)
  PROVE  /\ reqs[c].pc = "exec" /\ Serves(c) = BucketLocalization /\ db'.values = db.values
         /\ \/ /\ \A id \in RowId : db'.bundles[id] = db.bundles[id] \/ db'.bundles[id] = NoRow
               /\ db'.rowSeq = db.rowSeq
            \/ /\ reqs[c].op \in BundleOp
               /\ \E i : /\ Numbered(db.bundles, db'.bundles, i)
                         /\ db'.bundles[i].doc = reqs[c].doc
  <1>1. db \in Database /\ db.bundles \in [RowId -> Row \cup {NoRow}]
    BY CatFacts
  <1>2. CASE RemoveBundle(c)
    BY <1>1, <1>2 DEF RemoveBundle, At, Database, Serves
  <1>3. CASE InsertBundle(c)
    BY <1>1, <1>3 DEF InsertBundle, At, Database, Numbered, NewBundle, BundleOp, Serves
  <1>4. CASE SetBundle(c)
    BY <1>1, <1>4 DEF SetBundle, At, Database, Numbered, Rows, NewBundle, BundleOp, Serves
  <1>5. QED
    BY <1>2, <1>3, <1>4 DEF BundleCommit

LEMMA CommitRows ==
  ASSUME CatInv, DriftInv, NEW c \in Request, Commit(c)
  PROVE  /\ reqs[c].pc = "exec" /\ Documented' /\ Unnumbered'
         /\ \A b \in Bucket : b # Serves(c) => ChangedKeys(b) = {}
  <1>1. db.rowSeq \in Nat /\ \A id \in RowId : id \in Nat
    BY CatFacts, DbFacts, CatalogIdAssumption
  <1>2. Documented /\ Unnumbered
    BY DEF DriftInv
  <1>3. CASE ReferenceCommit(c) \/ InsertFlag(c)
    BY <1>3, ReferenceEffect, SameRowsKeep, SameRowsFacts
  <1>4. CASE DropFlag(c) \/ InsertValue(c) \/ SetValue(c) \/ RemoveValue(c)
    <2>1. Documented'
      BY <1>2, <1>4, ValueEffect DEF Documented
    <2>2. Unnumbered'
      BY <1>1, <1>2, <1>4, ValueEffect DEF Unnumbered, Numbered, Rows
    <2>3. QED
      BY <1>4, <2>1, <2>2, ValueEffect, Tabled, OtherTable
  <1>5. CASE BundleCommit(c)
    <2>1. reqs[c].op \in BundleOp => reqs[c].doc # EmptyDoc
      BY DEF DriftInv, Duty, Stage
    <2>2. Documented'
      BY <1>2, <1>5, <2>1, BundleEffect DEF Documented, Numbered, Rows
    <2>3. Unnumbered'
      BY <1>1, <1>2, <1>5, BundleEffect DEF Unnumbered, Numbered, Rows
    <2>4. QED
      BY <1>5, <2>2, <2>3, BundleEffect, Tabled, OtherTable
  <1>6. QED
    BY <1>3, <1>4, <1>5 DEF Commit, FlagCommit

LEMMA CommitDrift ==
  ASSUME CatInv, DriftInv, Tables(db'), NEW c \in Request, Alone(c), UNCHANGED pubVars,
         Commit(c), reqs'[c].pc \in {"readback", "purging"}, Formed(reqs'[c]), SeenBundle(c)',
         \A b \in Bucket, k \in Key : Clean(b, k)' /\ ToPurge(c, b, k)' => Unbacked(b, k)',
         \A b \in Bucket, k \in Key : Clean(b, k)' /\ k \in ChangedKeys(b) =>
            ToPublish(c, b, k)' \/ (Unbacked(b, k)' /\ ToPurge(c, b, k)')
  PROVE  DriftInv'
  <1>1. Tables(db) /\ kv' = kv /\ late' = late /\ calls' = calls
    BY CatFacts DEF pubVars
  <1>2. ~Putting(c) /\ calls[c].pc # "purge" /\ \A b, k : ~ToPublish(c, b, k) /\ ~ToPurge(c, b, k)
    BY CommitRows, EarlyFacts DEF Early
  <1>3. ~Putting(c)' /\ calls'[c].pc # "purge"
    BY <1>1, <1>2 DEF Putting
  <1>4. Stage(c)' /\ Put(c)'
    BY <1>3 DEF Stage, Put, Formed
  <1>5. Purged(c)'
    BY DEF Purged
  <1>6. Wire(c)'
    BY Watched DEF DriftInv, Duty, Wire, Alone, pubVars
  <1>7. SeenFlag(c)' /\ SeenValue(c)'
    BY DEF SeenFlag, SeenValue, At
  <1>8. ASSUME NEW b \in Bucket, NEW k \in Key, Clean(b, k)' PROVE Settled(b, k)'
    <2>1. CASE k \notin ChangedKeys(b)
      BY <1>1, <1>2, <1>8, <2>1, SettledStays
    <2>2. CASE k \in ChangedKeys(b)
      BY <1>8, <2>2 DEF Settled
    <2>3. QED
      BY <2>1, <2>2
  <1>9. Settles'
    BY <1>8 DEF Settles
  <1>10. QED
    BY <1>4, <1>5, <1>6, <1>7, <1>9, CommitRows, DriftKept DEF Duty

(* One row of a table is written or removed.                               *)
LEMMA OneRow ==
  ASSUME NEW b, NEW i, NEW row, Tables(db),
         Table(db', b) = [Table(db, b) EXCEPT ![i] = row]
  PROVE  /\ \A j \in RowId : j # i => Table(db', b)[j] = Table(db, b)[j]
         /\ i \in RowId => Table(db', b)[i] = row
         /\ \A k \in ChangedKeys(b) : i \in RowId /\ (k = Table(db, b)[i].key \/ k = row.key)
  <1>1. Table(db, b) \in [RowId -> Row \cup {NoRow}]
    BY TableOf
  <1>2. /\ \A j \in RowId : j # i => Table(db', b)[j] = Table(db, b)[j]
        /\ i \in RowId => Table(db', b)[i] = row
    BY <1>1
  <1>3. ChangedRows(b) \subseteq {i} \cap RowId
    BY <1>2 DEF ChangedRows
  <1>4. QED
    BY <1>2, <1>3 DEF ChangedKeys

LEMMA ServesOf ==
  ASSUME NEW c \in Request
  PROVE  /\ reqs[c].op \in {"createValue", "updateValue", "deleteValue", "deleteFlag"}
              => Serves(c) = BucketFlags
         /\ reqs[c].op \in {"createBundle", "updateBundle", "deleteBundle"}
              => Serves(c) = BucketLocalization
  BY DEF Serves

(* The request after its commit: what it was, at another stage.            *)
LEMMA GotoRecord ==
  ASSUME CatInv, NEW c \in Request, NEW pc, Goto(c, pc)
  PROVE  /\ reqs'[c].pc = pc /\ reqs'[c].op = reqs[c].op /\ reqs'[c].id = reqs[c].id
         /\ reqs'[c].key = reqs[c].key /\ reqs'[c].doc = reqs[c].doc
         /\ reqs'[c].prev = reqs[c].prev /\ reqs'[c].purge = reqs[c].purge
         /\ Serves(c)' = Serves(c)
  <1> DEFINE t == [reqs[c] EXCEPT !.pc = pc]
  <1>1. /\ t.pc = pc /\ t.op = reqs[c].op /\ t.id = reqs[c].id /\ t.key = reqs[c].key
        /\ t.doc = reqs[c].doc /\ t.prev = reqs[c].prev /\ t.purge = reqs[c].purge
    BY CatFacts DEF Req
  <1>2. reqs' = [reqs EXCEPT ![c] = t]
    BY DEF Goto
  <1> HIDE DEF t
  <1>3. reqs'[c] = t
    BY <1>2, CatFacts
  <1>4. QED
    BY <1>1, <1>3 DEF Serves

(* A value written, to be read back and published.                         *)
LEMMA ValueSetDrift ==
  ASSUME CatInv, DriftInv, NEW c \in Request, Alone(c), UNCHANGED pubVars,
         Commit(c), reqs[c].op \in ValueOp, Goto(c, "readback"),
         NEW i \in RowId, NEW row \in Row,
         db'.values = [db.values EXCEPT ![i] = row], db'.bundles = db.bundles,
         db.values[i] = NoRow \/ db.values[i].key = row.key,
         reqs[c].op = "createValue" => row.key = reqs[c].key /\ row.flag = reqs[c].id,
         reqs[c].op = "updateValue" => i = reqs[c].id
  PROVE  DriftInv'
  <1>1. Serves(c)' = BucketFlags /\ reqs'[c].pc = "readback" /\ reqs'[c].op = reqs[c].op
        /\ reqs'[c].id = reqs[c].id /\ reqs'[c].key = reqs[c].key
    BY GotoRecord, ServesOf DEF ValueOp
  <1>2. Formed(reqs'[c])
    BY GotoRecord DEF DriftInv, Duty, Stage, Formed, ValueOp, BundleOp
  <1>3. reqs[c].pc = "exec" /\ Tables(db')
    BY CommitRows, CommitKeeps
  <1>4. SeenBundle(c)'
    BY <1>1 DEF SeenBundle, At, ValueOp
  <1>5. \A b, k : ~ToPurge(c, b, k)'
    <2>1. calls'[c].pc # "purge"
      BY <1>3, EarlyFacts DEF pubVars
    <2>2. QED
      BY <1>1, <2>1 DEF ToPurge, At, ValueOp
  <1>6. db'.values[i] = row /\ row # NoRow /\ i \in Rows(db'.values)
    BY CatFacts, NoRowIsNone DEF Rows
  <1>7. ASSUME NEW b \in Bucket, NEW k \in Key, k \in ChangedKeys(b) PROVE ToPublish(c, b, k)'
    <2>1. b = BucketFlags
      BY <1>7, Tabled, OtherTable
    <2>2. k = db.values[i].key \/ k = row.key
      BY <1>7, <2>1, CatFacts, Tabled, OneRow
    <2>3. k = row.key
      BY <2>2, CatalogKeyAssumption DEF NoRow
    <2>4. i \in ReadBack(c)'
      BY <1>1, <1>6 DEF ReadBack, ValueOp, CreatedValue, UpdatedValue, ValuesOf
    <2>5. Backs(b, i, k)'
      BY <1>6, <2>1, <2>3, Tabled DEF Backs
    <2>6. QED
      BY <1>1, <2>1, <2>4, <2>5 DEF ToPublish
  <1>8. QED
    BY <1>1, <1>2, <1>3, <1>4, <1>5, <1>7, CommitDrift

LEMMA InsertValueDrift ==
  ASSUME CatInv, DriftInv, NEW c \in Request, Alone(c), UNCHANGED pubVars,
         InsertValue(c), Goto(c, "readback")
  PROVE  DriftInv'
  <1> DEFINE row == NewValue(c)
             i == db.rowSeq
             V == [db.values EXCEPT ![i] = row]
  <1>1. /\ row \in Row /\ row.key = reqs[c].key /\ row.flag = reqs[c].id
    BY CatFacts DEF InsertValue, At, Asked, NewValue, Row
  <1>2. /\ i \in RowId /\ reqs[c].op = "createValue" /\ reqs[c].pc = "exec"
        /\ db' = [db EXCEPT !.values = V, !.rowSeq = i + 1]
    BY DEF InsertValue, At
  <1>3. Commit(c)
    BY DEF Commit, FlagCommit
  <1> HIDE DEF row, i, V
  <1>4. db'.values = V /\ db'.bundles = db.bundles /\ db'.rowSeq = i + 1
    BY <1>2, CatFacts DEF Database
  <1>5. i \in Nat /\ \A j \in RowId : j \in Nat
    BY <1>2, CatalogIdAssumption
  <1>6. db.values[i] = NoRow /\ db.rowSeq = i
    BY <1>2, <1>5 DEF DriftInv, Unnumbered, i
  <1>7. QED
    BY <1>1, <1>2, <1>3, <1>4, <1>6, ValueSetDrift DEF V, ValueOp

LEMMA SetValueDrift ==
  ASSUME CatInv, DriftInv, NEW c \in Request, Alone(c), UNCHANGED pubVars,
         SetValue(c), Goto(c, "readback")
  PROVE  DriftInv'
  <1> DEFINE i == reqs[c].id
             row == [db.values[i] EXCEPT !.doc = reqs[c].doc]
             V == [db.values EXCEPT ![i] = row]
  <1>1. /\ i \in Rows(db.values) /\ reqs[c].doc \in Payload
        /\ reqs[c].op = "updateValue" /\ reqs[c].pc = "exec"
    BY CatFacts DEF SetValue, At, Asked
  <1>2. row \in Row /\ row.key = db.values[i].key /\ i \in RowId
    BY <1>1, CatFacts, ValueRowOf DEF Row
  <1>3. db' = [db EXCEPT !.values = V]
    BY DEF SetValue
  <1>4. Commit(c)
    BY DEF Commit, FlagCommit
  <1> HIDE DEF row, V
  <1>5. db'.values = V /\ db'.bundles = db.bundles /\ db'.rowSeq = db.rowSeq
    BY <1>3, CatFacts DEF Database
  <1>6. QED
    BY <1>1, <1>2, <1>4, <1>5, ValueSetDrift DEF V, ValueOp

(* Values removed, whose keys are to be purged.                            *)
LEMMA ValuesGoneDrift ==
  ASSUME CatInv, DriftInv, NEW c \in Request, Alone(c), UNCHANGED pubVars,
         Commit(c), reqs[c].op \in {"deleteFlag", "deleteValue"}, Goto(c, "purging"),
         \A k \in Key : Clean(BucketFlags, k)' /\ k \in reqs[c].purge =>
            Unbacked(BucketFlags, k)',
         \A k \in Key : Clean(BucketFlags, k)' /\ k \in ChangedKeys(BucketFlags) =>
            k \in reqs[c].purge
  PROVE  DriftInv'
  <1>1. /\ Serves(c)' = BucketFlags /\ reqs'[c].pc = "purging" /\ reqs'[c].op = reqs[c].op
        /\ reqs'[c].purge = reqs[c].purge
    BY GotoRecord, ServesOf
  <1>2. Formed(reqs'[c]) /\ SeenBundle(c)'
    BY <1>1 DEF Formed, ValueOp, BundleOp, SeenBundle, At
  <1>3. reqs[c].pc = "exec" /\ Tables(db') /\ \A b \in Bucket : b # BucketFlags => ChangedKeys(b) = {}
    BY CommitRows, CommitKeeps, ServesOf
  <1>4. calls'[c].pc # "purge"
    BY <1>3, EarlyFacts DEF pubVars
  <1>5. \A b, k : ToPurge(c, b, k)' <=> b = BucketFlags /\ k \in reqs[c].purge
    BY <1>1, <1>4 DEF ToPurge, At
  <1>6. \A b \in Bucket, k \in Key : Clean(b, k)' /\ ToPurge(c, b, k)' => Unbacked(b, k)'
    BY <1>5
  <1>7. ASSUME NEW b \in Bucket, NEW k \in Key, Clean(b, k)', k \in ChangedKeys(b)
        PROVE  Unbacked(b, k)' /\ ToPurge(c, b, k)'
    <2>1. b = BucketFlags
      BY <1>3, <1>7
    <2>2. QED
      BY <1>5, <1>7, <2>1
  <1>8. QED
    BY <1>1, <1>2, <1>3, <1>6, <1>7, CommitDrift

LEMMA RowGone ==
  ASSUME NEW b, NEW i, Tables(db), Table(db', b) = [Table(db, b) EXCEPT ![i] = NoRow]
  PROVE  \A k \in ChangedKeys(b) : k = Table(db, b)[i].key
  <1>1. \A k \in ChangedKeys(b) : k # NoKey
    BY DEF ChangedKeys
  <1>2. NoRow.key = NoKey
    BY DEF NoRow
  <1>3. \A row : row = NoRow => \A k \in ChangedKeys(b) : k = Table(db, b)[i].key \/ k = row.key
    BY OneRow
  <1>4. QED
    BY <1>1, <1>2, <1>3

(* A key whose row goes has no other.                                      *)
LEMMA LastRow ==
  ASSUME Tables(db), NEW b, NEW id \in RowId, NEW k, Backs(b, id, k),
         Table(db', b)[id] = NoRow \/ Table(db', b)[id].key # k,
         \A j \in RowId : j # id => Table(db', b)[j] = Table(db, b)[j] \/ Table(db', b)[j] = NoRow
  PROVE  Unbacked(b, k)'
  <1>1. \A other \in Rows(Table(db, b)) \ {id} : Table(db, b)[other].key # k
    BY TableOf DEF Backs
  <1>2. ASSUME NEW j \in RowId PROVE ~Backs(b, j, k)'
    <2>1. CASE j = id
      BY <2>1 DEF Backs, Rows
    <2>2. CASE j # id
      BY <1>1, <2>2 DEF Backs, Rows
    <2>3. QED
      BY <2>1, <2>2
  <1>3. QED
    BY <1>2 DEF Unbacked

LEMMA DropFlagDrift ==
  ASSUME CatInv, DriftInv, NEW c \in Request, Alone(c), UNCHANGED pubVars,
         DropFlag(c), Goto(c, "purging")
  PROVE  DriftInv'
  <1> DEFINE f == reqs[c].id
             F == db.flags \ {f}
             V == [id \in RowId |-> IF id \in ValuesOf(f) THEN NoRow ELSE db.values[id]]
  <1>1. /\ db' = [db EXCEPT !.flags = F, !.values = V]
        /\ reqs[c].op = "deleteFlag" /\ reqs[c].pc = "exec"
    BY DEF DropFlag, At
  <1>2. /\ \A id \in RowId : V[id] = IF id \in ValuesOf(f) THEN NoRow ELSE db.values[id]
    OBVIOUS
  <1>3. Tables(db) /\ Tables(db')
    BY CommitKeeps, CatFacts DEF Commit, FlagCommit
  <1> HIDE DEF V, F
  <1>4. db'.values = V /\ db'.bundles = db.bundles /\ db'.rowSeq = db.rowSeq
    BY <1>1, CatFacts DEF Database
  <1>5. ASSUME NEW k \in Key, Clean(BucketFlags, k)'
        PROVE  k \in reqs[c].purge <=> \E id \in ValuesOf(f) : db.values[id].key = k
    BY <1>1, <1>5, Watched DEF Alone, DriftInv, Duty, SeenFlag, At
  <1>6. \A id \in ValuesOf(f) : id \in RowId /\ id \in Rows(db.values)
    BY DEF ValuesOf, Rows
  <1>7. ASSUME NEW k \in Key, Clean(BucketFlags, k)', k \in reqs[c].purge
        PROVE  Unbacked(BucketFlags, k)'
    <2>1. PICK id \in ValuesOf(f) : db.values[id].key = k
      BY <1>5, <1>7
    <2>2. Backs(BucketFlags, id, k) /\ id \in RowId /\ db'.values[id] = NoRow
      BY <1>2, <1>4, <1>6, <2>1, Tabled DEF Backs
    <2>3. \A j \in RowId : db'.values[j] = db.values[j] \/ db'.values[j] = NoRow
      BY <1>2, <1>4
    <2>4. QED
      BY <1>3, <2>2, <2>3, Tabled, LastRow
  <1>8. ASSUME NEW k \in Key, Clean(BucketFlags, k)', k \in ChangedKeys(BucketFlags)
        PROVE  k \in reqs[c].purge
    <2>1. k # NoKey
      BY CatalogKeyAssumption
    <2>2. PICK id \in RowId : /\ db.values[id] # db'.values[id]
                              /\ k = db.values[id].key \/ k = db'.values[id].key
      BY <1>8, Tabled DEF ChangedKeys, ChangedRows
    <2>3. id \in ValuesOf(f) /\ db'.values[id] = NoRow
      BY <1>2, <1>4, <2>2
    <2>4. k = db.values[id].key
      BY <2>1, <2>2, <2>3 DEF NoRow
    <2>5. QED
      BY <1>5, <1>8, <2>3, <2>4
  <1>9. QED
    BY <1>1, <1>7, <1>8, ValuesGoneDrift DEF Commit, FlagCommit

LEMMA RemoveValueDrift ==
  ASSUME CatInv, DriftInv, NEW c \in Request, Alone(c), UNCHANGED pubVars,
         RemoveValue(c), Goto(c, "purging")
  PROVE  DriftInv'
  <1> DEFINE i == reqs[c].id
             V == [db.values EXCEPT ![i] = NoRow]
  <1>1. /\ db' = [db EXCEPT !.values = V] /\ i \in Rows(db.values) /\ i \in RowId
        /\ reqs[c].op = "deleteValue" /\ reqs[c].pc = "exec"
    BY DEF RemoveValue, At, Rows
  <1>2. V[i] = NoRow /\ \A j \in RowId : j # i => V[j] = db.values[j]
    BY <1>1, CatFacts
  <1>3. Tables(db) /\ Tables(db') /\ contested \subseteq contested'
    BY CommitKeeps, CatFacts, Watched DEF Commit, FlagCommit, Alone
  <1>4. db'.values = V /\ db'.bundles = db.bundles /\ db'.rowSeq = db.rowSeq
    BY <1>1, CatFacts DEF Database
  <1> HIDE DEF V
  <1>5. \/ reqs[c].purge = {db.values[i].key}
        \/ /\ \A k \in reqs[c].purge : <<BucketFlags, k>> \in contested
           /\ <<BucketFlags, db.values[i].key>> \in contested
    BY <1>1 DEF DriftInv, Duty, SeenValue, At
  <1>6. ASSUME NEW k, k = db.values[i].key PROVE Unbacked(BucketFlags, k)'
    <2>1. Backs(BucketFlags, i, k) /\ i \in RowId
      BY <1>1, <1>6, Tabled DEF Backs
    <2>2. /\ Table(db', BucketFlags)[i] = NoRow
          /\ \A j \in RowId : j # i => Table(db', BucketFlags)[j] = Table(db, BucketFlags)[j]
      BY <1>2, <1>4, Tabled
    <2> HIDE DEF i
    <2>3. QED
      BY <1>3, <2>1, <2>2, LastRow
  <1>7. ASSUME NEW k \in Key, Clean(BucketFlags, k)', k \in reqs[c].purge
        PROVE  Unbacked(BucketFlags, k)'
    BY <1>3, <1>5, <1>6, <1>7 DEF Clean
  <1>8. ASSUME NEW k \in Key, Clean(BucketFlags, k)', k \in ChangedKeys(BucketFlags)
        PROVE  k \in reqs[c].purge
    <2>1. Table(db', BucketFlags) = [Table(db, BucketFlags) EXCEPT ![i] = NoRow]
      BY <1>4, Tabled DEF V
    <2> HIDE DEF i
    <2>2. k = db.values[i].key
      BY <1>3, <1>8, <2>1, Tabled, RowGone
    <2>3. QED
      BY <1>3, <1>5, <1>8, <2>2 DEF Clean
  <1>9. QED
    BY <1>1, <1>7, <1>8, ValuesGoneDrift DEF Commit, FlagCommit

(* A bundle written, to be read back and published.                        *)
LEMMA BundleSetDrift ==
  ASSUME CatInv, DriftInv, NEW c \in Request, Alone(c), UNCHANGED pubVars,
         Commit(c), reqs[c].op \in BundleOp, Goto(c, "readback"),
         NEW i \in RowId, NEW row \in Row, row.key = reqs[c].key, row.doc = reqs[c].doc,
         db'.bundles = [db.bundles EXCEPT ![i] = row], db'.values = db.values,
         reqs[c].op = "createBundle" => db.bundles[i] = NoRow,
         reqs[c].op = "updateBundle" => i = reqs[c].id /\ i \in Rows(db.bundles)
  PROVE  DriftInv'
  <1>1. /\ Serves(c)' = BucketLocalization /\ reqs'[c].pc = "readback" /\ reqs'[c].op = reqs[c].op
        /\ reqs'[c].id = reqs[c].id /\ reqs'[c].key = reqs[c].key
        /\ reqs'[c].prev = reqs[c].prev
    BY GotoRecord, ServesOf DEF BundleOp
  <1>2. Formed(reqs'[c])
    BY GotoRecord DEF DriftInv, Duty, Stage, Formed, ValueOp, BundleOp
  <1>3. /\ db'.bundles[i] = row /\ row # NoRow /\ i \in Rows(db'.bundles)
        /\ \A j \in RowId : j # i => db'.bundles[j] = db.bundles[j]
    BY CatFacts, NoRowIsNone DEF Rows
  <1>4. reqs[c].pc = "exec" /\ Tables(db')
    BY CommitRows, CommitKeeps
  <1>5. SeenBundle(c)'
    BY <1>1, <1>3 DEF SeenBundle, StillNoted, At, BundleOp, Rows
  <1>6. \A b, k : ToPurge(c, b, k)' <=> /\ b = BucketLocalization /\ reqs[c].op = "updateBundle"
                                       /\ k = reqs[c].prev /\ k # reqs[c].key
    <2>1. calls'[c].pc # "purge"
      BY <1>4, EarlyFacts DEF pubVars
    <2>2. QED
      BY <1>1, <2>1 DEF ToPurge, At
  <1>7. contested \subseteq contested' /\ Tables(db)
    BY Watched, CatFacts DEF Alone
  <1>8. reqs[c].op = "updateBundle" =>
          \/ db.bundles[i].key = reqs[c].prev
          \/ /\ reqs[c].prev \in Key => <<BucketLocalization, reqs[c].prev>> \in contested'
             /\ <<BucketLocalization, db.bundles[i].key>> \in contested'
    BY <1>4, <1>7 DEF DriftInv, Duty, SeenBundle, StillNoted, At
  <1>9. ASSUME NEW k, reqs[c].op = "updateBundle", k = db.bundles[i].key, k # reqs[c].key
        PROVE  Unbacked(BucketLocalization, k)'
    <2>1. Backs(BucketLocalization, i, k)
      BY <1>9, Tabled DEF Backs
    <2>2. /\ Table(db', BucketLocalization)[i] = row
          /\ \A j \in RowId : j # i =>
                Table(db', BucketLocalization)[j] = Table(db, BucketLocalization)[j]
      BY <1>3, Tabled
    <2>3. QED
      BY <1>7, <1>9, <2>1, <2>2, LastRow
  <1>10. ASSUME NEW b \in Bucket, NEW k \in Key, Clean(b, k)', ToPurge(c, b, k)'
         PROVE  Unbacked(b, k)'
    BY <1>6, <1>8, <1>9, <1>10 DEF Clean
  <1>11. ASSUME NEW b \in Bucket, NEW k \in Key, Clean(b, k)', k \in ChangedKeys(b)
         PROVE  ToPublish(c, b, k)' \/ (Unbacked(b, k)' /\ ToPurge(c, b, k)')
    <2>1. b = BucketLocalization
      BY <1>11, Tabled, OtherTable
    <2>2. k = db.bundles[i].key \/ k = row.key
      BY <1>7, <1>11, <2>1, Tabled, OneRow
    <2>3. CASE k = row.key
      <3>1. i \in ReadBack(c)'
        BY <1>1, <1>3 DEF ReadBack, BundleOp, WrittenBundle
      <3>2. Backs(b, i, k)'
        BY <1>3, <2>1, <2>3, Tabled DEF Backs
      <3>3. QED
        BY <1>1, <2>1, <3>1, <3>2 DEF ToPublish
    <2>4. CASE k # row.key
      <3>1. k = db.bundles[i].key /\ reqs[c].op = "updateBundle"
        BY <2>2, <2>4, CatalogKeyAssumption DEF NoRow, BundleOp
      <3>2. QED
        BY <1>6, <1>8, <1>9, <1>11, <2>1, <2>4, <3>1 DEF Clean
    <2>5. QED
      BY <2>3, <2>4
  <1>12. QED
    BY <1>1, <1>2, <1>4, <1>5, <1>10, <1>11, CommitDrift

LEMMA NewBundleRow ==
  ASSUME CatInv, NEW c \in Request, reqs[c].op \in BundleOp
  PROVE  NewBundle(c) \in Row /\ NewBundle(c).key = reqs[c].key /\ NewBundle(c).doc = reqs[c].doc
  BY CatFacts DEF Asked, NewBundle, Row, BundleOp

LEMMA InsertBundleDrift ==
  ASSUME CatInv, DriftInv, NEW c \in Request, Alone(c), UNCHANGED pubVars,
         InsertBundle(c), Goto(c, "readback")
  PROVE  DriftInv'
  <1> DEFINE row == NewBundle(c)
             i == db.rowSeq
             B == [db.bundles EXCEPT ![i] = row]
  <1>1. /\ i \in RowId /\ reqs[c].op = "createBundle" /\ reqs[c].pc = "exec"
        /\ db' = [db EXCEPT !.bundles = B, !.rowSeq = i + 1]
    BY DEF InsertBundle, At
  <1>2. row \in Row /\ row.key = reqs[c].key /\ row.doc = reqs[c].doc
    BY <1>1, NewBundleRow DEF BundleOp
  <1>3. Commit(c)
    BY DEF Commit, BundleCommit
  <1> HIDE DEF row, i, B
  <1>4. db'.bundles = B /\ db'.values = db.values /\ db'.rowSeq = i + 1
    BY <1>1, CatFacts DEF Database
  <1>5. i \in Nat /\ \A j \in RowId : j \in Nat
    BY <1>1, CatalogIdAssumption
  <1>6. db.bundles[i] = NoRow /\ db.rowSeq = i
    BY <1>1, <1>5 DEF DriftInv, Unnumbered, i
  <1>7. QED
    BY <1>1, <1>2, <1>3, <1>4, <1>6, BundleSetDrift DEF B, BundleOp

LEMMA SetBundleDrift ==
  ASSUME CatInv, DriftInv, NEW c \in Request, Alone(c), UNCHANGED pubVars,
         SetBundle(c), Goto(c, "readback")
  PROVE  DriftInv'
  <1> DEFINE row == NewBundle(c)
             i == reqs[c].id
             B == [db.bundles EXCEPT ![i] = row]
  <1>1. /\ i \in Rows(db.bundles) /\ i \in RowId
        /\ reqs[c].op = "updateBundle" /\ reqs[c].pc = "exec"
        /\ db' = [db EXCEPT !.bundles = B]
    BY DEF SetBundle, At, Rows
  <1>2. row \in Row /\ row.key = reqs[c].key /\ row.doc = reqs[c].doc
    BY <1>1, NewBundleRow DEF BundleOp
  <1>3. Commit(c)
    BY DEF Commit, BundleCommit
  <1> HIDE DEF row, B
  <1>4. db'.bundles = B /\ db'.values = db.values /\ db'.rowSeq = db.rowSeq
    BY <1>1, CatFacts DEF Database
  <1>5. QED
    BY <1>1, <1>2, <1>3, <1>4, BundleSetDrift DEF B, BundleOp

LEMMA RemoveBundleDrift ==
  ASSUME CatInv, DriftInv, NEW c \in Request, Alone(c), UNCHANGED pubVars, RemoveBundle(c),
         reqs' = [reqs EXCEPT ![c].pc = "purging", ![c].purge = {reqs[c].prev}]
  PROVE  DriftInv'
  <1> DEFINE i == reqs[c].id
             B == [db.bundles EXCEPT ![i] = NoRow]
             t == [reqs[c] EXCEPT !.pc = "purging", !.purge = {reqs[c].prev}]
  <1>1. /\ db' = [db EXCEPT !.bundles = B] /\ i \in Rows(db.bundles) /\ i \in RowId
        /\ reqs[c].op = "deleteBundle" /\ reqs[c].pc = "exec"
    BY DEF RemoveBundle, At, Rows
  <1>2. B[i] = NoRow /\ \A j \in RowId : j # i => B[j] = db.bundles[j]
    BY <1>1, CatFacts
  <1>3. Tables(db) /\ Tables(db') /\ contested \subseteq contested'
    BY CommitKeeps, CatFacts, Watched DEF Commit, BundleCommit, Alone
  <1>4. db'.bundles = B /\ db'.values = db.values /\ db'.rowSeq = db.rowSeq
    BY <1>1, CatFacts DEF Database
  <1>5. t.pc = "purging" /\ t.op = reqs[c].op /\ t.purge = {reqs[c].prev}
    BY CatFacts DEF Req
  <1>6. reqs' = [reqs EXCEPT ![c] = t]
    OBVIOUS
  <1> HIDE DEF B, t
  <1>7. reqs'[c] = t
    BY <1>6, CatFacts
  <1>8. /\ Serves(c)' = BucketLocalization /\ reqs'[c].pc = "purging" /\ reqs'[c].op = "deleteBundle"
        /\ reqs'[c].purge = {reqs[c].prev}
    BY <1>1, <1>5, <1>7 DEF Serves
  <1>9. Formed(reqs'[c]) /\ SeenBundle(c)'
    BY <1>8 DEF Formed, ValueOp, BundleOp, SeenBundle, At
  <1>10. Commit(c)
    BY DEF Commit, BundleCommit
  <1>11. \A b, k : ToPurge(c, b, k)' <=> b = BucketLocalization /\ k = reqs[c].prev
    <2>1. calls'[c].pc # "purge"
      BY <1>1, EarlyFacts DEF pubVars
    <2>2. QED
      BY <1>8, <2>1 DEF ToPurge, At
  <1>12. \/ db.bundles[i].key = reqs[c].prev
         \/ /\ reqs[c].prev \in Key => <<BucketLocalization, reqs[c].prev>> \in contested'
            /\ <<BucketLocalization, db.bundles[i].key>> \in contested'
    BY <1>1, <1>3 DEF DriftInv, Duty, SeenBundle, StillNoted, At
  <1>13. ASSUME NEW k, k = db.bundles[i].key PROVE Unbacked(BucketLocalization, k)'
    <2>1. Backs(BucketLocalization, i, k) /\ i \in RowId
      BY <1>1, <1>13, Tabled DEF Backs
    <2>2. /\ Table(db', BucketLocalization)[i] = NoRow
          /\ \A j \in RowId : j # i =>
                Table(db', BucketLocalization)[j] = Table(db, BucketLocalization)[j]
      BY <1>2, <1>4, Tabled
    <2> HIDE DEF i
    <2>3. QED
      BY <1>3, <2>1, <2>2, LastRow
  <1>14. ASSUME NEW b \in Bucket, NEW k \in Key, Clean(b, k)', ToPurge(c, b, k)'
         PROVE  Unbacked(b, k)'
    BY <1>11, <1>12, <1>13, <1>14 DEF Clean
  <1>15. ASSUME NEW b \in Bucket, NEW k \in Key, Clean(b, k)', k \in ChangedKeys(b)
         PROVE  ToPurge(c, b, k)'
    <2>1. b = BucketLocalization
      BY <1>4, <1>15, Tabled, OtherTable
    <2>2. Table(db', b) = [Table(db, b) EXCEPT ![i] = NoRow]
      BY <1>4, <2>1, Tabled DEF B
    <2> HIDE DEF i
    <2>3. k = db.bundles[i].key
      BY <1>3, <1>15, <2>1, <2>2, Tabled, RowGone
    <2>4. QED
      BY <1>11, <1>12, <1>15, <2>1, <2>3 DEF Clean
  <1>16. QED
    BY <1>1, <1>3, <1>8, <1>9, <1>10, <1>14, <1>15, CommitDrift

(* The requests on flags, values and bundles up to their commit.           *)
LEMMA ReferenceDrift ==
  ASSUME CatInv, DriftInv, NEW c \in Request, Alone(c), ReferenceStep(c)
  PROVE  DriftInv'
  <1>1. CASE CheckReference(c)
    BY <1>1, CheckDrift DEF CheckReference, At
  <1>2. CASE ExecReference(c)
    BY <1>2, ReferenceEffect, CommitKeeps, EarlyEnd DEF ExecReference, Commit, Early
  <1>3. CASE ReferenceRefused(c)
    BY <1>3, QuietEnd DEF ReferenceRefused, At, Early
  <1>4. QED
    BY <1>1, <1>2, <1>3 DEF ReferenceStep

LEMMA FlagsCommittedDrift ==
  ASSUME CatInv, DriftInv, NEW c \in Request, Alone(c), FlagsCommitted(c)
  PROVE  DriftInv'
  <1>1. UNCHANGED pubVars /\ FlagCommit(c)
    BY DEF FlagsCommitted
  <1>2. CASE InsertFlag(c)
    <2>1. Finish(c)
      BY <1>2 DEF FlagsCommitted, InsertFlag, At
    <2>2. Tables(db') /\ SameRows /\ reqs[c].pc \in Early
      BY <1>1, <1>2, CommitKeeps, ReferenceEffect DEF Commit, Early
    <2>3. QED
      BY <1>1, <2>1, <2>2, EarlyEnd
  <1>3. CASE DropFlag(c)
    BY <1>1, <1>3, DropFlagDrift DEF FlagsCommitted, DropFlag, At
  <1>4. CASE InsertValue(c)
    BY <1>1, <1>4, InsertValueDrift DEF FlagsCommitted, InsertValue, At
  <1>5. CASE SetValue(c)
    BY <1>1, <1>5, SetValueDrift DEF FlagsCommitted, SetValue, At
  <1>6. CASE RemoveValue(c)
    BY <1>1, <1>6, RemoveValueDrift DEF FlagsCommitted, RemoveValue, At
  <1>7. QED
    BY <1>1, <1>2, <1>3, <1>4, <1>5, <1>6 DEF FlagCommit

LEMMA BundlesCommittedDrift ==
  ASSUME CatInv, DriftInv, NEW c \in Request, Alone(c), BundlesCommitted(c)
  PROVE  DriftInv'
  <1>1. UNCHANGED pubVars /\ BundleCommit(c)
    BY DEF BundlesCommitted
  <1>2. CASE InsertBundle(c)
    BY <1>1, <1>2, InsertBundleDrift DEF BundlesCommitted, InsertBundle, At
  <1>3. CASE SetBundle(c)
    BY <1>1, <1>3, SetBundleDrift DEF BundlesCommitted, SetBundle, At
  <1>4. CASE RemoveBundle(c)
    BY <1>1, <1>4, RemoveBundleDrift DEF BundlesCommitted, RemoveBundle, At
  <1>5. QED
    BY <1>1, <1>2, <1>3, <1>4 DEF BundleCommit

LEMMA RefusedDrift ==
  ASSUME CatInv, DriftInv, NEW c \in Request, Alone(c), FlagRefused(c) \/ BundleRefused(c)
  PROVE  DriftInv'
  BY QuietEnd DEF FlagRefused, BundleRefused, At, Early

LEMMA ChecksDrift ==
  ASSUME CatInv, DriftInv, NEW c \in Request, Alone(c),
         CheckFlag(c) \/ checkFlagValueRefs(c) \/ checkRefs(c)
  PROVE  DriftInv'
  BY CheckDrift DEF CheckFlag, checkFlagValueRefs, checkRefs, At

(* A request that ends without a word to the publisher: its keys are not   *)
(* clean, or nothing was left to do about them.                            *)
LEMMA LeaveDrift ==
  ASSUME CatInv, DriftInv, Tables(db'), NEW c \in Request, Alone(c), Finish(c), UNCHANGED pubVars,
         reqs[c].pc \in Early \cup {"readback"}, Documented', Unnumbered',
         \A b \in Bucket, k \in Key : Clean(b, k)' =>
            k \notin ChangedKeys(b) /\ ~ToPublish(c, b, k) /\ ~ToPurge(c, b, k)
  PROVE  DriftInv'
  <1>1. reqs'[c] = NoReq /\ Tables(db) /\ kv' = kv /\ late' = late /\ calls' = calls
    BY CatFacts DEF Finish, pubVars
  <1>2. ~Putting(c) /\ calls[c].pc # "purge"
    BY EarlyFacts DEF Early
  <1>3. ~Putting(c)' /\ calls'[c].pc # "purge"
    BY <1>1, <1>2 DEF Putting
  <1>4. Stage(c)' /\ Put(c)' /\ SeenFlag(c)' /\ SeenValue(c)' /\ SeenBundle(c)'
    BY <1>1, <1>3, CatalogKeyAssumption DEF Stage, Put, SeenFlag, SeenValue, SeenBundle, At, NoReq,
       ValueOp, BundleOp
  <1>5. Purged(c)'
    BY <1>1, <1>3 DEF Purged, ToPurge, NoReq, At
  <1>6. Wire(c)'
    BY <1>1, Watched DEF DriftInv, Duty, Wire, Alone
  <1>7. ASSUME NEW b \in Bucket, NEW k \in Key, Clean(b, k)' PROVE Settled(b, k)'
    <2>1. kv'[b].entry[k] = kv[b].entry[k] /\ ~ToPublish(c, b, k) /\ ~ToPurge(c, b, k)
      BY <1>1, <1>7
    <2>2. QED
      BY <1>1, <1>7, <2>1, SettledStays
  <1>8. Settles'
    BY <1>7 DEF Settles
  <1>9. QED
    BY <1>4, <1>5, <1>6, <1>8, DriftKept DEF Duty

(* What a read-back that fails leaves behind is on keys noted as failed.   *)
LEMMA ReadBackAbandoned ==
  ASSUME CatInv, DriftInv, NEW c \in Request, Watch, reqs[c].pc = "readback",
         \A k \in Abandoned(c) : <<Serves(c), k>> \in faulted',
         NEW b \in Bucket, NEW k \in Key, Clean(b, k)'
  PROVE  ~ToPublish(c, b, k) /\ ~ToPurge(c, b, k)
  <1>1. Abandoned(c) = {reqs[c].key, reqs[c].prev} \cup {db.values[id].key : id \in UpdatedValue(c)}
    BY DEF Abandoned
  <1>2. Stage(c) /\ SeenBundle(c) /\ contested \subseteq contested'
    BY Watched DEF DriftInv, Duty
  <1>3. ~Putting(c) /\ calls[c].pc # "purge" /\ reqs[c].op \in ValueOp \cup BundleOp
    BY <1>2 DEF Stage
  <1>4. b = Serves(c) => k \notin Abandoned(c)
    BY DEF Clean
  <1>5. ~ToPurge(c, b, k)
    BY <1>1, <1>3, <1>4 DEF ToPurge
  <1>6. ASSUME b = Serves(c), NEW id \in ReadBack(c), Backs(b, id, k) PROVE FALSE
    <2>1. CASE reqs[c].op = "createValue"
      BY <1>1, <1>4, <1>6, <2>1, ServesOf, Tabled DEF ReadBack, CreatedValue, Backs
    <2>2. CASE reqs[c].op = "updateValue"
      BY <1>1, <1>4, <1>6, <2>2, ServesOf, Tabled DEF ReadBack, Backs
    <2>3. CASE reqs[c].op = "createBundle"
      BY <1>1, <1>4, <1>6, <2>3, ServesOf, Tabled DEF ReadBack, WrittenBundle, Backs
    <2>4. CASE reqs[c].op = "updateBundle"
      <3>1. id = reqs[c].id /\ id \in Rows(db.bundles) /\ db.bundles[id].key = k /\ b = BucketLocalization
        BY <1>6, <2>4, ServesOf, Tabled DEF ReadBack, WrittenBundle, Backs
      <3>2. StillNoted(c, reqs[c].key)
        BY <1>2, <2>4 DEF SeenBundle, At
      <3>3. QED
        BY <1>1, <1>2, <1>4, <1>6, <3>1, <3>2 DEF StillNoted, Clean
    <2>5. QED
      BY <1>3, <2>1, <2>2, <2>3, <2>4 DEF ValueOp, BundleOp
  <1>7. QED
    BY <1>3, <1>5, <1>6 DEF ToPublish

LEMMA FailureDrift ==
  ASSUME CatInv, DriftInv, NEW c \in Request, Alone(c), DatabaseFails(c)
  PROVE  DriftInv'
  <1>1. /\ reqs[c].pc \in {"previous", "check", "exec", "readback"}
        /\ faults' # faults /\ Finish(c) /\ reqs'[c] = NoReq /\ UNCHANGED pubVars /\ Watch
    BY CatFacts, CatalogBoundAssumption DEF DatabaseFails, Finish, Alone
  <1>2. \A k \in Abandoned(c) : <<Serves(c), k>> \in faulted'
    BY <1>1, Watched
  <1>3. CASE UNCHANGED db
    <2>1. Tables(db') /\ SameRows
      BY <1>3, CatFacts DEF SameRows
    <2>2. Documented' /\ Unnumbered' /\ \A b : ChangedKeys(b) = {}
      BY <2>1, SameRowsKeep, SameRowsFacts
    <2>3. \A b \in Bucket, k \in Key : Clean(b, k)' => ~ToPublish(c, b, k) /\ ~ToPurge(c, b, k)
      <3>1. CASE reqs[c].pc = "readback"
        BY <1>1, <1>2, <3>1, ReadBackAbandoned
      <3>2. CASE reqs[c].pc \in Early
        BY <3>2, EarlyFacts
      <3>3. QED
        BY <1>1, <3>1, <3>2 DEF Early
    <2>4. reqs[c].pc \in Early \cup {"readback"}
      BY <1>1 DEF Early
    <2>5. QED
      BY <1>1, <2>1, <2>2, <2>3, <2>4, LeaveDrift
  <1>4. CASE Commit(c)
    <2>1. /\ reqs[c].pc = "exec" /\ Documented' /\ Unnumbered' /\ Tables(db')
          /\ \A b \in Bucket : b # Serves(c) => ChangedKeys(b) = {}
      BY <1>4, CommitRows, CommitKeeps
    <2>2. Abandoned(c) = ChangedKeys(Serves(c))
      BY <2>1 DEF Abandoned
    <2>3. ASSUME NEW b \in Bucket, NEW k \in Key, Clean(b, k)' PROVE k \notin ChangedKeys(b)
      BY <1>2, <2>1, <2>2, <2>3 DEF Clean
    <2>4. \A b, k : ~ToPublish(c, b, k) /\ ~ToPurge(c, b, k)
      BY <2>1, EarlyFacts DEF Early
    <2>5. reqs[c].pc \in Early \cup {"readback"}
      BY <2>1 DEF Early
    <2>6. QED
      BY <1>1, <2>1, <2>3, <2>4, <2>5, LeaveDrift
  <1>5. QED
    BY <1>3, <1>4 DEF DatabaseFails

-----------------------------------------------------------------------------
(* After the commit.  The row read back is published under its key.        *)

LEMMA BeginFacts ==
  ASSUME CatInv, DriftInv, NEW c \in Request, NEW b, NEW k, NEW p, NEW pc, Begin(c, b, k, p, pc)
  PROVE  /\ b \in Bucket /\ Returned(c) /\ kv' = kv /\ late' = late
         /\ calls'[c].pc = pc /\ calls'[c].bucket = b /\ calls'[c].key = k
         /\ calls'[c].payload = p
  <1>1. calls \in [Caller -> Call] /\ c \in Caller /\ provisioned
    BY CatFacts DEF CatInv, Inv, TypeOK, DriftInv
  <1>2. calls'[c] = Started(b, k, p, pc)
    BY <1>1 DEF Begin
  <1>3. QED
    BY <1>2 DEF Begin, Started

(* The record of a request that has read its row back.                     *)
LEMMA PublishRecord ==
  ASSUME CatInv, NEW c \in Request, NEW k, NEW P, NEW t,
         t = [reqs[c] EXCEPT !.pc = "publishing", !.key = k, !.purge = P],
         reqs' = [reqs EXCEPT ![c] = t]
  PROVE  /\ reqs'[c].pc = "publishing" /\ reqs'[c].key = k /\ reqs'[c].purge = P
         /\ reqs'[c].op = reqs[c].op /\ reqs'[c].doc = reqs[c].doc /\ reqs'[c].prev = reqs[c].prev
  <1>1. /\ t.pc = "publishing" /\ t.key = k /\ t.purge = P /\ t.op = reqs[c].op
        /\ t.doc = reqs[c].doc /\ t.prev = reqs[c].prev
    BY CatFacts DEF Req
  <1>2. reqs'[c] = t
    BY CatFacts
  <1>3. QED
    BY <1>1, <1>2

(* Read back and handed to the publisher.                                  *)
LEMMA HandedDrift ==
  ASSUME CatInv, DriftInv, NEW c \in Request, Alone(c), UNCHANGED db,
         reqs[c].pc = "readback", NEW b, b = Serves(c), NEW id \in RowId,
         NEW key, reqs'[c].key = key, Backs(b, id, key),
         Begin(c, b, key, Table(db, b)[id].doc, "get"),
         reqs'[c].pc = "publishing", reqs'[c].op = reqs[c].op, reqs'[c].doc = reqs[c].doc,
         reqs'[c].prev = reqs[c].prev, reqs[c].op \in ValueOp => reqs'[c].purge = {},
         \A k \in Key : Clean(b, k)' /\ ToPublish(c, b, k) => k = key,
         \A k \in Key : Clean(b, k)' => (k \in reqs'[c].purge <=> ToPurge(c, b, k))
  PROVE  DriftInv'
  <1>1. /\ Returned(c) /\ kv' = kv /\ late' = late
        /\ calls'[c].pc = "get" /\ calls'[c].bucket = b /\ calls'[c].key = key
        /\ calls'[c].payload = Table(db, b)[id].doc
    BY BeginFacts
  <1>2. Tables(db) /\ Tables(db') /\ SameRows
    BY CatFacts DEF SameRows
  <1>3. Serves(c)' = b /\ ~(calls[c].pc = "purge") /\ Stage(c)
    BY <1>1 DEF Serves, Returned, Answer, DriftInv, Duty
  <1>4. Stage(c)'
    BY <1>1, <1>3 DEF Stage, Putting, CallOn
  <1>5. Put(c)'
    <2>1. SUFFICES ASSUME NEW b1 \in Bucket, NEW k1 \in Key, CallOn(c, b1, k1)'
                   PROVE  (\E i \in RowId : Backs(b1, i, k1) /\ Table(db, b1)[i].doc = calls[c].payload)'
      BY DEF Put
    <2>2. b1 = b /\ k1 = key
      BY <1>1, <2>1 DEF CallOn
    <2>3. Backs(b, id, key)' /\ Table(db', b)[id].doc = calls'[c].payload
      BY <1>1 DEF Backs
    <2>4. QED
      BY <2>2, <2>3
  <1>6. \A b1, k1 : ToPurge(c, b1, k1)' <=> b1 = b /\ k1 \in reqs'[c].purge
    BY <1>1, <1>3 DEF ToPurge, At
  <1>7. Purged(c)'
    <2>1. SUFFICES ASSUME NEW b1 \in Bucket, NEW k1 \in Key, Clean(b1, k1)', ToPurge(c, b1, k1)'
                   PROVE  Unbacked(b1, k1)'
      BY DEF Purged
    <2>2. ToPurge(c, b1, k1) /\ Clean(b1, k1)
      BY <1>6, <2>1, Watched DEF Alone
    <2>3. Unbacked(b1, k1)
      BY <2>2 DEF DriftInv, Duty, Purged
    <2>4. QED
      BY <1>2, <2>3, SameRowsFacts
  <1>8. SeenFlag(c)' /\ SeenValue(c)' /\ SeenBundle(c)'
    BY DEF SeenFlag, SeenValue, SeenBundle, At
  <1>9. ASSUME NEW b1 \in Bucket, NEW k1 \in Key, Clean(b1, k1)'
        PROVE  /\ ToPublish(c, b1, k1) => ToPublish(c, b1, k1)'
               /\ ToPurge(c, b1, k1) => ToPurge(c, b1, k1)'
    <2>1. ToPublish(c, b1, k1) \/ ToPurge(c, b1, k1) => b1 = b
      BY <1>1, <1>3 DEF ToPublish, ToPurge, Putting, Returned, Answer
    <2>2. ToPublish(c, b1, k1) => CallOn(c, b1, k1)' /\ Putting(c)'
      BY <1>1, <1>9, <2>1 DEF CallOn, Putting
    <2>3. QED
      BY <1>6, <1>9, <2>1, <2>2 DEF ToPublish
  <1>10. QED
    BY <1>1, <1>2, <1>4, <1>5, <1>7, <1>8, <1>9, QuietDrift

(* Nothing to read back: whoever removed the row has contested its key.    *)
LEMMA NothingToReadDrift ==
  ASSUME CatInv, DriftInv, NEW c \in Request, Alone(c), UNCHANGED <<pubVars, db>>,
         reqs[c].pc = "readback", ReadBack(c) = {}, Finish(c)
  PROVE  DriftInv'
  <1>1. Stage(c) /\ SeenBundle(c) /\ contested \subseteq contested'
    BY Watched DEF Alone, DriftInv, Duty
  <1>2. ~Putting(c) /\ calls[c].pc # "purge" /\ \A b, k : ~ToPublish(c, b, k)
    BY <1>1 DEF Stage, ToPublish
  <1>3. ASSUME NEW b \in Bucket, NEW k \in Key, Clean(b, k)', ToPurge(c, b, k) PROVE FALSE
    <2>1. /\ At(c, "updateBundle", "readback") /\ k = reqs[c].prev /\ b = BucketLocalization
      BY <1>2, <1>3, ServesOf DEF ToPurge, At
    <2>2. reqs[c].id \notin Rows(db.bundles)
      BY <2>1 DEF ReadBack, WrittenBundle, At
    <2>3. <<b, k>> \in contested'
      BY <1>1, <2>1, <2>2 DEF SeenBundle, StillNoted
    <2>4. QED
      BY <1>3, <2>3 DEF Clean
  <1>4. Tables(db') /\ SameRows /\ kv' = kv /\ late' = late /\ calls' = calls
    BY CatFacts DEF SameRows, pubVars
  <1>5. ~Putting(c)' /\ calls'[c].pc # "purge"
    BY <1>2, <1>4 DEF Putting
  <1>6. QED
    BY <1>2, <1>3, <1>4, <1>5, EndDrift

LEMMA PublishValueDrift ==
  ASSUME CatInv, DriftInv, NEW c \in Request, Alone(c), PublishValue(c)
  PROVE  DriftInv'
  <1> DEFINE found == IF reqs[c].op = "createValue" THEN CreatedValue(c) ELSE UpdatedValue(c)
  <1>1. /\ reqs[c].op \in ValueOp /\ reqs[c].pc = "readback" /\ UNCHANGED db
        /\ ReadBack(c) = found /\ Serves(c) = BucketFlags
    BY ServesOf DEF PublishValue, ReadBack, ValueOp
  <1>2. CASE found = {} /\ Finish(c) /\ UNCHANGED pubVars
    BY <1>1, <1>2, NothingToReadDrift
  <1>3. ASSUME NEW id \in found,
               PublishFlag(c, db.values[id].key, db.values[id].doc),
               reqs' = [reqs EXCEPT ![c].pc = "publishing", ![c].key = db.values[id].key]
        PROVE  DriftInv'
    <2> DEFINE key == db.values[id].key
    <2>1. Stage(c) /\ reqs[c].purge = {} /\ reqs[c] \in Req
      BY <1>1, CatFacts DEF DriftInv, Duty, Stage
    <2>2. reqs' = [reqs EXCEPT ![c] = [reqs[c] EXCEPT !.pc = "publishing", !.key = key]]
      BY <1>3
    <2> HIDE DEF key
    <2>3. /\ reqs'[c].pc = "publishing" /\ reqs'[c].key = key /\ reqs'[c].purge = {}
          /\ reqs'[c].op = reqs[c].op /\ reqs'[c].doc = reqs[c].doc /\ reqs'[c].prev = reqs[c].prev
      <3> DEFINE t == [reqs[c] EXCEPT !.pc = "publishing", !.key = key]
      <3>1. /\ t.pc = "publishing" /\ t.key = key /\ t.purge = {} /\ t.op = reqs[c].op
            /\ t.doc = reqs[c].doc /\ t.prev = reqs[c].prev
        BY <2>1 DEF Req
      <3> HIDE DEF t
      <3>2. reqs'[c] = t
        BY <2>2, CatFacts DEF t
      <3>3. QED
        BY <3>1, <3>2
    <2>4. id \in Rows(db.values) /\ id \in RowId
      BY DEF CreatedValue, UpdatedValue, ValuesOf, Rows
    <2>5. Backs(BucketFlags, id, key) /\ Begin(c, BucketFlags, key, Table(db, BucketFlags)[id].doc, "get")
      BY <1>3, <2>4, Tabled DEF Backs, PublishFlag, key
    <2>6. ASSUME NEW k \in Key, ToPublish(c, BucketFlags, k) PROVE k = key
      <3>1. ~Putting(c)
        BY <1>1, <2>1 DEF Stage
      <3>2. PICK other \in found : db.values[other].key = k
        BY <1>1, <2>6, <3>1, Tabled DEF ToPublish, Backs
      <3>3. CASE reqs[c].op = "createValue"
        BY <3>2, <3>3 DEF CreatedValue, key
      <3>4. CASE reqs[c].op # "createValue"
        BY <3>2, <3>4 DEF UpdatedValue, key
      <3>5. QED
        BY <3>3, <3>4
    <2>7. \A k : ~ToPurge(c, BucketFlags, k)
      BY <1>1, <2>1 DEF ToPurge, Stage, At, ValueOp
    <2> HIDE DEF found
    <2>8. QED
      BY <1>1, <2>3, <2>4, <2>5, <2>6, <2>7, HandedDrift
  <1>4. QED
    BY <1>2, <1>3 DEF PublishValue

LEMMA PublishBundleDrift ==
  ASSUME CatInv, DriftInv, NEW c \in Request, Alone(c), PublishBundle(c)
  PROVE  DriftInv'
  <1>1. /\ reqs[c].op \in BundleOp /\ reqs[c].pc = "readback" /\ UNCHANGED db
        /\ ReadBack(c) = WrittenBundle(c) /\ Serves(c) = BucketLocalization
    BY ServesOf DEF PublishBundle, ReadBack, BundleOp
  <1>2. CASE WrittenBundle(c) = {} /\ Finish(c) /\ UNCHANGED pubVars
    BY <1>1, <1>2, NothingToReadDrift
  <1>3. ASSUME NEW id \in WrittenBundle(c),
               PublishDocument(c, BucketLocalization, db.bundles[id].key, db.bundles[id].doc),
               reqs' = [reqs EXCEPT ![c].pc = "publishing", ![c].key = db.bundles[id].key,
                                    ![c].purge = Moved(c, db.bundles[id].key)]
        PROVE  DriftInv'
    <2> DEFINE key == db.bundles[id].key
               P == Moved(c, key)
    <2>1. /\ Stage(c) /\ SeenBundle(c) /\ Documented /\ contested \subseteq contested'
      BY Watched DEF Alone, DriftInv, Duty
    <2>2. /\ reqs'[c].pc = "publishing" /\ reqs'[c].key = key /\ reqs'[c].purge = P
          /\ reqs'[c].op = reqs[c].op /\ reqs'[c].doc = reqs[c].doc /\ reqs'[c].prev = reqs[c].prev
      <3> DEFINE t == [reqs[c] EXCEPT !.pc = "publishing", !.key = key, !.purge = P]
      <3>1. reqs' = [reqs EXCEPT ![c] = t]
        BY <1>3
      <3> HIDE DEF key, P
      <3>2. t = [reqs[c] EXCEPT !.pc = "publishing", !.key = key, !.purge = P]
        OBVIOUS
      <3> HIDE DEF t
      <3>3. QED
        BY <3>1, <3>2, PublishRecord
    <2>3. id \in Rows(db.bundles) /\ id \in RowId
      BY DEF WrittenBundle, Rows
    <2>4. db.bundles[id].doc # EmptyDoc
      BY <2>1, <2>3 DEF Documented
    <2>5. Backs(BucketLocalization, id, key)
          /\ Begin(c, BucketLocalization, key, Table(db, BucketLocalization)[id].doc, "get")
      BY <1>3, <2>3, <2>4, Tabled DEF Backs, PublishDocument
    <2>6. reqs[c].op \in {"createBundle", "updateBundle"}
      BY <1>1 DEF BundleOp
    <2>7. reqs[c].op = "createBundle" => key = reqs[c].key /\ P = {}
      BY <2>1 DEF WrittenBundle, Stage, Moved
    <2>8. reqs[c].op = "updateBundle" =>
            /\ id = reqs[c].id
            /\ key = reqs[c].key \/ (reqs[c].prev \in Key => <<BucketLocalization, reqs[c].prev>> \in contested')
      BY <1>1, <2>1 DEF WrittenBundle, SeenBundle, StillNoted, At
    <2>9. ~Putting(c) /\ calls[c].pc # "purge"
      BY <1>1, <2>1 DEF Stage
    <2>10. ASSUME NEW k \in Key, ToPublish(c, BucketLocalization, k) PROVE k = key
      <3>1. PICK other \in WrittenBundle(c) : db.bundles[other].key = k
        BY <1>1, <2>9, <2>10, Tabled DEF ToPublish, Backs
      <3>2. QED
        BY <2>6, <2>7, <2>8, <3>1 DEF WrittenBundle
    <2>11. \A k : ToPurge(c, BucketLocalization, k) <=> /\ reqs[c].op = "updateBundle"
                                                       /\ k = reqs[c].prev /\ k # reqs[c].key
      BY <1>1, <2>9 DEF ToPurge, At
    <2>12. ASSUME NEW k \in Key, Clean(BucketLocalization, k)'
           PROVE  k \in P <=> ToPurge(c, BucketLocalization, k)
      <3>1. CASE reqs[c].op = "createBundle"
        BY <2>7, <2>11, <3>1
      <3>2. CASE reqs[c].op = "updateBundle"
        <4>1. k = reqs[c].prev => key = reqs[c].key
          BY <2>8, <2>12, <3>2 DEF Clean
        <4>2. k # NoKey
          BY CatalogKeyAssumption
        <4>3. k \in P <=> k = reqs[c].prev /\ k # key
          BY <4>2 DEF Moved
        <4>4. QED
          BY <2>11, <3>2, <4>1, <4>3
      <3>3. QED
        BY <2>6, <3>1, <3>2
    <2>13. reqs[c].op \notin ValueOp
      BY <2>6 DEF ValueOp
    <2> HIDE DEF key, P
    <2>14. QED
      BY <1>1, <2>2, <2>3, <2>5, <2>10, <2>12, <2>13, HandedDrift
  <1>4. QED
    BY <1>2, <1>3 DEF PublishBundle

-----------------------------------------------------------------------------
(* The purges of a request, and its end.                                   *)

LEMMA PurgeNextDrift ==
  ASSUME CatInv, DriftInv, NEW c \in Request, Alone(c), PurgeFlag(c) \/ PurgeBundle(c)
  PROVE  DriftInv'
  <1> DEFINE b == Serves(c)
  <1>1. /\ PurgeNext(c, b) /\ reqs[c].op \notin ValueOp
    BY ServesOf DEF PurgeFlag, PurgeBundle, ValueOp
  <1> HIDE DEF b
  <1>2. PICK k \in reqs[c].purge : /\ Begin(c, b, k, NoPayload, "purge")
                                   /\ reqs' = [reqs EXCEPT ![c].purge = @ \ {k}]
    BY <1>1 DEF PurgeNext, DeleteKey
  <1>3. /\ reqs[c].pc = "purging" /\ calls[c].pc = "idle" /\ UNCHANGED db
    BY <1>1 DEF PurgeNext
  <1>4. /\ kv' = kv /\ late' = late
        /\ calls'[c].pc = "purge" /\ calls'[c].bucket = b /\ calls'[c].key = k
    BY <1>2, BeginFacts
  <1>5. /\ reqs'[c].pc = "purging" /\ reqs'[c].purge = reqs[c].purge \ {k}
        /\ reqs'[c].op = reqs[c].op /\ reqs'[c].doc = reqs[c].doc /\ reqs'[c].prev = reqs[c].prev
    <2> DEFINE t == [reqs[c] EXCEPT !.purge = @ \ {k}]
    <2>1. /\ t.pc = "purging" /\ t.purge = reqs[c].purge \ {k} /\ t.op = reqs[c].op
          /\ t.doc = reqs[c].doc /\ t.prev = reqs[c].prev
      BY <1>3, CatFacts DEF Req
    <2>2. reqs' = [reqs EXCEPT ![c] = t]
      BY <1>2
    <2> HIDE DEF t
    <2>3. reqs'[c] = t
      BY <2>2, CatFacts
    <2>4. QED
      BY <2>1, <2>3
  <1>6. Tables(db') /\ SameRows /\ Serves(c)' = b /\ Stage(c)
    BY <1>3, <1>5, CatFacts DEF SameRows, Serves, DriftInv, Duty, b
  <1>7. Stage(c)' /\ Put(c)'
    BY <1>1, <1>4, <1>5, <1>6 DEF Stage, Put, Putting
  <1>8. \A b1, k1 : ToPurge(c, b1, k1)' <=> ToPurge(c, b1, k1)
    BY <1>2, <1>3, <1>4, <1>5, <1>6 DEF ToPurge, CallOn, At, b
  <1>9. Purged(c)'
    <2>1. SUFFICES ASSUME NEW b1 \in Bucket, NEW k1 \in Key, Clean(b1, k1)', ToPurge(c, b1, k1)'
                   PROVE  Unbacked(b1, k1)'
      BY DEF Purged
    <2>2. ToPurge(c, b1, k1) /\ Clean(b1, k1)
      BY <1>8, <2>1, Watched DEF Alone
    <2>3. Unbacked(b1, k1)
      BY <2>2 DEF DriftInv, Duty, Purged
    <2>4. QED
      BY <1>6, <2>3, SameRowsFacts
  <1>10. SeenFlag(c)' /\ SeenValue(c)' /\ SeenBundle(c)'
    BY <1>5 DEF SeenFlag, SeenValue, SeenBundle, At
  <1>11. \A b1, k1 : ~ToPublish(c, b1, k1)
    BY <1>3 DEF ToPublish, Putting
  <1>12. QED
    BY <1>4, <1>6, <1>7, <1>8, <1>9, <1>10, <1>11, QuietDrift

(* The answer of a call is taken: what is left is in the request.          *)
LEMMA TakenDrift ==
  ASSUME CatInv, DriftInv, NEW c \in Request, Alone(c), UNCHANGED <<db, kv, late>>,
         ~Putting(c), calls[c].pc # "purge", calls'[c].pc = "idle" \/ calls' = calls,
         reqs[c].pc \in {"publishing", "purging"}, reqs'[c].pc = "purging",
         reqs'[c].op = reqs[c].op, reqs'[c].purge = reqs[c].purge,
         reqs'[c].doc = reqs[c].doc, reqs'[c].prev = reqs[c].prev
  PROVE  DriftInv'
  <1>1. Tables(db') /\ SameRows /\ Serves(c)' = Serves(c) /\ Stage(c)
    BY CatFacts DEF SameRows, Serves, DriftInv, Duty
  <1>2. ~Putting(c)' /\ calls'[c].pc # "purge"
    BY DEF Putting
  <1>3. Stage(c)' /\ Put(c)'
    BY <1>1, <1>2 DEF Stage, Put
  <1>4. \A b, k : ToPurge(c, b, k)' <=> ToPurge(c, b, k)
    BY <1>1, <1>2 DEF ToPurge, At
  <1>5. Purged(c)'
    <2>1. SUFFICES ASSUME NEW b \in Bucket, NEW k \in Key, Clean(b, k)', ToPurge(c, b, k)'
                   PROVE  Unbacked(b, k)'
      BY DEF Purged
    <2>2. ToPurge(c, b, k) /\ Clean(b, k)
      BY <1>4, <2>1, Watched DEF Alone
    <2>3. Unbacked(b, k)
      BY <2>2 DEF DriftInv, Duty, Purged
    <2>4. QED
      BY <1>1, <2>3, SameRowsFacts
  <1>6. SeenFlag(c)' /\ SeenValue(c)' /\ SeenBundle(c)'
    BY DEF SeenFlag, SeenValue, SeenBundle, At
  <1>7. \A b, k : ~ToPublish(c, b, k)
    BY DEF ToPublish
  <1>8. QED
    BY <1>1, <1>3, <1>4, <1>5, <1>6, <1>7, QuietDrift

LEMMA TakenFacts ==
  ASSUME CatInv, NEW c \in Request, Taken(c)
  PROVE  /\ ~Putting(c) /\ calls[c].pc # "purge" /\ calls'[c].pc = "idle"
         /\ kv' = kv /\ late' = late
  <1>1. calls \in [Caller -> Call] /\ c \in Caller
    BY CatFacts DEF CatInv, Inv, TypeOK
  <1>2. calls'[c] = [NoCall EXCEPT !.pc = "idle"]
    BY <1>1 DEF Taken, Return
  <1>3. QED
    BY <1>2 DEF Taken, Putting, Answer, NoCall

LEMMA EndsDrift ==
  ASSUME CatInv, DriftInv, NEW c \in Request, Alone(c), PurgeDone(c) \/ PurgesDone(c) \/ PublishDone(c)
  PROVE  DriftInv'
  <1>1. Tables(db') /\ SameRows /\ UNCHANGED db
    BY CatFacts DEF PurgeDone, PurgesDone, PublishDone, catVars, SameRows
  <1>2. CASE PurgeDone(c)
    BY <1>1, <1>2, TakenFacts, TakenDrift DEF PurgeDone, catVars
  <1>3. CASE PurgesDone(c)
    <2>1. /\ reqs[c].pc = "purging" /\ calls[c].pc = "idle" /\ reqs[c].purge = {}
          /\ Finish(c) /\ kv' = kv /\ late' = late /\ calls' = calls
      BY <1>3 DEF PurgesDone, pubVars
    <2>2. \A b, k : ~ToPublish(c, b, k) /\ ~ToPurge(c, b, k)
      BY <2>1 DEF ToPublish, ToPurge, Putting, At
    <2>3. ~Putting(c)' /\ calls'[c].pc # "purge"
      BY <2>1 DEF Putting
    <2>4. QED
      BY <1>1, <2>1, <2>2, <2>3, EndDrift
  <1>4. CASE PublishDone(c)
    <2>1. /\ reqs[c].pc = "publishing" /\ ~Putting(c) /\ calls[c].pc # "purge"
          /\ calls'[c].pc = "idle" /\ kv' = kv /\ late' = late
      BY <1>4, TakenFacts DEF PublishDone
    <2>2. CASE reqs[c].purge = {}
      <3>1. Finish(c)
        BY <1>4, <2>2 DEF PublishDone
      <3>2. \A b, k : ~ToPublish(c, b, k) /\ ~ToPurge(c, b, k)
        BY <2>1, <2>2 DEF ToPublish, ToPurge, At
      <3>3. ~Putting(c)'
        BY <2>1 DEF Putting
      <3>4. QED
        BY <1>1, <2>1, <3>1, <3>2, <3>3, EndDrift
    <2>3. CASE reqs[c].purge # {}
      <3>1. Goto(c, "purging")
        BY <1>4, <2>3 DEF PublishDone
      <3>2. QED
        BY <1>1, <2>1, <3>1, GotoRecord, TakenDrift
    <2>4. QED
      BY <2>2, <2>3
  <1>5. QED
    BY <1>2, <1>3, <1>4

-----------------------------------------------------------------------------
(* The exchanges with the buckets.                                         *)

LEMMA CallDrift ==
  ASSUME CatInv, DriftInv, NEW c \in Request, Alone(c), UNCHANGED <<db, reqs>>,
         Stage(c)', Put(c)', Wire(c)',
         calls'[c].pc = "purge" =>
            calls[c].pc = "purge" /\ calls'[c].bucket = calls[c].bucket /\ calls'[c].key = calls[c].key,
         \A b \in Bucket, k \in Key : Clean(b, k)' =>
            \/ Settled(b, k)'
            \/ /\ kv'[b].entry[k] = kv[b].entry[k]
               /\ Putting(c) /\ CallOn(c, b, k) => Putting(c)' /\ CallOn(c, b, k)'
               /\ calls[c].pc = "purge" /\ CallOn(c, b, k) => calls'[c].pc = "purge" /\ CallOn(c, b, k)'
  PROVE  DriftInv'
  <1>1. Tables(db) /\ Tables(db') /\ SameRows /\ Watch
    BY CatFacts DEF SameRows, Alone
  <1>2. /\ Serves(c)' = Serves(c) /\ ReadBack(c)' = ReadBack(c)
    BY DEF Serves, ReadBack, CreatedValue, UpdatedValue, WrittenBundle, ValuesOf, Rows
  <1>3. \A b, k : ToPurge(c, b, k)' => ToPurge(c, b, k)
    BY <1>2 DEF ToPurge, CallOn, At
  <1>4. Purged(c)'
    <2>1. SUFFICES ASSUME NEW b \in Bucket, NEW k \in Key, Clean(b, k)', ToPurge(c, b, k)'
                   PROVE  Unbacked(b, k)'
      BY DEF Purged
    <2>2. ToPurge(c, b, k) /\ Clean(b, k)
      BY <1>1, <1>3, <2>1, Watched
    <2>3. Unbacked(b, k)
      BY <2>2 DEF DriftInv, Duty, Purged
    <2>4. QED
      BY <1>1, <2>3, SameRowsFacts
  <1>5. SeenFlag(c)' /\ SeenValue(c)' /\ SeenBundle(c)'
    BY <1>1, OtherSeenFlag, OtherSeenValue, OtherSeenBundle DEF DriftInv, Duty
  <1>6. ASSUME NEW b \in Bucket, NEW k \in Key, Clean(b, k)' PROVE Settled(b, k)'
    <2>1. SUFFICES ASSUME
             /\ kv'[b].entry[k] = kv[b].entry[k]
             /\ Putting(c) /\ CallOn(c, b, k) => Putting(c)' /\ CallOn(c, b, k)'
             /\ calls[c].pc = "purge" /\ CallOn(c, b, k) => calls'[c].pc = "purge" /\ CallOn(c, b, k)'
                   PROVE Settled(b, k)'
      BY <1>6
    <2>2. \A id : Backs(b, id, k)' <=> Backs(b, id, k)
      BY <1>1, SameRowsFacts
    <2>3. ToPublish(c, b, k) => ToPublish(c, b, k)'
      BY <1>2, <2>1, <2>2 DEF ToPublish
    <2>4. ToPurge(c, b, k) => ToPurge(c, b, k)'
      BY <1>2, <2>1 DEF ToPurge, At
    <2>5. /\ ToPublish(c, b, k) => Settled(b, k)'
          /\ Unbacked(b, k) /\ ToPurge(c, b, k) => Settled(b, k)'
      BY <1>1, <2>3, <2>4, SameRowsFacts DEF Settled
    <2>6. k \notin ChangedKeys(b)
      BY <1>1, SameRowsFacts
    <2>7. QED
      BY <1>1, <1>6, <2>1, <2>5, <2>6, SettledStays
  <1>7. Settles' /\ Documented' /\ Unnumbered'
    BY <1>1, <1>6, SameRowsKeep DEF Settles
  <1>8. QED
    BY <1>1, <1>4, <1>5, <1>7, DriftKept DEF Duty

(* The bucket after a write and after a purge.                             *)
LEMMA PutFacts ==
  ASSUME NEW s \in BucketState, NEW k0 \in Key, NEW p, NEW stamp
  PROVE  /\ KvPut(s, k0, p, stamp).entry[k0].payload = p
         /\ \A k \in Key : k # k0 => KvPut(s, k0, p, stamp).entry[k] = s.entry[k]
  BY DEF BucketState, KvPut

LEMMA PurgeFacts ==
  ASSUME NEW s \in BucketState, NEW k0 \in Key
  PROVE  /\ ~Live(KvPurge(s, k0), k0)
         /\ \A k \in Key : k # k0 => KvPurge(s, k0).entry[k] = s.entry[k]
  BY DEF BucketState, KvPurge, Live, Absent

(* Facts of a call under way.                                              *)
LEMMA CallOf ==
  ASSUME CatInv, DriftInv, NEW c \in Request
  PROVE  /\ kv \in [Bucket -> BucketState] /\ c \in Caller /\ calls \in [Caller -> Call] /\ late \in [Caller -> Message]
         /\ calls[c] \in Call /\ late[c] \in Message
         /\ calls[c].bucket \in Bucket /\ calls[c].key \in Key
         /\ late[c].bucket \in Bucket /\ late[c].key \in Key
         /\ Stage(c) /\ Put(c) /\ Purged(c) /\ Wire(c)
  <1>1. /\ kv \in [Bucket -> BucketState] /\ c \in Caller /\ calls \in [Caller -> Call] /\ late \in [Caller -> Message]
    BY CatFacts DEF CatInv, Inv, TypeOK
  <1>2. calls[c] \in Call /\ late[c] \in Message
    BY <1>1
  <1>3. QED
    BY <1>1, <1>2 DEF Call, Message, DriftInv, Duty

(* A call that has returned: its key has been seen to.                     *)
LEMMA ReturnDrift ==
  ASSUME CatInv, DriftInv, NEW c \in Request, Alone(c), UNCHANGED <<db, reqs>>,
         NEW answer \in Answer, Return(c, answer), Wire(c)',
         calls[c].pc \in Active,
         \A b \in Bucket, k \in Key : Clean(b, k)' =>
            IF CallOn(c, b, k) THEN Settled(b, k)' ELSE kv'[b].entry[k] = kv[b].entry[k]
  PROVE  DriftInv'
  <1>1. calls'[c] = [NoCall EXCEPT !.pc = answer]
    BY CallOf DEF Return
  <1>2. ~Putting(c)' /\ calls'[c].pc # "purge"
    BY <1>1 DEF Putting, Answer, NoCall
  <1>3. Stage(c)' /\ Put(c)'
    BY <1>2, CallOf DEF Stage, Put
  <1>4. QED
    BY <1>2, <1>3, CallDrift

(* A write under way goes on, with the document it had.                    *)
LEMMA GoesOnDrift ==
  ASSUME CatInv, DriftInv, NEW c \in Request, Alone(c), UNCHANGED <<db, reqs, kv, late>>,
         Putting(c), Putting(c)', calls'[c].bucket = calls[c].bucket, calls'[c].key = calls[c].key,
         calls'[c].payload = calls[c].payload
  PROVE  DriftInv'
  <1>1. \A b, k : CallOn(c, b, k)' <=> CallOn(c, b, k)
    BY DEF CallOn
  <1>2. SameRows
    BY DEF SameRows
  <1>3. calls[c].pc # "purge" /\ calls'[c].pc # "purge" /\ Serves(c)' = Serves(c)
    BY DEF Putting, Serves
  <1>4. Stage(c)'
    BY <1>3, CallOf DEF Stage, CallOn
  <1>5. Put(c)'
    <2>1. SUFFICES ASSUME NEW b \in Bucket, NEW k \in Key, Clean(b, k)', CallOn(c, b, k)'
                   PROVE  (\E id \in RowId : Backs(b, id, k) /\ Table(db, b)[id].doc = calls[c].payload)'
      BY DEF Put
    <2>2. PICK id \in RowId : Backs(b, id, k) /\ Table(db, b)[id].doc = calls[c].payload
      BY <1>1, <2>1, CallOf, Watched DEF Put, Alone
    <2>3. Backs(b, id, k)' /\ Table(db', b)[id].doc = calls'[c].payload
      BY <1>2, <2>2, SameRowsFacts
    <2>4. QED
      BY <2>3
  <1>6. Wire(c)'
    BY CallOf, Watched DEF Wire, Alone
  <1>7. \A b \in Bucket, k \in Key :
           /\ kv'[b].entry[k] = kv[b].entry[k]
           /\ Putting(c) /\ CallOn(c, b, k) => Putting(c)' /\ CallOn(c, b, k)'
           /\ calls[c].pc = "purge" /\ CallOn(c, b, k) => calls'[c].pc = "purge" /\ CallOn(c, b, k)'
    BY <1>1, <1>3
  <1>8. QED
    BY <1>3, <1>4, <1>5, <1>6, <1>7, CallDrift

(* The key holds what the call was to write.                               *)
LEMMA ShownNow ==
  ASSUME CatInv, DriftInv, NEW c \in Request, Watch, UNCHANGED db, Putting(c),
         NEW b \in Bucket, NEW k \in Key, Clean(b, k)', CallOn(c, b, k),
         kv'[b].entry[k].payload = calls[c].payload
  PROVE  Settled(b, k)'
  <1>1. PICK id \in RowId : Backs(b, id, k) /\ Table(db, b)[id].doc = calls[c].payload
    BY CallOf, Watched DEF Put
  <1>2. Backs(b, id, k)' /\ Table(db', b)[id].doc = calls[c].payload
    BY <1>1, SameRowsFacts DEF SameRows
  <1>3. Shown(b, k)'
    BY <1>2 DEF Shown
  <1>4. QED
    BY <1>3 DEF Settled

(* A call that answers an error leaves its key noted as failed.            *)
LEMMA FailedDrift ==
  ASSUME CatInv, DriftInv, NEW c \in Request, Alone(c), UNCHANGED <<db, reqs, kv>>,
         NEW answer \in {"failed", "conflict"}, Return(c, answer), calls[c].pc \in Active,
         late'[c] = late[c] \/ (late'[c].bucket = calls[c].bucket /\ late'[c].key = calls[c].key)
  PROVE  DriftInv'
  <1>1. calls'[c].pc = answer
    BY CallOf DEF Return, NoCall
  <1>2. <<calls[c].bucket, calls[c].key>> \in faulted' /\ faulted \subseteq faulted'
    BY <1>1, Watched DEF Failed, Alone
  <1>3. Wire(c)'
    BY <1>2, CallOf DEF Wire
  <1>4. \A b, k : CallOn(c, b, k) => ~Clean(b, k)'
    BY <1>2 DEF CallOn, Clean
  <1>5. answer \in Answer
    BY DEF Answer
  <1>6. QED
    BY <1>3, <1>4, <1>5, ReturnDrift

LEMMA CurrentDrift ==
  ASSUME CatInv, DriftInv, NEW c \in Request, Alone(c), UNCHANGED <<db, reqs>>, Current(c)
  PROVE  DriftInv'
  <1> DEFINE m == calls[c]
             cur == kv[m.bucket].entry[m.key]
  <1>1. Putting(c) /\ m.pc = "get" /\ kv' = kv /\ late' = late /\ m.pc \in Active
    BY DEF Current, Putting, Active
  <1>2. CASE Return(c, "skipped") /\ cur.payload = m.payload
    <2>1. Wire(c)'
      BY <1>1, CallOf, Watched DEF Wire, Alone
    <2>2. ASSUME NEW b \in Bucket, NEW k \in Key, Clean(b, k)', CallOn(c, b, k) PROVE Settled(b, k)'
      BY <1>1, <1>2, <2>2, ShownNow DEF CallOn, Alone
    <2>3. "skipped" \in Answer
      BY DEF Answer
    <2>4. QED
      BY <1>1, <1>2, <2>1, <2>2, <2>3, ReturnDrift
  <1>3. CASE \E r, s : calls' = [calls EXCEPT ![c].pc = "write", ![c].revision = r, ![c].stamp = s]
    <2>1. PICK r, s : calls' = [calls EXCEPT ![c].pc = "write", ![c].revision = r, ![c].stamp = s]
      BY <1>3
    <2> DEFINE t == [calls[c] EXCEPT !.pc = "write", !.revision = r, !.stamp = s]
    <2>2. /\ t.pc = "write" /\ t.bucket = calls[c].bucket /\ t.key = calls[c].key
          /\ t.payload = calls[c].payload
      BY CallOf DEF Call
    <2>3. calls' = [calls EXCEPT ![c] = t]
      BY <2>1
    <2> HIDE DEF t
    <2>4. calls'[c] = t
      BY <2>3, CallOf
    <2>5. Putting(c)'
      BY <2>2, <2>4 DEF Putting
    <2>6. QED
      BY <1>1, <2>2, <2>4, <2>5, GoesOnDrift
  <1>4. QED
    <2>1. \A p, e : Build(calls[c].bucket, p, e).compare.payload = p
      BY DEF Build, BuildFlag, raw
    <2> DEFINE v == Build(m.bucket, m.payload, cur)
    <2>2. IF /\ cur.revision # 0
             /\ [payload |-> cur.payload, stamp |-> cur.stamp] = v.compare
            THEN Return(c, "skipped")
            ELSE calls' = [calls EXCEPT ![c].pc = "write", ![c].revision = cur.revision,
                                        ![c].stamp = v.write.stamp]
      BY DEF Current
    <2>3. v.compare.payload = m.payload
      BY <2>1
    <2> HIDE DEF v, cur, m
    <2>4. [payload |-> cur.payload, stamp |-> cur.stamp] = v.compare => cur.payload = m.payload
      BY <2>3
    <2>5. QED
      BY <1>2, <1>3, <2>2, <2>4

LEMMA WriteDrift ==
  ASSUME CatInv, DriftInv, NEW c \in Request, Alone(c), UNCHANGED <<db, reqs>>, Write(c)
  PROVE  DriftInv'
  <1>1. /\ Putting(c) /\ calls[c].pc \in Active /\ Return(c, "ok") /\ late' = late
        /\ kv' = [kv EXCEPT ![calls[c].bucket] =
                    KvPut(@, calls[c].key, calls[c].payload, calls[c].stamp)]
    BY DEF Write, Putting, Active
  <1>2. /\ kv'[calls[c].bucket].entry[calls[c].key].payload = calls[c].payload
        /\ \A b \in Bucket, k \in Key : ~CallOn(c, b, k) => kv'[b].entry[k] = kv[b].entry[k]
    <2>1. /\ kv'[calls[c].bucket] =
               KvPut(kv[calls[c].bucket], calls[c].key, calls[c].payload, calls[c].stamp)
          /\ \A b \in Bucket : b # calls[c].bucket => kv'[b] = kv[b]
      BY <1>1, CallOf
    <2>2. QED
      BY <2>1, CallOf, PutFacts DEF CallOn
  <1>3. Wire(c)'
    BY <1>1, CallOf, Watched DEF Wire, Alone
  <1>4. ASSUME NEW b \in Bucket, NEW k \in Key, Clean(b, k)', CallOn(c, b, k) PROVE Settled(b, k)'
    BY <1>1, <1>2, <1>4, ShownNow DEF CallOn, Alone
  <1>5. "ok" \in Answer
    BY DEF Answer
  <1>6. QED
    BY <1>1, <1>2, <1>3, <1>4, <1>5, ReturnDrift

LEMMA WriteConflictDrift ==
  ASSUME CatInv, DriftInv, NEW c \in Request, Alone(c), UNCHANGED <<db, reqs>>, WriteConflict(c)
  PROVE  DriftInv'
  <1>1. Putting(c) /\ calls[c].pc \in Active /\ kv' = kv /\ late' = late
    BY DEF WriteConflict, Putting, Active
  <1>2. CASE Return(c, "conflict")
    BY <1>1, <1>2, FailedDrift
  <1>3. CASE \E a : calls' = [calls EXCEPT ![c].pc = "get", ![c].attempt = a]
    <2>1. PICK a : calls' = [calls EXCEPT ![c].pc = "get", ![c].attempt = a]
      BY <1>3
    <2> DEFINE t == [calls[c] EXCEPT !.pc = "get", !.attempt = a]
    <2>2. /\ t.pc = "get" /\ t.bucket = calls[c].bucket /\ t.key = calls[c].key
          /\ t.payload = calls[c].payload
      BY CallOf DEF Call
    <2>3. calls' = [calls EXCEPT ![c] = t]
      BY <2>1
    <2> HIDE DEF t
    <2>4. calls'[c] = t
      BY <2>3, CallOf
    <2>5. Putting(c)'
      BY <2>2, <2>4 DEF Putting
    <2>6. QED
      BY <1>1, <2>2, <2>4, <2>5, GoesOnDrift
  <1>4. QED
    BY <1>2, <1>3 DEF WriteConflict

LEMMA PurgeDrift ==
  ASSUME CatInv, DriftInv, NEW c \in Request, Alone(c), UNCHANGED <<db, reqs>>, Purge(c)
  PROVE  DriftInv'
  <1>1. /\ calls[c].pc = "purge" /\ calls[c].pc \in Active /\ Return(c, "ok") /\ late' = late
        /\ kv' = [kv EXCEPT ![calls[c].bucket] = KvPurge(@, calls[c].key)]
    BY DEF Purge, Active
  <1>2. /\ ~Live(kv'[calls[c].bucket], calls[c].key)
        /\ \A b \in Bucket, k \in Key : ~CallOn(c, b, k) => kv'[b].entry[k] = kv[b].entry[k]
    <2>1. /\ kv'[calls[c].bucket] = KvPurge(kv[calls[c].bucket], calls[c].key)
          /\ \A b \in Bucket : b # calls[c].bucket => kv'[b] = kv[b]
      BY <1>1, CallOf
    <2>2. QED
      BY <2>1, CallOf, PurgeFacts DEF CallOn
  <1>3. Wire(c)'
    BY <1>1, CallOf, Watched DEF Wire, Alone
  <1>4. ASSUME NEW b \in Bucket, NEW k \in Key, Clean(b, k)', CallOn(c, b, k) PROVE Settled(b, k)'
    <2>1. Unbacked(b, k)
      BY <1>1, <1>4, CallOf, Watched DEF Purged, ToPurge, Alone
    <2>2. Unbacked(b, k)'
      BY <2>1, SameRowsFacts DEF SameRows
    <2>3. ~Live(kv'[b], k)
      BY <1>2, <1>4 DEF CallOn
    <2>4. QED
      BY <2>2, <2>3 DEF Settled, Gone
  <1>5. "ok" \in Answer
    BY DEF Answer
  <1>6. QED
    BY <1>1, <1>2, <1>3, <1>4, <1>5, ReturnDrift

LEMMA DistributeDrift ==
  ASSUME CatInv, DriftInv, NEW c \in Request, Alone(c), Distribute(c)
  PROVE  DriftInv'
  <1>1. UNCHANGED <<db, reqs>>
    BY DEF Distribute, catVars
  <1>2. CASE ExchangeFails(c)
    BY <1>1, <1>2, FailedDrift DEF ExchangeFails
  <1>3. CASE ExchangeTimesOut(c)
    <2>1. late'[c].bucket = calls[c].bucket /\ late'[c].key = calls[c].key
      BY <1>3, CallOf DEF ExchangeTimesOut
    <2>2. calls[c].pc \in Active /\ Return(c, "failed") /\ kv' = kv
      BY <1>3 DEF ExchangeTimesOut, Active
    <2>3. QED
      BY <1>1, <2>1, <2>2, FailedDrift
  <1>4. QED
    BY <1>1, <1>2, <1>3, CurrentDrift, WriteDrift, WriteConflictDrift, PurgeDrift DEF Distribute

(* A message that outlived its call.                                       *)
LEMMA NetworkDrift ==
  ASSUME CatInv, DriftInv, NEW c \in Request, Alone(c), Network(c), UNCHANGED catVars
  PROVE  DriftInv'
  <1>1. UNCHANGED <<db, reqs>> /\ calls' = calls /\ late[c].kind # "none"
    BY DEF Network, LatePut, LatePurge, LateLost, catVars
  <1>2. late'[c] = NoMessage
    BY CallOf DEF Network, LatePut, LatePurge, LateLost
  <1>3. Wire(c)'
    BY <1>2 DEF Wire, NoMessage
  <1>4. SameRows /\ Serves(c)' = Serves(c) /\ \A b, k : CallOn(c, b, k)' <=> CallOn(c, b, k)
    BY <1>1 DEF SameRows, Serves, CallOn
  <1>5. Putting(c)' <=> Putting(c)
    BY <1>1 DEF Putting
  <1>6. Stage(c)'
    BY <1>1, <1>4, <1>5, CallOf DEF Stage, CallOn
  <1>7. Put(c)'
    <2>1. SUFFICES ASSUME NEW b \in Bucket, NEW k \in Key, Clean(b, k)', Putting(c)', CallOn(c, b, k)'
                   PROVE  (\E id \in RowId : Backs(b, id, k) /\ Table(db, b)[id].doc = calls[c].payload)'
      BY DEF Put
    <2>2. PICK id \in RowId : Backs(b, id, k) /\ Table(db, b)[id].doc = calls[c].payload
      BY <1>4, <1>5, <2>1, CallOf, Watched DEF Put, Alone
    <2>3. Backs(b, id, k)' /\ Table(db', b)[id].doc = calls'[c].payload
      BY <1>1, <1>4, <2>2, SameRowsFacts
    <2>4. QED
      BY <2>3
  <1>8. \A b, k : b = late[c].bucket /\ k = late[c].key => ~Clean(b, k)'
    BY <1>1, CallOf, Watched DEF Wire, Clean, Alone
  <1>9. ASSUME NEW b \in Bucket, NEW k \in Key, b # late[c].bucket \/ k # late[c].key
        PROVE  kv'[b].entry[k] = kv[b].entry[k]
    <2> DEFINE m == late[c]
    <2>1. /\ \A d \in Bucket : d # m.bucket => kv'[d] = kv[d]
          /\ \/ kv' = kv
             \/ kv'[m.bucket] = KvPut(kv[m.bucket], m.key, m.payload, m.stamp)
             \/ kv'[m.bucket] = KvPurge(kv[m.bucket], m.key)
      BY CallOf DEF Network, LatePut, LatePurge, LateLost
    <2>2. m.bucket \in Bucket /\ kv[m.bucket] \in BucketState /\ m.key \in Key
      BY CallOf
    <2> HIDE DEF m
    <2>3. b # m.bucket \/ k # m.key
      BY <1>9 DEF m
    <2>4. QED
      BY <2>1, <2>2, <2>3, PutFacts, PurgeFacts
  <1>10. QED
    BY <1>1, <1>3, <1>4, <1>5, <1>6, <1>7, <1>8, <1>9, CallDrift

-----------------------------------------------------------------------------
(* Every step, and the start.                                              *)

LEMMA RequestDrift ==
  ASSUME CatInv, DriftInv, NEW c \in Request, Alone(c), Arrival(c) \/ RequestStep(c)
  PROVE  DriftInv'
  <1>1. CASE FlagStep(c)
    BY <1>1, ChecksDrift, ScanDeletedValuesDrift, ReadDeletedValueDrift, FlagsCommittedDrift,
       RefusedDrift, PublishValueDrift, PurgeNextDrift DEF FlagStep
  <1>2. CASE BundleStep(c)
    BY <1>2, ChecksDrift, PreviousBundleDrift, BundlesCommittedDrift, RefusedDrift,
       PublishBundleDrift, PurgeNextDrift DEF BundleStep
  <1>3. QED
    BY <1>1, <1>2, ArrivalDrift, ReferenceDrift, EndsDrift, FailureDrift, DistributeDrift
       DEF RequestStep

LEMMA StutterDrift ==
  ASSUME DriftInv, UNCHANGED catalogVars
  PROVE  DriftInv'
  <1>1. /\ kv' = kv /\ provisioned' = provisioned /\ calls' = calls /\ late' = late
        /\ db' = db /\ reqs' = reqs /\ faulted' = faulted /\ contested' = contested
    BY DEF catalogVars, pubVars, catVars
  <1>2. \A b, id, k : Backs(b, id, k)' <=> Backs(b, id, k)
    BY <1>1 DEF Backs
  <1>3. \A b, k : /\ Clean(b, k)' <=> Clean(b, k)
                  /\ Unbacked(b, k)' <=> Unbacked(b, k)
                  /\ Shown(b, k)' <=> Shown(b, k)
                  /\ Gone(b, k)' <=> Gone(b, k)
    BY <1>1, <1>2 DEF Clean, Unbacked, Shown, Gone
  <1>4. \A c, b, k : /\ ToPublish(c, b, k)' <=> ToPublish(c, b, k)
                     /\ ToPurge(c, b, k)' <=> ToPurge(c, b, k)
    BY <1>1, <1>2 DEF ToPublish, ToPurge, Putting, CallOn, Serves, At, ReadBack, CreatedValue,
       UpdatedValue, WrittenBundle, ValuesOf, Rows
  <1>5. Settles'
    BY <1>3, <1>4 DEF DriftInv, Settles, Settled
  <1>6. ASSUME NEW c \in Request PROVE Duty(c)'
    <2>1. Stage(c)' /\ Wire(c)'
      BY <1>1 DEF DriftInv, Duty, Stage, Wire, Putting, CallOn, Serves
    <2>2. Put(c)'
      BY <1>1, <1>2, <1>3 DEF DriftInv, Duty, Put, Putting, CallOn
    <2>3. Purged(c)'
      BY <1>3, <1>4 DEF DriftInv, Duty, Purged
    <2>4. SeenFlag(c)' /\ SeenValue(c)' /\ SeenBundle(c)'
      BY <1>1 DEF DriftInv, Duty, SeenFlag, SeenValue, SeenBundle, StillNoted, At, Clean, ValuesOf, Rows
    <2>5. QED
      BY <2>1, <2>2, <2>3, <2>4 DEF Duty
  <1>7. Documented' /\ Unnumbered'
    BY <1>1 DEF DriftInv, Documented, Unnumbered, Rows
  <1>8. QED
    BY <1>1, <1>5, <1>6, <1>7 DEF DriftInv

LEMMA DriftNext == CatInv /\ DriftInv /\ [CatalogNext]_catalogVars => DriftInv'
  <1> SUFFICES ASSUME CatInv, DriftInv, [CatalogNext]_catalogVars PROVE DriftInv'
    OBVIOUS
  <1>1. CASE UNCHANGED catalogVars
    BY <1>1, StutterDrift
  <1>2. CASE CatalogNext
    <2>1. Watch /\ CatalogStep
      BY <1>2 DEF CatalogNext
    <2>2. ASSUME NEW c \in Request, Arrival(c) \/ RequestStep(c) PROVE DriftInv'
      BY <2>1, <2>2, StepAlone, RequestDrift
    <2>3. ASSUME NEW c \in Request, Network(c), UNCHANGED catVars PROVE DriftInv'
      BY <2>1, <2>3, StepAlone, NetworkDrift
    <2>4. QED
      BY <2>1, <2>2, <2>3 DEF CatalogStep
  <1>3. QED
    BY <1>1, <1>2

LEMMA FirstDocFull == firstDoc # EmptyDoc
  BY SeedAssumption, EmptyDocAssumption DEF firstDoc

(* A table and its bucket at the start.                                    *)
LEMMA SeedShown ==
  ASSUME NEW S \in SUBSET Key, NEW first \in Nat \ {0}, NEW flag, NEW stamp,
         first + Cardinality(S) - 1 <= Cardinality(RowId)
  PROVE  LET T == Seed(SetToSeq(S), first, flag)
             s == SeedBucket(SetToSeq(S), firstDoc, stamp)
         IN  /\ \A k \in Key :
                  \/ \E id \in Rows(T) : T[id].key = k /\ s.entry[k].payload = T[id].doc
                  \/ (\A id \in Rows(T) : T[id].key # k) /\ ~Live(s, k)
             /\ \A id \in Rows(T) : T[id].doc = firstDoc
             /\ \A id \in RowId : id >= first + Cardinality(S) => T[id] = NoRow
  <1> DEFINE q == SetToSeq(S)
             n == Cardinality(S)
             T == Seed(q, first, flag)
             s == SeedBucket(q, firstDoc, stamp)
             at(id) == [key |-> q[id - first + 1], flag |-> flag, doc |-> firstDoc]
  <1> HIDE DEF q, n
  <1>1. n \in Nat /\ q \in [1..n -> S] /\ Len(q) = n /\ DOMAIN q = 1..n
    BY InSequence DEF q, n
  <1>2. T = [id \in RowId |-> IF id \in first..(first + n - 1) THEN at(id) ELSE NoRow]
    BY <1>1 DEF Seed, firstDoc
  <1>3. \A id \in RowId : id \in Nat
    BY CatalogIdAssumption
  <1>4. \A id \in RowId : id \in first..(first + n - 1) => id - first + 1 \in 1..n
    BY <1>1, <1>3
  <1>5. \A id \in RowId : at(id).key = q[id - first + 1] /\ at(id).doc = firstDoc
    OBVIOUS
  <1>6. \A k \in Key : s.entry[k].payload = (IF k \in Range(q) THEN firstDoc ELSE NoPayload)
                       /\ (k \notin Range(q) => s.entry[k].revision = 0)
    BY DEF SeedBucket, Absent
  <1>7. \A k : k \in Range(q) <=> \E i \in 1..n : q[i] = k
    BY <1>1 DEF Range
  <1>8. RowId = 1..Cardinality(RowId) /\ Cardinality(RowId) \in Nat
    BY SeedAssumption, FS_CardinalityType
  <1>9. \A id \in RowId : id >= first + n => T[id] = NoRow
    BY <1>1, <1>2, <1>3
  <1>10. \A id \in Rows(T) : id \in RowId /\ id \in first..(first + n - 1) /\ T[id] = at(id)
    BY <1>2 DEF Rows
  <1>11. ASSUME NEW i \in 1..n PROVE (first + i - 1) \in Rows(T) /\ T[first + i - 1] = at(first + i - 1)
                                     /\ at(first + i - 1).key = q[i]
    <2>1. first + i - 1 \in RowId /\ first + i - 1 \in first..(first + n - 1)
      BY <1>1, <1>8 DEF n
    <2>2. T[first + i - 1] = at(first + i - 1)
      BY <1>2, <2>1
    <2>3. at(first + i - 1).key = q[i]
      <3>1. (first + i - 1) - first + 1 = i
        BY <1>1
      <3>2. QED
        BY <3>1
    <2>4. q[i] # NoKey
      BY <1>1, CatalogKeyAssumption
    <2>5. at(first + i - 1) # NoRow
      BY <2>3, <2>4 DEF NoRow
    <2>6. QED
      BY <2>1, <2>2, <2>3, <2>5 DEF Rows
  <1>12. \A id : at(id).doc = firstDoc
    OBVIOUS
  <1> HIDE DEF T, s, at
  <1>13. ASSUME NEW k \in Key
         PROVE  \/ \E id \in Rows(T) : T[id].key = k /\ s.entry[k].payload = T[id].doc
                \/ (\A id \in Rows(T) : T[id].key # k) /\ ~Live(s, k)
    <2>1. CASE k \in Range(q)
      <3>1. PICK i \in 1..n : q[i] = k
        BY <1>7, <2>1
      <3>2. QED
        BY <1>6, <1>11, <1>12, <2>1, <3>1
    <2>2. CASE k \notin Range(q)
      BY <1>4, <1>5, <1>6, <1>7, <1>10, <2>2 DEF Live
    <2>3. QED
      BY <2>1, <2>2
  <1>14. \A id \in Rows(T) : T[id].doc = firstDoc
    BY <1>10, <1>12
  <1>15. QED
    BY <1>9, <1>13, <1>14 DEF T, s, q, n

LEMMA DriftInit == CatalogInit => DriftInv
  <1> SUFFICES ASSUME CatalogInit PROVE DriftInv
    OBVIOUS
  <1>1. PICK vs \in SUBSET Key, bs \in SUBSET Key :
          /\ Cardinality(vs) + Cardinality(bs) + MaxRequests <= Cardinality(RowId)
          /\ db \in {SeedDatabase(SetToSeq(vs), SetToSeq(bs), refs) :
                        refs \in {Ref, vs \cup bs \cup {Service}}}
          /\ kv = [b \in Bucket |-> IF b = BucketFlags THEN SeedBucket(SetToSeq(vs), firstDoc, 1)
                                                     ELSE SeedBucket(SetToSeq(bs), firstDoc, 0)]
    BY DEF CatalogInit, firstDoc
  <1> DEFINE nv == Cardinality(vs)
             nb == Cardinality(bs)
             V == Seed(SetToSeq(vs), 1, 1)
             B == Seed(SetToSeq(bs), nv + 1, 0)
             fs == SeedBucket(SetToSeq(vs), firstDoc, 1)
             ls == SeedBucket(SetToSeq(bs), firstDoc, 0)
  <1>2. /\ nv \in Nat /\ nb \in Nat /\ Len(SetToSeq(vs)) = nv /\ Len(SetToSeq(bs)) = nb
        /\ Cardinality(RowId) \in Nat /\ MaxRequests \in Nat
    BY InSequence, SeedAssumption, FS_CardinalityType, CatalogBoundAssumption
  <1>3. db.values = V /\ db.bundles = B /\ db.rowSeq = nv + nb + 1
    BY <1>1, <1>2 DEF SeedDatabase
  <1>4. 1 + nv - 1 <= Cardinality(RowId) /\ (nv + 1) + nb - 1 <= Cardinality(RowId)
    BY <1>1, <1>2
  <1>5. /\ \A k \in Key :
             \/ \E id \in Rows(V) : V[id].key = k /\ fs.entry[k].payload = V[id].doc
             \/ (\A id \in Rows(V) : V[id].key # k) /\ ~Live(fs, k)
        /\ \A id \in RowId : id >= 1 + nv => V[id] = NoRow
    BY <1>2, <1>4, SeedShown
  <1>6. /\ \A k \in Key :
             \/ \E id \in Rows(B) : B[id].key = k /\ ls.entry[k].payload = B[id].doc
             \/ (\A id \in Rows(B) : B[id].key # k) /\ ~Live(ls, k)
        /\ \A id \in Rows(B) : B[id].doc = firstDoc
        /\ \A id \in RowId : id >= nv + 1 + nb => B[id] = NoRow
    <2>1. PICK first \in Nat \ {0} : first = nv + 1
      BY <1>2
    <2> DEFINE T == Seed(SetToSeq(bs), first, 0)
    <2>2. B = T
      BY <2>1
    <2>3. first + nb - 1 <= Cardinality(RowId)
      BY <1>4, <2>1
    <2> HIDE DEF B, nv
    <2>4. /\ \A k \in Key :
               \/ \E id \in Rows(T) : T[id].key = k /\ ls.entry[k].payload = T[id].doc
               \/ (\A id \in Rows(T) : T[id].key # k) /\ ~Live(ls, k)
          /\ \A id \in Rows(T) : T[id].doc = firstDoc
          /\ \A id \in RowId : id >= first + nb => T[id] = NoRow
      BY <2>3, SeedShown
    <2> HIDE DEF T, ls, nb
    <2>5. QED
      BY <1>2, <2>1, <2>2, <2>4
  <1>7. \A b \in Bucket : kv[b] = IF b = BucketFlags THEN fs ELSE ls
    BY <1>1
  <1> HIDE DEF V, B, fs, ls, nv, nb
  <1>8. Documented
    BY <1>3, <1>6, FirstDocFull DEF Documented
  <1>9. Unnumbered
    <2>1. \A id \in RowId : id \in Nat
      BY CatalogIdAssumption
    <2>2. QED
      BY <1>2, <1>3, <1>5, <1>6, <2>1 DEF Unnumbered
  <1>10. Settles
    <2>1. SUFFICES ASSUME NEW b \in Bucket, NEW k \in Key PROVE Shown(b, k) \/ Gone(b, k)
      BY DEF Settles, Settled
    <2>2. \A T : \A id \in Rows(T) : id \in RowId
      BY DEF Rows
    <2>3. CASE b = BucketFlags
      BY <1>3, <1>5, <1>7, <2>2, <2>3, Tabled DEF Shown, Gone, Unbacked, Backs
    <2>4. CASE b # BucketFlags
      BY <1>3, <1>6, <1>7, <2>2, <2>4, Tabled DEF Shown, Gone, Unbacked, Backs
    <2>5. QED
      BY <2>3, <2>4
  <1>11. ASSUME NEW c \in Request PROVE Duty(c)
    <2>1. calls[c] = NoCall /\ late[c] = NoMessage /\ reqs[c] = NoReq
      BY <1>11, CatalogRequestAssumption DEF CatalogInit
    <2>2. ~Putting(c) /\ calls[c].pc # "purge" /\ late[c].kind = "none" /\ reqs[c].pc = "idle"
          /\ reqs[c].op = "none"
      BY <2>1 DEF NoCall, NoMessage, NoReq, Putting
    <2>3. QED
      BY <2>2 DEF Duty, Stage, Put, Purged, ToPurge, Wire, SeenFlag, SeenValue, SeenBundle, At,
         ValueOp, BundleOp
  <1>12. provisioned = TRUE
    BY DEF CatalogInit
  <1>13. QED
    BY <1>8, <1>9, <1>10, <1>11, <1>12 DEF DriftInv

(* With every request before its commit or done, nothing is left to        *)
(* distribute, so a clean key shows its row or has neither row nor entry.  *)
LEMMA SettledIsMirrored == CatInv /\ DriftInv => CatalogDriftHasACause
  <1> SUFFICES ASSUME CatInv, DriftInv,
                      \A c \in Request : reqs[c].pc \notin {"readback", "publishing", "purging"},
                      NEW b \in Bucket, NEW k \in Key, Clean(b, k)
               PROVE  Mirrored(b, k)
    BY DEF CatalogDriftHasACause, Clean
  <1>1. \A c \in Request : ~ToPublish(c, b, k) /\ ~ToPurge(c, b, k)
    BY DEF DriftInv, Duty, Stage, ToPublish, ToPurge, At
  <1>2. Shown(b, k) \/ Gone(b, k)
    BY <1>1 DEF DriftInv, Settles, Settled
  <1> DEFINE T == Table(db, b)
             backing == {id \in Rows(T) : T[id].key = k}
  <1>3. \A id \in RowId : Backs(b, id, k) <=> id \in backing
    BY DEF Backs
  <1>4. backing \subseteq RowId
    BY DEF Rows
  <1>5. Tables(db)
    BY DEF CatInv, Served
  <1>6. \A id, other \in backing : id = other
    BY <1>5, TableOf
  <1>7. Mirrored(b, k) = IF backing = {} THEN ~Live(kv[b], k)
                         ELSE \A id \in backing : kv[b].entry[k].payload = T[id].doc
    BY DEF Mirrored
  <1> HIDE DEF backing
  <1>8. CASE Gone(b, k)
    BY <1>3, <1>4, <1>7, <1>8 DEF Gone, Unbacked
  <1>9. CASE Shown(b, k)
    BY <1>3, <1>6, <1>7, <1>9 DEF Shown
  <1>10. QED
    BY <1>2, <1>8, <1>9

(* Drift has a cause.  Whatever requests on flags, values, bundles and     *)
(* references overlap and whatever fails half-way, once no request is past *)
(* its commit the buckets say what the tables say on every key but those   *)
(* of a failed step or of two requests that overlapped.                    *)
THEOREM CatalogDriftCaused == CatalogSpec => []CatalogDriftHasACause
  <1>1. CatalogInit => CatInv /\ DriftInv
    BY CatInit, DriftInit
  <1>2. CatInv /\ [CatalogNext]_catalogVars => CatInv'
    BY CatNext, NextInv DEF CatInv, CatStepOK
  <1>3. CatInv /\ DriftInv /\ [CatalogNext]_catalogVars => DriftInv'
    BY DriftNext
  <1>4. CatInv /\ DriftInv => CatalogDriftHasACause
    BY SettledIsMirrored
  <1>5. QED
    BY <1>1, <1>2, <1>3, <1>4, PTL DEF CatalogSpec
=============================================================================
