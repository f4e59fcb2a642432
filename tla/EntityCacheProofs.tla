------------------------- MODULE EntityCacheProofs -------------------------
(***************************************************************************)
(* Proofs about EntityCache, for any classes, chain length and number of   *)
(* reorganisations and failures: CacheCoherent (with TypeOK) is inductive, *)
(* and from it a cached handler equals a direct one (CacheTransparent), a  *)
(* flush loses nothing (FlushFaithful) and never breaks a foreign key      *)
(* (FlushOrderFkSafe).  With the rollback log sound wherever a fork may    *)
(* reach (Reachable), the squid implements Indexer (ImplementsIndexer).    *)
(***************************************************************************)
EXTENDS EntityCache, SequenceTheorems, TLAPS

-----------------------------------------------------------------------------
(* Rows and tables. *)

\* Writing a row appends to its history and nothing else.
LEMMA WriteFacts ==
  ASSUME NEW row \in MemoryRow, NEW e \in Nat
  PROVE  /\ Write(row, e) \in MemoryRow
         /\ Write(row, e).hist = Append(row.hist, e)
         /\ Write(row, e).link = row.link
         /\ Exists(Write(row, e))
<1>1. /\ row.hist \in Seq(Nat)
      /\ row = [hist |-> row.hist, link |-> row.link]
  BY DEF MemoryRow
<1>2. Append(row.hist, e) \in Seq(Nat) /\ Append(row.hist, e) # <<>>
  BY <1>1, AppendProperties
<1> QED BY <1>1, <1>2 DEF Write, MemoryRow, Exists

\* Two rows with the same columns are the same row.
LEMMA RowEqual ==
  ASSUME NEW r \in MemoryRow, NEW s \in MemoryRow,
         r.hist = s.hist, r.link = s.link
  PROVE  r = s
BY DEF MemoryRow

LEMMA RowKinds ==
  /\ StoredRow \subseteq MemoryRow
  /\ AbsentRow \in StoredRow
  /\ \A r \in StoredRow : r.link # UNLOADED
BY RowsAssumption DEF StoredRow, MemoryRow, AbsentRow

LEMMA EmptyTableOK == TableOK(EmptyTable)
BY RowKinds, RowsAssumption
   DEF TableOK, EmptyTable, FkHolds, AbsentRow, Keys

\* A handler run directly on a table leaves a table Postgres can hold.
LEMMA ApplyOK ==
  ASSUME NEW table, TableOK(table), NEW ev \in Event, NEW e \in Nat
  PROVE  TableOK(Apply(table, ev, e))
<1> DEFINE t == Apply(table, ev, e)
<1>1. /\ \A k \in Keys : table[k] \in StoredRow
      /\ \A k \in Keys : table[k].link \in Parents \cup {NULL}
  BY DEF TableOK, StoredRow
<1>2. \A k \in Keys : /\ Write(table[k], e) \in StoredRow
                      /\ Exists(Write(table[k], e))
                      /\ Write(table[k], e).link = table[k].link
  <2> SUFFICES ASSUME NEW k \in Keys
               PROVE  /\ Write(table[k], e) \in StoredRow
                      /\ Exists(Write(table[k], e))
                      /\ Write(table[k], e).link = table[k].link
    OBVIOUS
  <2>1. Write(table[k], e).link = table[k].link /\ Exists(Write(table[k], e))
    BY <1>1, WriteFacts, RowKinds
  <2>2. Write(table[k], e) \in StoredRow
    BY <1>1, <2>1, WriteFacts, RowKinds DEF StoredRow, MemoryRow
  <2> QED BY <2>1, <2>2
<1>3. CASE ev.op = "touch"
  BY <1>1, <1>2, <1>3 DEF TableOK, FkHolds, Apply, Event, Keys, Whole
<1>4. CASE ev.op = "create"
  BY <1>1, <1>2, <1>4 DEF TableOK, FkHolds, Apply, Event, Keys, Whole
<1>5. CASE ev.op = "link"
  <2>1. ev.p \in Parents /\ ev.c \in Children
    BY <1>5 DEF Event, Whole
  <2> DEFINE w == [Write(table[ev.c], e) EXCEPT !.link = ev.p]
  <2>2. w \in StoredRow /\ Exists(w) /\ w.link = ev.p
    BY <1>2, <2>1 DEF StoredRow, Exists, Keys
  <2>3. t = [table EXCEPT ![ev.p] = Write(@, e), ![ev.c] = w]
    BY <1>5, <2>1, RowsAssumption DEF Apply, TableOK, Keys
  <2> HIDE DEF w, t
  <2>4. t \in [Keys -> StoredRow]
    BY <1>2, <2>1, <2>2, <2>3 DEF TableOK, Keys
  <2>5. \A k \in Keys : t[k] = IF k = ev.c THEN w
                              ELSE IF k = ev.p THEN Write(table[k], e) ELSE table[k]
    BY <2>1, <2>3, RowsAssumption DEF TableOK, Keys
  <2>6. FkHolds(t)
    BY <1>1, <1>2, <2>1, <2>2, <2>5, RowsAssumption DEF TableOK, FkHolds, Keys
  <2>7. /\ \A p \in Parents : t[p].link = NULL
        /\ \A k \in Keys : Exists(t[k]) \/ t[k] = AbsentRow
    BY <1>2, <2>1, <2>2, <2>5, RowsAssumption DEF TableOK, Keys
  <2> QED BY <2>4, <2>6, <2>7 DEF TableOK, t
<1>6. CASE ev.op = "peek"
  BY <1>1, <1>2, <1>6 DEF TableOK, FkHolds, Apply, Event, Keys, Whole
<1>7. CASE ev.op = "follow"
  BY <1>1, <1>2, <1>7 DEF TableOK, FkHolds, Apply, Event, Keys, Whole
<1>8. CASE ev.op = "amend"
  <2>1. ev.p \in Parents /\ ev.c \in Children
    BY <1>8, RowsAssumption DEF Event
  <2> DEFINE w == IF Exists(table[ev.c]) THEN Write(table[ev.c], e)
                  ELSE [Write(table[ev.c], e) EXCEPT !.link = ev.p]
  <2>2. /\ w \in StoredRow /\ Exists(w)
        /\ w.link = ev.p \/ w.link = table[ev.c].link
    BY <1>2, <2>1 DEF StoredRow, Exists, Keys
  <2>3. t = [[table EXCEPT ![ev.p] = Write(table[ev.p], e)] EXCEPT ![ev.c] = w]
    BY <1>8, <2>1, RowsAssumption DEF Apply, TableOK, Keys
  <2> HIDE DEF w, t
  <2>4. t \in [Keys -> StoredRow]
    BY <1>2, <2>1, <2>2, <2>3 DEF TableOK, Keys
  <2>5. \A k \in Keys : t[k] = IF k = ev.c THEN w
                              ELSE IF k = ev.p THEN Write(table[k], e) ELSE table[k]
    BY <2>1, <2>3, RowsAssumption DEF TableOK, Keys
  <2>6. FkHolds(t)
    BY <1>1, <1>2, <2>1, <2>2, <2>5, RowsAssumption DEF TableOK, FkHolds, Keys
  <2>7. /\ \A p \in Parents : t[p].link = NULL
        /\ \A k \in Keys : Exists(t[k]) \/ t[k] = AbsentRow
    BY <1>2, <2>1, <2>2, <2>5, RowsAssumption DEF TableOK, Keys
  <2> QED BY <2>4, <2>6, <2>7 DEF TableOK, t
<1> QED BY <1>3, <1>4, <1>5, <1>6, <1>7, <1>8 DEF Event
-----------------------------------------------------------------------------
(* The cache. *)

\* The part of the state one call of get() or flush() depends on.
Coherent == TypeOK /\ TableOK(work) /\ TableOK(View) /\ CleanCoherent /\ DirtyCoherent

\* What the view of the cache is, key by key.
LEMMA ViewAt ==
  ASSUME Coherent, NEW k \in Keys
  PROVE  /\ View[k] \in StoredRow /\ work[k] \in StoredRow /\ cache[k] \in MemoryRow
         /\ k \notin dirty => View[k] = work[k]
         /\ k \in dirty => View[k].hist = cache[k].hist /\ Exists(View[k])
         /\ k \in dirty /\ cache[k].link # UNLOADED => View[k] = cache[k]
         /\ k \in dirty /\ cache[k].link = UNLOADED
              => /\ View[k].link = work[k].link /\ k \in Children
                 /\ k \in Partial \/ work[k] = AbsentRow
<1>1. View[k] \in StoredRow /\ work[k] \in StoredRow /\ cache[k] \in MemoryRow
  BY DEF Coherent, TypeOK, TableOK
<1>2. View[k] = IF k \notin dirty THEN work[k]
                ELSE IF cache[k].link = UNLOADED
                     THEN [cache[k] EXCEPT !.link = work[k].link]
                     ELSE cache[k]
  BY DEF View, Upserted
<1>3. k \in dirty => /\ Exists(cache[k])
                     /\ cache[k].link = UNLOADED
                          => k \in Children /\ (k \in Partial \/ work[k] = AbsentRow)
  BY DEF Coherent, DirtyCoherent
<1> QED BY <1>1, <1>2, <1>3 DEF MemoryRow, StoredRow, AbsentRow, Exists

\* A read from the store, with or without the relation, has the row's columns.
LEMMA FromStoreFacts ==
  ASSUME Coherent, NEW k \in Keys, NEW b \in BOOLEAN
  PROVE  /\ FromStore(k, b) \in MemoryRow
         /\ FromStore(k, b).hist = work[k].hist
         /\ FromStore(k, b).link \in {work[k].link, UNLOADED}
         /\ FromStore(k, b).link # UNLOADED => FromStore(k, b) = work[k]
         /\ FromStore(k, b) # NotCached
         /\ ~ Exists(work[k]) => FromStore(k, b) = work[k]
         /\ k \in Parents \/ b => FromStore(k, b) = work[k]
<1>1. work[k] \in StoredRow /\ (Exists(work[k]) \/ work[k] = AbsentRow)
  BY DEF Coherent, TableOK
<1>2. k \in Parents => k \notin Children
  BY RowsAssumption
<1> QED BY <1>1, <1>2, RowsAssumption
        DEF FromStore, StoredRow, MemoryRow, NotCached, Exists, AbsentRow

\* What get() returns, against the view: the same row, or, when the relation
\* is missing, one whose missing relation is either not asked for or NULL.
LEMMA GetFacts ==
  ASSUME Coherent, NEW k \in Keys, NEW b \in BOOLEAN
  PROVE  /\ Get(k, b) \in MemoryRow
         /\ Get(k, b).hist = View[k].hist
         /\ Get(k, b).link # UNLOADED => Get(k, b) = View[k]
         /\ Get(k, b).link = UNLOADED
              => View[k].link = work[k].link /\ k \in Children
         /\ b /\ Get(k, b).link = UNLOADED
              => k \in dirty /\ (k \in Partial \/ work[k] = AbsentRow)
         /\ k \in Parents => Get(k, b) = View[k]
         /\ k \in dirty => Get(k, b) = cache[k]
         /\ k \notin dirty => \E d \in BOOLEAN : Get(k, b) = FromStore(k, d)
<1>1. CASE k \in dirty
  <2>1. Get(k, b) = cache[k]
    BY <1>1 DEF Get
  <2>2. k \in Parents => cache[k].link # UNLOADED
    BY <1>1, RowsAssumption DEF Coherent, DirtyCoherent
  <2> QED BY <1>1, <2>1, <2>2, ViewAt
<1>2. CASE k \notin dirty /\ ~ Trusted(k, b)
  <2>1. Get(k, b) = FromStore(k, b)
    BY <1>2 DEF Get
  <2>2. b => FromStore(k, b) = work[k]
    BY FromStoreFacts
  <2>3. work[k].link # UNLOADED /\ View[k] = work[k] /\ (k \in Parents \/ k \in Children)
    BY <1>2, ViewAt, RowKinds DEF Keys
  <2> QED BY <1>2, <2>1, <2>2, <2>3, FromStoreFacts
<1>3. CASE k \notin dirty /\ Trusted(k, b)
  <2>1. Get(k, b) = cache[k] /\ cache[k] # NotCached
    BY <1>3 DEF Get, Trusted
  <2>2. PICK d \in BOOLEAN : cache[k] = FromStore(k, d)
    BY <1>3, <2>1 DEF Coherent, CleanCoherent
  <2>3. View[k] = work[k] /\ work[k].link # UNLOADED /\ (k \in Parents \/ k \in Children)
    BY <1>3, ViewAt, RowKinds DEF Keys
  <2>4. b => cache[k].link # UNLOADED
    <3>1. ~ Exists(cache[k]) => cache[k] = work[k]
      BY <2>2, FromStoreFacts DEF Exists
    <3> QED BY <1>3, <2>3, <3>1 DEF Trusted
  <2> QED BY <1>3, <2>1, <2>2, <2>3, <2>4, FromStoreFacts
<1> QED BY <1>1, <1>2, <1>3

\* The object a handler writes to: the row, or a fresh one.
LEMMA OrNewFacts ==
  ASSUME Coherent, NEW k \in Keys, NEW b \in BOOLEAN, NEW e \in Nat
  PROVE  LET row == Write(OrNew(Get(k, b), k), e)
         IN /\ row \in MemoryRow
            /\ Exists(row)
            /\ row.hist = Append(View[k].hist, e)
            /\ k \in Parents => row = Write(View[k], e)
            /\ \/ row.link = View[k].link
               \/ row.link = UNLOADED /\ View[k].link = work[k].link /\ k \in Children
            /\ b /\ row.link = UNLOADED => k \in Partial \/ work[k] = AbsentRow
<1> DEFINE g == Get(k, b)
           o == OrNew(g, k)
<1>1. g \in MemoryRow /\ g.hist = View[k].hist
  BY GetFacts
<1>2. View[k] \in StoredRow /\ (Exists(View[k]) \/ View[k] = AbsentRow)
  BY DEF Coherent, TableOK
<1>3. /\ o \in MemoryRow /\ o.hist = View[k].hist
      /\ k \in Parents => o = View[k]
      /\ \/ o.link = View[k].link
         \/ o.link = UNLOADED /\ View[k].link = work[k].link /\ k \in Children
      /\ b /\ o.link = UNLOADED => k \in Partial \/ work[k] = AbsentRow
  <2>1. CASE Exists(g)
    <3>1. o = g
      BY <2>1 DEF OrNew
    <3> QED BY <1>1, <3>1, GetFacts
  <2>2. CASE ~ Exists(g)
    <3>1. View[k] = AbsentRow
      BY <1>1, <1>2, <2>2 DEF Exists
    <3>2. k \notin dirty /\ work[k] = AbsentRow
      BY <3>1, ViewAt DEF Exists, AbsentRow
    <3>3. o = [hist |-> <<>>, link |-> IF k \in Children THEN UNLOADED ELSE NULL]
      BY <2>2 DEF OrNew
    <3>4. k \in Parents => k \notin Children
      BY RowsAssumption
    <3> QED BY <3>1, <3>2, <3>3, <3>4 DEF AbsentRow, MemoryRow, Keys
  <2> QED BY <2>1, <2>2
<1> HIDE DEF o, g
<1>4. Write(o, e) \in MemoryRow /\ Write(o, e).hist = Append(o.hist, e)
      /\ Write(o, e).link = o.link /\ Exists(Write(o, e))
  BY <1>3, WriteFacts
<1> QED BY <1>3, <1>4 DEF o, g
-----------------------------------------------------------------------------
(* The handlers. *)

\* A handler that sets the rows of S, each to the row table t has for it or to
\* a new one without its link, and gets others, turns the view into t.
LEMMA AfterSet ==
  ASSUME Coherent, work' = work,
         cache' \in [Keys -> MemoryRow],
         NEW S \in SUBSET Keys, dirty' = dirty \cup S,
         NEW t, TableOK(t),
         \A k \in Keys \ S :
            /\ t[k] = View[k]
            /\ cache'[k] = cache[k] \/ \E b \in BOOLEAN : cache'[k] = Get(k, b),
         \A k \in S :
            /\ Exists(cache'[k]) /\ cache'[k].hist = t[k].hist
            /\ \/ cache'[k].link = t[k].link
               \/ cache'[k].link = UNLOADED /\ t[k].link = work[k].link
                  /\ k \in Children /\ (k \in Partial \/ work[k] = AbsentRow)
  PROVE  View' = t /\ CleanCoherent' /\ DirtyCoherent'
<1>1. t \in [Keys -> StoredRow]
  BY DEF TableOK
<1>2. \A k \in Keys \ S : k \in dirty => cache'[k] = cache[k]
  BY GetFacts
<1>3. ASSUME NEW k \in Keys
      PROVE  View'[k] = t[k]
  <2>1. View'[k] = IF k \notin dirty' THEN work[k]
                   ELSE IF cache'[k].link = UNLOADED
                        THEN [cache'[k] EXCEPT !.link = work[k].link]
                        ELSE cache'[k]
    BY DEF View, Upserted
  <2>2. CASE k \in S
    <3>1. t[k] \in StoredRow /\ cache'[k] \in MemoryRow /\ t[k].link # UNLOADED
      BY <1>1, RowKinds
    <3>2. CASE cache'[k].link = t[k].link
      BY <2>1, <2>2, <3>1, <3>2, RowEqual, RowKinds
    <3>3. CASE cache'[k].link = UNLOADED /\ t[k].link = work[k].link
      <4>1. View'[k] = [cache'[k] EXCEPT !.link = t[k].link]
        BY <2>1, <2>2, <3>3
      <4>2. View'[k] \in MemoryRow /\ View'[k].link = t[k].link /\ View'[k].hist = cache'[k].hist
        BY <3>1, <4>1 DEF MemoryRow, StoredRow
      <4> QED BY <2>2, <3>1, <4>2, RowEqual, RowKinds
    <3> QED BY <2>2, <3>2, <3>3
  <2>3. CASE k \notin S
    <3>1. View[k] = IF k \notin dirty THEN work[k]
                    ELSE IF cache[k].link = UNLOADED
                         THEN [cache[k] EXCEPT !.link = work[k].link]
                         ELSE cache[k]
      BY DEF View, Upserted
    <3> QED BY <1>2, <2>1, <2>3, <3>1
  <2> QED BY <2>2, <2>3
<1>4. View' = t
  <2>1. View' = [k \in Keys |-> View'[k]]
    BY DEF View, Upserted
  <2> QED BY <1>1, <1>3, <2>1
<1>5. CleanCoherent'
  <2> SUFFICES ASSUME NEW k \in Keys, k \notin dirty'
               PROVE  cache'[k] = NotCached \/ \E b \in BOOLEAN : cache'[k] = FromStore(k, b)
    BY DEF CleanCoherent, FromStore
  <2>1. k \notin S /\ k \notin dirty
    OBVIOUS
  <2>2. cache[k] = NotCached \/ \E b \in BOOLEAN : cache[k] = FromStore(k, b)
    BY <2>1 DEF Coherent, CleanCoherent
  <2>3. \A b \in BOOLEAN : \E d \in BOOLEAN : Get(k, b) = FromStore(k, d)
    BY <2>1, GetFacts
  <2> QED BY <2>1, <2>2, <2>3
<1>6. DirtyCoherent'
  <2> SUFFICES ASSUME NEW k \in dirty'
               PROVE  /\ Exists(cache'[k])
                      /\ cache'[k].link = UNLOADED
                           => k \in Children /\ (k \in Partial \/ work[k] = AbsentRow)
                      /\ k \in Parents => cache'[k].link = NULL
    BY DEF DirtyCoherent
  <2>0. k \in Keys
    BY DEF Coherent, TypeOK
  <2>1. CASE k \in S
    <3>1. t[k].link # UNLOADED /\ (k \in Parents => t[k].link = NULL)
      BY <1>1, <2>0, RowKinds DEF TableOK
    <3> QED BY <2>1, <3>1, RowsAssumption
  <2>2. CASE k \notin S
    <3>1. k \in dirty /\ cache'[k] = cache[k]
      BY <1>2, <2>0, <2>2
    <3> QED BY <3>1 DEF Coherent, DirtyCoherent
  <2> QED BY <2>1, <2>2
<1> QED BY <1>4, <1>5, <1>6

\* One event handled through the cache: the effect of the direct handler.
LEMMA HandlerStep ==
  ASSUME Coherent, work' = work, NEW ev \in Event, Dispatch(ev)
  PROVE  /\ View' = Apply(View, ev, pos + 1)
         /\ CleanCoherent' /\ DirtyCoherent'
         /\ cache' \in [Keys -> MemoryRow] /\ dirty' \in SUBSET Keys
<1> DEFINE e == pos + 1
           t == Apply(View, ev, e)
<1>1. e \in Nat /\ cache \in [Keys -> MemoryRow] /\ dirty \in SUBSET Keys
  BY DEF Coherent, TypeOK
<1>2. TableOK(t) /\ View \in [Keys -> StoredRow]
  BY <1>1, ApplyOK DEF Coherent, TableOK
<1>3. /\ Parents \subseteq Keys /\ Children \subseteq Keys
      /\ \A k \in Parents : k \notin Children
  BY RowsAssumption DEF Keys
<1>4. ASSUME NEW k \in Keys
      PROVE  /\ Write(View[k], e).hist = Append(View[k].hist, e)
             /\ Write(View[k], e).link = View[k].link
  BY <1>1, <1>2, WriteFacts, RowKinds
<1>5. ASSUME NEW p \in Parents, NEW b \in BOOLEAN
      PROVE  LET row == Write(OrNew(Get(p, b), p), e)
             IN row \in MemoryRow /\ Exists(row) /\ row = Write(View[p], e)
  BY <1>1, <1>3, OrNewFacts
<1>6. CASE ev.op = "touch"
  <2>1. ev.p \in Parents
    BY <1>6 DEF Event
  <2>2. /\ cache' = [cache EXCEPT ![ev.p] = Write(OrNew(Get(ev.p, FALSE), ev.p), e)]
        /\ dirty' = dirty \cup {ev.p}
    BY <1>6 DEF Dispatch, Touch, Set
  <2>3. t = [View EXCEPT ![ev.p] = Write(@, e)]
    BY <1>6 DEF Apply
  <2> HIDE DEF t, e
  <2>4. cache' \in [Keys -> MemoryRow] /\ dirty' \in SUBSET Keys
    BY <1>1, <1>3, <1>5, <2>1, <2>2
  <2>5. View' = t /\ CleanCoherent' /\ DirtyCoherent'
    <3> DEFINE S == {ev.p}
    <3>1. S \in SUBSET Keys /\ dirty' = dirty \cup S
      BY <1>3, <2>1, <2>2
    <3>2. \A k \in Keys \ S : t[k] = View[k] /\ cache'[k] = cache[k]
      BY <1>1, <1>2, <2>2, <2>3
    <3>3. \A k \in S : cache'[k] = t[k] /\ Exists(cache'[k])
      BY <1>1, <1>2, <1>3, <1>5, <2>1, <2>2, <2>3
    <3> HIDE DEF S
    <3> QED BY <1>2, <2>4, <3>1, <3>2, <3>3, AfterSet
  <2> QED BY <2>4, <2>5 DEF t, e
<1>7. CASE ev.op = "create"
  <2>1. ev.c \in Children
    BY <1>7 DEF Event, Whole
  <2> DEFINE row == Write(OrNew(Get(ev.c, TRUE), ev.c), e)
  <2>2. cache' = [cache EXCEPT ![ev.c] = row] /\ dirty' = dirty \cup {ev.c}
    BY <1>7 DEF Dispatch, Create, Set
  <2>3. t = [View EXCEPT ![ev.c] = Write(@, e)]
    BY <1>7 DEF Apply
  <2>4. /\ row \in MemoryRow /\ Exists(row)
        /\ row.hist = Append(View[ev.c].hist, e)
        /\ \/ row.link = View[ev.c].link
           \/ row.link = UNLOADED /\ View[ev.c].link = work[ev.c].link
              /\ ev.c \in Children /\ (ev.c \in Partial \/ work[ev.c] = AbsentRow)
    BY <1>1, <1>3, <2>1, OrNewFacts
  <2> HIDE DEF t, e, row
  <2>5. cache' \in [Keys -> MemoryRow] /\ dirty' \in SUBSET Keys
    BY <1>1, <1>3, <2>1, <2>2, <2>4
  <2>6. View' = t /\ CleanCoherent' /\ DirtyCoherent'
    <3> DEFINE S == {ev.c}
    <3>1. S \in SUBSET Keys /\ dirty' = dirty \cup S
      BY <1>3, <2>1, <2>2
    <3>2. \A k \in Keys \ S : t[k] = View[k] /\ cache'[k] = cache[k]
      BY <1>1, <1>2, <2>2, <2>3
    <3>3. cache'[ev.c] = row /\ t[ev.c] = Write(View[ev.c], e)
      BY <1>1, <1>2, <1>3, <2>1, <2>2, <2>3
    <3>4. t[ev.c].hist = row.hist /\ t[ev.c].link = View[ev.c].link
      BY <1>3, <1>4, <2>1, <2>4, <3>3
    <3>5. \A k \in S : /\ Exists(cache'[k]) /\ cache'[k].hist = t[k].hist
                       /\ \/ cache'[k].link = t[k].link
                          \/ cache'[k].link = UNLOADED /\ t[k].link = work[k].link
                             /\ k \in Children /\ (k \in Partial \/ work[k] = AbsentRow)
      BY <2>4, <3>3, <3>4
    <3> HIDE DEF S
    <3> QED BY <1>2, <2>5, <3>1, <3>2, <3>5, AfterSet
  <2> QED BY <2>5, <2>6 DEF t, e
<1>8. CASE ev.op = "link"
  <2>1. ev.p \in Parents /\ ev.c \in Children /\ ev.c # ev.p
    BY <1>3, <1>8 DEF Event, Whole
  <2> DEFINE prow == Write(OrNew(Get(ev.p, FALSE), ev.p), e)
             made == Write(OrNew(Get(ev.c, TRUE), ev.c), e)
             crow == [made EXCEPT !.link = ev.p]
  <2>2. /\ cache' = [[cache EXCEPT ![ev.p] = prow] EXCEPT ![ev.c] = crow]
        /\ dirty' = dirty \cup {ev.c, ev.p}
    BY <1>8 DEF Dispatch, Link, Set
  <2>3. t = [[View EXCEPT ![ev.p] = Write(View[ev.p], e)]
               EXCEPT ![ev.c] = [Write(View[ev.c], e) EXCEPT !.link = ev.p]]
    BY <1>2, <1>3, <1>8, <2>1 DEF Apply
  <2>4. made \in MemoryRow /\ Exists(made) /\ made.hist = Append(View[ev.c].hist, e)
    BY <1>1, <1>3, <2>1, OrNewFacts
  <2>5. /\ crow \in MemoryRow /\ Exists(crow)
        /\ crow.hist = Append(View[ev.c].hist, e) /\ crow.link = ev.p
    BY <2>1, <2>4 DEF MemoryRow, Exists
  <2>6. prow \in MemoryRow /\ Exists(prow) /\ prow = Write(View[ev.p], e)
    BY <1>5, <2>1
  <2>7. Write(View[ev.c], e) \in MemoryRow
    BY <1>1, <1>2, <1>3, <2>1, WriteFacts, RowKinds
  <2> HIDE DEF t, e, prow, crow
  <2>8. cache' \in [Keys -> MemoryRow] /\ dirty' \in SUBSET Keys
    BY <1>1, <1>3, <2>1, <2>2, <2>5, <2>6
  <2>9. View' = t /\ CleanCoherent' /\ DirtyCoherent'
    <3> DEFINE S == {ev.c, ev.p}
    <3>1. S \in SUBSET Keys /\ dirty' = dirty \cup S
      BY <1>3, <2>1, <2>2
    <3>2. \A k \in Keys \ S : t[k] = View[k] /\ cache'[k] = cache[k]
      BY <1>1, <1>2, <2>2, <2>3
    <3>3. cache'[ev.p] = prow /\ t[ev.p] = Write(View[ev.p], e)
      BY <1>1, <1>2, <1>3, <2>1, <2>2, <2>3
    <3>4. cache'[ev.c] = crow /\ t[ev.c] = [Write(View[ev.c], e) EXCEPT !.link = ev.p]
      BY <1>1, <1>2, <1>3, <2>1, <2>2, <2>3
    <3>5. t[ev.c].hist = Append(View[ev.c].hist, e) /\ t[ev.c].link = ev.p
      BY <1>3, <1>4, <2>1, <2>7, <3>4 DEF MemoryRow
    <3>6. \A k \in S : /\ Exists(cache'[k]) /\ cache'[k].hist = t[k].hist
                       /\ cache'[k].link = t[k].link
      BY <2>5, <2>6, <3>3, <3>4, <3>5
    <3> HIDE DEF S
    <3> QED BY <1>2, <2>8, <3>1, <3>2, <3>6, AfterSet
  <2> QED BY <2>8, <2>9 DEF t, e
<1>9. CASE ev.op = "peek"
  <2>1. ev.p \in Parents /\ ev.c \in Children /\ ev.c # ev.p
    BY <1>3, <1>9 DEF Event, Whole
  <2>2. Get(ev.c, FALSE) \in MemoryRow /\ Get(ev.c, FALSE).hist = View[ev.c].hist
    BY <1>3, <2>1, GetFacts
  <2>3. Exists(Get(ev.c, FALSE)) <=> Exists(View[ev.c])
    BY <2>2 DEF Exists
  <2> DEFINE got  == [cache EXCEPT ![ev.c] = Get(ev.c, FALSE)]
             prow == Write(OrNew(Get(ev.p, FALSE), ev.p), e)
  <2>4. prow \in MemoryRow /\ Exists(prow) /\ prow = Write(View[ev.p], e)
    BY <1>5, <2>1
  <2>5. CASE Exists(View[ev.c])
    <3>1. cache' = [got EXCEPT ![ev.p] = prow] /\ dirty' = dirty \cup {ev.p}
      BY <1>9, <2>3, <2>5 DEF Dispatch, Peek, Set, AfterGet
    <3>2. t = [View EXCEPT ![ev.p] = Write(View[ev.p], e)]
      BY <1>9, <2>5 DEF Apply
    <3> DEFINE S == {ev.p}
    <3> HIDE DEF t, e, prow
    <3>3. cache' \in [Keys -> MemoryRow] /\ dirty' \in SUBSET Keys
      BY <1>1, <1>3, <2>1, <2>2, <2>4, <3>1
    <3>4. S \in SUBSET Keys /\ dirty' = dirty \cup S
      BY <1>3, <2>1, <3>1
    <3>5. \A k \in Keys \ S : t[k] = View[k]
      BY <1>2, <3>2
    <3>6. \A k \in Keys \ S : cache'[k] = cache[k] \/ cache'[k] = Get(k, FALSE)
      BY <1>1, <1>3, <2>1, <3>1
    <3>7. \A k \in S : cache'[k] = t[k] /\ Exists(cache'[k])
      BY <1>1, <1>2, <1>3, <2>1, <2>4, <3>1, <3>2
    <3> HIDE DEF S
    <3>8. View' = t /\ CleanCoherent' /\ DirtyCoherent'
      BY <1>2, <3>3, <3>4, <3>5, <3>6, <3>7, AfterSet
    <3> QED BY <3>3, <3>8 DEF t, e
  <2>6. CASE ~ Exists(View[ev.c])
    <3>1. cache' = got /\ dirty' = dirty
      BY <1>9, <2>3, <2>6 DEF Dispatch, Peek, AfterGet
    <3>2. t = View
      BY <1>9, <2>6 DEF Apply
    <3> HIDE DEF t, e, prow
    <3>3. cache' \in [Keys -> MemoryRow] /\ dirty' \in SUBSET Keys
      BY <1>1, <1>3, <2>1, <2>2, <3>1
    <3>4. \A k \in Keys : cache'[k] = cache[k] \/ cache'[k] = Get(k, FALSE)
      BY <1>1, <1>3, <2>1, <3>1
    <3> DEFINE S == {}
    <3>5. /\ S \in SUBSET Keys /\ dirty' = dirty \cup S
          /\ \A k \in Keys \ S : /\ t[k] = View[k]
                                 /\ cache'[k] = cache[k] \/ \E b \in BOOLEAN : cache'[k] = Get(k, b)
          /\ \A k \in S : FALSE
      BY <3>1, <3>2, <3>4
    <3> HIDE DEF S
    <3>6. View' = t /\ CleanCoherent' /\ DirtyCoherent'
      BY <1>2, <3>3, <3>5, AfterSet
    <3> QED BY <3>3, <3>6 DEF t, e
  <2> QED BY <2>5, <2>6
<1>10. CASE ev.op = "follow"
  <2>1. ev.c \in Children /\ ev.c \in Keys /\ ev.c \notin Partial
    BY <1>3, <1>10 DEF Event, Whole
  <2> DEFINE p    == Get(ev.c, TRUE).link
             got  == [cache EXCEPT ![ev.c] = Get(ev.c, TRUE)]
             prow == Write(OrNew(Get(p, FALSE), p), e)
  <2>2. Get(ev.c, TRUE) \in MemoryRow
    BY <2>1, GetFacts
  <2>3. p # UNLOADED => p = View[ev.c].link
    BY <2>1, GetFacts
  <2>4. p = UNLOADED => View[ev.c].link = NULL
    <3>1. p = UNLOADED => View[ev.c].link = work[ev.c].link /\ work[ev.c] = AbsentRow
      BY <2>1, GetFacts
    <3>2. AbsentRow.link = NULL
      BY DEF AbsentRow
    <3> HIDE DEF p
    <3> QED BY <3>1, <3>2
  <2>5. View[ev.c].link \in Parents \cup {NULL}
    BY <1>2, <2>1 DEF StoredRow
  <2>6. CASE p \in Parents
    <3>1. cache' = [got EXCEPT ![p] = prow] /\ dirty' = dirty \cup {p}
      BY <1>10, <2>6 DEF Dispatch, Follow, Set, AfterGet
    <3>2. p = View[ev.c].link /\ p # NULL /\ p # ev.c
      BY <1>3, <2>1, <2>3, <2>6, RowsAssumption
    <3>3. t = [View EXCEPT ![p] = Write(View[p], e)]
      BY <1>10, <3>2 DEF Apply
    <3>4. prow \in MemoryRow /\ Exists(prow) /\ prow = Write(View[p], e)
      BY <1>5, <2>6
    <3> DEFINE S == {p}
    <3> HIDE DEF t, e, prow, p
    <3>5. cache' \in [Keys -> MemoryRow] /\ dirty' \in SUBSET Keys
      BY <1>1, <1>3, <2>1, <2>2, <2>6, <3>1, <3>4
    <3>6. S \in SUBSET Keys /\ dirty' = dirty \cup S
      BY <1>3, <2>6, <3>1
    <3>7. \A k \in Keys \ S : t[k] = View[k]
      BY <1>2, <3>3
    <3>8. \A k \in Keys \ S : cache'[k] = cache[k] \/ cache'[k] = Get(k, TRUE)
      BY <1>1, <1>3, <2>1, <3>1
    <3>9. \A k \in S : cache'[k] = t[k] /\ Exists(cache'[k])
      BY <1>1, <1>2, <1>3, <2>6, <3>1, <3>3, <3>4
    <3> HIDE DEF S
    <3>10. View' = t /\ CleanCoherent' /\ DirtyCoherent'
      BY <1>2, <3>5, <3>6, <3>7, <3>8, <3>9, AfterSet
    <3> QED BY <3>5, <3>10 DEF t, e
  <2>7. CASE p \notin Parents
    <3>1. cache' = got /\ dirty' = dirty
      BY <1>10, <2>7 DEF Dispatch, Follow, AfterGet
    <3>2. View[ev.c].link = NULL
      BY <2>3, <2>4, <2>5, <2>7
    <3>3. t = View
      BY <1>10, <3>2 DEF Apply
    <3> HIDE DEF t, e, prow, p
    <3>4. cache' \in [Keys -> MemoryRow] /\ dirty' \in SUBSET Keys
      BY <1>1, <1>3, <2>1, <2>2, <3>1
    <3>5. \A k \in Keys : cache'[k] = cache[k] \/ cache'[k] = Get(k, TRUE)
      BY <1>1, <1>3, <2>1, <3>1
    <3> DEFINE S == {}
    <3>6. /\ S \in SUBSET Keys /\ dirty' = dirty \cup S
          /\ \A k \in Keys \ S : /\ t[k] = View[k]
                                 /\ cache'[k] = cache[k] \/ \E b \in BOOLEAN : cache'[k] = Get(k, b)
          /\ \A k \in S : FALSE
      BY <3>1, <3>3, <3>5
    <3> HIDE DEF S
    <3>7. View' = t /\ CleanCoherent' /\ DirtyCoherent'
      BY <1>2, <3>4, <3>6, AfterSet
    <3> QED BY <3>4, <3>7 DEF t, e
  <2> QED BY <2>6, <2>7
<1>11. CASE ev.op = "amend"
  <2>1. ev.p \in Parents /\ ev.c \in Children /\ ev.c # ev.p /\ ev.c \in Partial
    BY <1>3, <1>11, RowsAssumption DEF Event
  <2> DEFINE got  == Get(ev.c, FALSE)
             made == Write(OrNew(got, ev.c), e)
             prow == Write(OrNew(Get(ev.p, FALSE), ev.p), e)
             crow == IF Exists(got) THEN made ELSE [made EXCEPT !.link = ev.p]
  <2>2. Exists(got) <=> Exists(View[ev.c])
    BY <1>3, <2>1, GetFacts DEF Exists
  <2>3. Exists(got) => made = Write(got, e)
    BY DEF OrNew
  <2>4. /\ cache' = [[cache EXCEPT ![ev.p] = prow] EXCEPT ![ev.c] = crow]
        /\ dirty' = dirty \cup {ev.c, ev.p}
    BY <1>11, <2>3 DEF Dispatch, Amend, Set
  <2>5. t = [[View EXCEPT ![ev.p] = Write(View[ev.p], e)]
               EXCEPT ![ev.c] = IF Exists(View[ev.c]) THEN Write(View[ev.c], e)
                                ELSE [Write(View[ev.c], e) EXCEPT !.link = ev.p]]
    BY <1>2, <1>3, <1>11, <2>1 DEF Apply
  <2>6. /\ made \in MemoryRow /\ Exists(made) /\ made.hist = Append(View[ev.c].hist, e)
        /\ \/ made.link = View[ev.c].link
           \/ made.link = UNLOADED /\ View[ev.c].link = work[ev.c].link
    BY <1>1, <1>3, <2>1, OrNewFacts
  <2> HIDE DEF made
  <2>7. /\ crow \in MemoryRow /\ Exists(crow)
        /\ crow.hist = Append(View[ev.c].hist, e)
        /\ Exists(View[ev.c]) => crow.link = made.link
        /\ ~ Exists(View[ev.c]) => crow.link = ev.p
    BY <2>1, <2>2, <2>6 DEF MemoryRow, Exists
  <2>8. prow \in MemoryRow /\ Exists(prow) /\ prow = Write(View[ev.p], e)
    BY <1>5, <2>1
  <2>9. Write(View[ev.c], e) \in MemoryRow
    BY <1>1, <1>2, <1>3, <2>1, WriteFacts, RowKinds
  <2> HIDE DEF t, e, prow, crow
  <2>10. cache' \in [Keys -> MemoryRow] /\ dirty' \in SUBSET Keys
    BY <1>1, <1>3, <2>1, <2>4, <2>7, <2>8
  <2>11. View' = t /\ CleanCoherent' /\ DirtyCoherent'
    <3> DEFINE S == {ev.c, ev.p}
    <3>1. S \in SUBSET Keys /\ dirty' = dirty \cup S
      BY <1>3, <2>1, <2>4
    <3>2. \A k \in Keys \ S : t[k] = View[k] /\ cache'[k] = cache[k]
      BY <1>1, <1>2, <2>4, <2>5
    <3>3. cache'[ev.p] = prow /\ t[ev.p] = Write(View[ev.p], e)
      BY <1>1, <1>2, <1>3, <2>1, <2>4, <2>5
    <3>4. /\ cache'[ev.c] = crow
          /\ t[ev.c] = IF Exists(View[ev.c]) THEN Write(View[ev.c], e)
                       ELSE [Write(View[ev.c], e) EXCEPT !.link = ev.p]
      BY <1>1, <1>2, <1>3, <2>1, <2>4, <2>5
    <3>5. /\ t[ev.c].hist = Append(View[ev.c].hist, e)
          /\ Exists(View[ev.c]) => t[ev.c].link = View[ev.c].link
          /\ ~ Exists(View[ev.c]) => t[ev.c].link = ev.p
      BY <1>3, <1>4, <2>1, <2>9, <3>4 DEF MemoryRow
    <3>6. /\ cache'[ev.c].hist = t[ev.c].hist /\ Exists(cache'[ev.c])
          /\ \/ cache'[ev.c].link = t[ev.c].link
             \/ cache'[ev.c].link = UNLOADED /\ t[ev.c].link = work[ev.c].link
      BY <2>6, <2>7, <3>4, <3>5
    <3>7. \A k \in S : /\ Exists(cache'[k]) /\ cache'[k].hist = t[k].hist
                       /\ \/ cache'[k].link = t[k].link
                          \/ cache'[k].link = UNLOADED /\ t[k].link = work[k].link
                             /\ k \in Children /\ (k \in Partial \/ work[k] = AbsentRow)
      BY <2>1, <2>8, <3>3, <3>6
    <3> HIDE DEF S
    <3> QED BY <1>2, <2>10, <3>1, <3>2, <3>7, AfterSet
  <2> QED BY <2>10, <2>11 DEF t, e
<1> QED BY <1>6, <1>7, <1>8, <1>9, <1>10, <1>11 DEF Event
-----------------------------------------------------------------------------
(* The flush. *)

\* Both classes: what a flush step writes, and that it leaves the view alone.
LEMMA FlushStep ==
  ASSUME Coherent, NEW class \in {Parents, Children},
         work' = Upserted(dirty \cap class), dirty' = dirty \ class,
         cache' = cache, FkHolds(work')
  PROVE  View' = View /\ TableOK(work') /\ CleanCoherent' /\ DirtyCoherent'
<1>1. /\ class \subseteq Keys /\ cache \in [Keys -> MemoryRow]
      /\ View \in [Keys -> StoredRow] /\ dirty \subseteq Keys
  BY DEF Keys, Coherent, TypeOK, TableOK
<1>2. \A k \in Keys : work'[k] = IF k \in dirty \cap class THEN View[k] ELSE work[k]
  BY DEF Upserted, View
<1>3. work' = [k \in Keys |-> work'[k]]
  BY DEF Upserted
<1>4. ASSUME NEW k \in Keys
      PROVE  View'[k] = View[k]
  <2>1. View'[k] = IF k \notin dirty' THEN work'[k]
                   ELSE IF cache[k].link = UNLOADED
                        THEN [cache[k] EXCEPT !.link = work'[k].link]
                        ELSE cache[k]
    BY DEF View, Upserted
  <2>2. View[k] = IF k \notin dirty THEN work[k]
                  ELSE IF cache[k].link = UNLOADED
                       THEN [cache[k] EXCEPT !.link = work[k].link]
                       ELSE cache[k]
    BY DEF View, Upserted
  <2> QED BY <1>2, <2>1, <2>2
<1>5. View' = View
  <2>1. View' = [k \in Keys |-> View'[k]] /\ View = [k \in Keys |-> View[k]]
    BY DEF View, Upserted
  <2> QED BY <1>4, <2>1
<1>6. TableOK(work')
  <2>1. \A k \in Keys : /\ work'[k] \in StoredRow
                        /\ Exists(work'[k]) \/ work'[k] = AbsentRow
                        /\ k \in Parents => work'[k].link = NULL
    BY <1>2 DEF Coherent, TableOK
  <2>2. work' \in [Keys -> StoredRow]
    BY <1>3, <2>1
  <2> QED BY <2>1, <2>2 DEF TableOK, Keys
<1>7. CleanCoherent'
  <2> SUFFICES ASSUME NEW k \in Keys, k \notin dirty'
               PROVE  cache[k] = NotCached \/ \E b \in BOOLEAN : cache[k] = FromStore(k, b)'
    BY DEF CleanCoherent
  <2>1. \A b \in BOOLEAN :
           FromStore(k, b)' = IF k \in Children /\ ~ b /\ Exists(work'[k])
                              THEN [work'[k] EXCEPT !.link = UNLOADED] ELSE work'[k]
    BY DEF FromStore
  <2>2. CASE k \notin dirty
    <3>1. work'[k] = work[k]
      BY <1>2, <2>2
    <3>2. \A b \in BOOLEAN : FromStore(k, b)' = FromStore(k, b)
      BY <2>1, <3>1 DEF FromStore
    <3> QED BY <2>2, <3>2 DEF Coherent, CleanCoherent
  <2>3. CASE k \in dirty
    <3>1. work'[k] = View[k] /\ View[k] \in StoredRow /\ Exists(View[k])
      BY <1>2, <2>3, ViewAt
    <3>2. CASE cache[k].link # UNLOADED
      BY <2>1, <2>3, <3>1, <3>2, ViewAt
    <3>3. CASE cache[k].link = UNLOADED
      <4>1. k \in Children /\ cache[k] \in MemoryRow /\ cache[k].hist = View[k].hist
        BY <2>3, <3>3, ViewAt
      <4>2. [View[k] EXCEPT !.link = UNLOADED] = cache[k]
        BY <3>1, <3>3, <4>1 DEF StoredRow, MemoryRow
      <4> QED BY <2>1, <3>1, <4>1, <4>2
    <3> QED BY <3>2, <3>3
  <2> QED BY <2>2, <2>3
<1>8. DirtyCoherent'
  BY <1>1, <1>2 DEF Coherent, DirtyCoherent
<1> QED BY <1>5, <1>6, <1>7, <1>8

\* The parents first: each step writes only links whose parent is there.
LEMMA FlushOrder ==
  ASSUME TypeOK, CacheCoherent
  PROVE  FlushOrderFkSafe
<1>0. Coherent
  BY DEF Coherent, CacheCoherent
<1>1. ASSUME pc = "parents"
      PROVE  FkHolds(Upserted(dirty \cap Parents))
  <2> DEFINE t == Upserted(dirty \cap Parents)
  <2>1. \A k \in Keys : t[k] = IF k \in dirty \cap Parents THEN View[k] ELSE work[k]
    BY DEF Upserted, View
  <2>2. /\ \A k \in Keys : View[k].link \in Parents \cup {NULL}
        /\ \A k \in Keys : work[k].link \in Parents \cup {NULL}
        /\ \A k \in Parents : View[k].link = NULL /\ work[k].link = NULL
        /\ FkHolds(work)
    BY <1>0 DEF Coherent, TableOK, StoredRow, Keys
  <2>3. \A k \in dirty : Exists(View[k])
    BY <1>0, ViewAt DEF Coherent, TypeOK
  <2> HIDE DEF t
  <2>4. FkHolds(t)
    BY <2>1, <2>2, <2>3 DEF FkHolds, Keys
  <2> QED BY <2>4 DEF t
<1>2. ASSUME pc = "children"
      PROVE  FkHolds(Upserted(dirty \cap Children))
  <2>1. dirty \cap Children = dirty
    BY <1>2 DEF CacheCoherent
  <2> QED BY <2>1 DEF CacheCoherent, TableOK, View
<1> QED BY <1>1, <1>2 DEF FlushOrderFkSafe
-----------------------------------------------------------------------------
(* The invariant. *)

LEMMA AllMissCoherent ==
  ASSUME TableOK(work'), cache' = [k \in Keys |-> NotCached], dirty' = {}
  PROVE  /\ View' = work' /\ CleanCoherent' /\ DirtyCoherent'
         /\ cache' \in [Keys -> MemoryRow]
<1>1. View' = [k \in Keys |-> work'[k]]
  BY DEF View, Upserted
<1>2. NotCached \in MemoryRow
  BY DEF NotCached, MemoryRow
<1> QED BY <1>1, <1>2 DEF CleanCoherent, DirtyCoherent, TableOK

LEMMA EndBatchOK ==
  ASSUME EndBatch
  PROVE  /\ TableOK(work') /\ TableOK(View') /\ CleanCoherent' /\ DirtyCoherent'
         /\ work' \in [Keys -> StoredRow] /\ cache' \in [Keys -> MemoryRow]
         /\ dirty' = {} /\ fetched' \in Seq(Event) /\ pos' \in Nat /\ pc' = "idle"
<1>1. TableOK(work')
  BY EmptyTableOK DEF EndBatch
<1>2. fetched' \in Seq(Event)
  BY EmptySeq DEF EndBatch
<1> QED BY <1>1, <1>2, AllMissCoherent DEF EndBatch, TableOK

\* What the SDK restores or commits is a table it committed before.
LEMMA CommittedOK ==
  ASSUME TypeOK, CacheCoherent, NEW n \in 0 .. Len(applied)
  PROVE  TableOK(Committed(n))
<1>1. n = 0 \/ n \in 1 .. Len(history)
  BY LenProperties DEF TypeOK
<1> QED BY <1>1, EmptyTableOK DEF Committed, CacheCoherent

LEMMA InitCoherent == Init => TypeOK /\ CacheCoherent
<1> SUFFICES ASSUME Init PROVE TypeOK /\ CacheCoherent
  OBVIOUS
<1>1. TableOK(work) /\ EmptyTable \in [Keys -> StoredRow]
  BY EmptyTableOK DEF Init, TableOK
<1>2. View = work
  BY DEF View, Upserted, Init, EmptyTable
<1>3. NotCached \in MemoryRow
  BY DEF NotCached, MemoryRow
<1>4. TypeOK
  BY <1>1, <1>3, EmptySeq DEF TypeOK, Init
<1>5. \A n \in 1 .. Len(history) : TableOK(history[n])
  BY EmptySeq DEF Init
<1> QED BY <1>1, <1>2, <1>4, <1>5 DEF Init, CacheCoherent, CleanCoherent, DirtyCoherent

LEMMA ChainTyped ==
  ASSUME TypeOK, Grow \/ Finalize \/ Fork
  PROVE  TypeOK'
<1>1. CASE Grow
  BY <1>1, AppendProperties DEF TypeOK, Grow, batchVars
<1>2. CASE Finalize
  BY <1>2 DEF TypeOK, Finalize, batchVars
<1>3. CASE Fork
  <2>1. PICK n \in final .. Len(chain) - 1, ev \in Event :
           chain' = Append(SubSeq(chain, 1, n), ev)
    BY <1>3 DEF Fork
  <2>2. n \in Nat /\ Len(chain) \in Nat /\ n <= Len(chain)
    BY <2>1, LenProperties DEF TypeOK
  <2>3. \A i \in 1 .. n : chain[i] \in Event
    BY <2>2, ElementOfSeq DEF TypeOK
  <2>4. SubSeq(chain, 1, n) \in Seq(Event)
    BY <2>2, <2>3, SubSeqProperties
  <2>5. chain' \in Seq(Event)
    BY <2>1, <2>4, AppendProperties
  <2> QED BY <1>3, <2>5 DEF TypeOK, Fork, batchVars
<1> QED BY <1>1, <1>2, <1>3

LEMMA NextCoherent ==
  ASSUME TypeOK, CacheCoherent, [Next]_vars
  PROVE  TypeOK' /\ CacheCoherent'
<1>0. Coherent
  BY DEF Coherent, CacheCoherent
<1>1. CASE Grow \/ Finalize \/ Fork \/ UNCHANGED vars
  <2>1. UNCHANGED <<applied, history, pc, pos, crashes, fetched, work, cache, dirty>>
    BY <1>1 DEF Grow, Finalize, Fork, vars, batchVars
  <2>2. TypeOK'
    BY <1>1, ChainTyped DEF TypeOK, vars
  <2>3. View' = View /\ CleanCoherent' /\ DirtyCoherent'
    BY <2>1 DEF CacheCoherent, View, Upserted, CleanCoherent, DirtyCoherent, FromStore
  <2> QED BY <2>1, <2>2, <2>3 DEF CacheCoherent
<1>2. CASE BeginBatch
  <2>1. PICK base \in 0 .. Len(applied), n \in 1 .. Len(chain) :
           /\ n > base
           /\ fetched' = SubSeq(chain, 1, n)
           /\ pos' = base
           /\ work' = Committed(base)
    BY <1>2 DEF BeginBatch
  <2>2. /\ cache' = [k \in Keys |-> NotCached] /\ dirty' = {} /\ pc' = "handle"
        /\ UNCHANGED <<chain, final, forks, applied, history, crashes>>
    BY <1>2 DEF BeginBatch, chainVars
  <2>3. Len(applied) \in Nat /\ Len(chain) \in Nat
    BY LenProperties DEF TypeOK
  <2>4. TableOK(work')
    BY <2>1, CommittedOK
  <2>5. fetched' \in Seq(Event) /\ fetched' # <<>>
    <3>1. \A i \in 1 .. n : chain[i] \in Event
      BY <2>1, <2>3, ElementOfSeq DEF TypeOK
    <3>2. SubSeq(chain, 1, n) \in Seq(Event) /\ Len(SubSeq(chain, 1, n)) = n
      BY <2>1, <2>3, <3>1, SubSeqProperties
    <3> QED BY <2>1, <3>2, EmptySeq
  <2>6. /\ View' = work' /\ CleanCoherent' /\ DirtyCoherent'
        /\ cache' \in [Keys -> MemoryRow]
    BY <2>2, <2>4, AllMissCoherent
  <2>7. TypeOK'
    BY <2>1, <2>2, <2>3, <2>4, <2>5, <2>6 DEF TypeOK, TableOK
  <2> QED BY <2>2, <2>4, <2>5, <2>6, <2>7 DEF CacheCoherent
<1>3. CASE Handle
  <2>1. /\ pc = "handle" /\ pc' = "handle" /\ pos < Len(fetched) /\ pos' = pos + 1
        /\ UNCHANGED <<chain, final, forks, fetched, applied, history, work, crashes>>
        /\ Dispatch(fetched[pos + 1])
    BY <1>3 DEF Handle, chainVars
  <2>2. fetched[pos + 1] \in Event /\ pos + 1 \in Nat
    BY <2>1, ElementOfSeq, LenProperties DEF TypeOK
  <2>3. /\ View' = Apply(View, fetched[pos + 1], pos + 1)
        /\ CleanCoherent' /\ DirtyCoherent'
        /\ cache' \in [Keys -> MemoryRow] /\ dirty' \in SUBSET Keys
    BY <1>0, <2>1, <2>2, HandlerStep
  <2>4. TableOK(View')
    BY <2>2, <2>3, ApplyOK DEF CacheCoherent
  <2>5. TypeOK'
    BY <2>1, <2>2, <2>3 DEF TypeOK
  <2> QED BY <2>1, <2>3, <2>4, <2>5 DEF CacheCoherent
<1>4. CASE BeginFlush
  <2>1. /\ pc = "handle" /\ pc' = "parents"
        /\ UNCHANGED <<chain, final, forks, fetched, applied, history, work, crashes,
                       pos, cache, dirty>>
    BY <1>4 DEF BeginFlush, chainVars, batchVars
  <2>2. View' = View /\ CleanCoherent' /\ DirtyCoherent'
    BY <2>1 DEF CacheCoherent, View, Upserted, CleanCoherent, DirtyCoherent, FromStore
  <2>3. TypeOK'
    BY <2>1 DEF TypeOK
  <2> QED BY <2>1, <2>2, <2>3 DEF CacheCoherent
<1>5. ASSUME NEW from \in {"parents", "children"}, NEW class \in {Parents, Children},
             NEW to \in {"children", "commit"}, FlushClass(from, class, to),
             to = "children" => class = Parents,
             to = "commit" => class = Children /\ from = "children"
      PROVE  TypeOK' /\ CacheCoherent'
  <2>1. /\ pc = from /\ pc' = to
        /\ work' = Upserted(dirty \cap class) /\ dirty' = dirty \ class /\ cache' = cache
        /\ FkHolds(work')
        /\ UNCHANGED <<chain, final, forks, fetched, applied, history, pos, crashes>>
    BY <1>5 DEF FlushClass, chainVars
  <2>2. View' = View /\ TableOK(work') /\ CleanCoherent' /\ DirtyCoherent'
    BY <1>0, <1>5, <2>1, FlushStep
  <2>3. TypeOK'
    BY <2>1, <2>2 DEF TypeOK, TableOK
  <2>4. dirty' \subseteq Children /\ (to = "commit" => dirty' = {})
    BY <1>5, <2>1 DEF TypeOK, Keys, CacheCoherent
  <2> QED BY <1>5, <2>1, <2>2, <2>3, <2>4 DEF CacheCoherent
<1>6. CASE FlushParents
  BY <1>5, <1>6 DEF FlushParents
<1>7. CASE FlushChildren
  BY <1>5, <1>7 DEF FlushChildren
<1>8. CASE Commit
  <2>1. /\ pc = "commit" /\ applied' = fetched /\ EndBatch
        /\ history' = [n \in 1 .. Len(fetched) |->
                         IF n < Len(fetched) /\ Agree(applied, fetched, n)
                         THEN Committed(n) ELSE work]
        /\ UNCHANGED <<chain, final, forks, crashes>>
    BY <1>8 DEF Commit, chainVars
  <2>2. Len(fetched) \in Nat /\ Len(applied) \in Nat
    BY LenProperties DEF TypeOK
  <2>3. \A n \in 1 .. Len(fetched) : TableOK(history'[n])
    <3> SUFFICES ASSUME NEW n \in 1 .. Len(fetched) PROVE TableOK(history'[n])
      OBVIOUS
    <3>1. CASE n < Len(fetched) /\ Agree(applied, fetched, n)
      <4>1. n \in 0 .. Len(applied)
        BY <2>2, <3>1 DEF Agree
      <4> QED BY <2>1, <3>1, <4>1, CommittedOK
    <3>2. CASE ~ (n < Len(fetched) /\ Agree(applied, fetched, n))
      BY <2>1, <3>2 DEF CacheCoherent
    <3> QED BY <3>1, <3>2
  <2>4. history' \in Seq([Keys -> StoredRow]) /\ Len(history') = Len(fetched)
    <3>1. \A n \in 1 .. Len(fetched) : history'[n] \in [Keys -> StoredRow]
      BY <2>3 DEF TableOK
    <3>2. history' \in [1 .. Len(fetched) -> [Keys -> StoredRow]]
      BY <2>1, <3>1
    <3> QED BY <2>2, <3>2, SeqDef, LenProperties
  <2>5. TypeOK'
    BY <2>1, <2>4, EndBatchOK DEF TypeOK
  <2> QED BY <2>1, <2>2, <2>3, <2>4, <2>5, EndBatchOK DEF CacheCoherent
<1>9. CASE Fail
  <2>1. /\ EndBatch /\ crashes' = crashes + 1
        /\ UNCHANGED <<chain, final, forks, applied, history>>
    BY <1>9 DEF Fail, chainVars
  <2>2. TypeOK'
    BY <2>1, EndBatchOK DEF TypeOK
  <2> QED BY <2>1, <2>2, EndBatchOK DEF CacheCoherent
<1> QED BY <1>1, <1>2, <1>3, <1>4, <1>6, <1>7, <1>8, <1>9 DEF Next, Process

\* Every state is well-typed (EntityCache's fields and the SDK's tables).
THEOREM TypeCorrect == Spec => []TypeOK
<1> QED BY InitCoherent, NextCoherent, PTL DEF Spec

\* The cache can stand for the tables whenever a get() may be answered from it.
THEOREM Coherence == Spec => []CacheCoherent
<1> QED BY InitCoherent, NextCoherent, PTL DEF Spec

\* The order of the flush never breaks a foreign key (entityCache.ts:74-103).
THEOREM FlushOrderIsFkSafe == Spec => []FlushOrderFkSafe
<1> QED BY TypeCorrect, Coherence, FlushOrder, PTL

\* A handler run through the cache has the effect of the handler run directly
\* on the tables (entityCache.ts:165-200).
THEOREM Transparency == Spec => CacheTransparent
<1>1. ASSUME TypeOK, CacheCoherent, [Next]_vars
      PROVE  [pc = "handle" /\ pos' = pos + 1
                => View' = Apply(View, fetched[pos + 1], pos + 1)]_vars
  <2> SUFFICES ASSUME Next, pc = "handle", pos' = pos + 1
               PROVE  View' = Apply(View, fetched[pos + 1], pos + 1)
    BY <1>1
  <2>1. pos \in Nat
    BY <1>1 DEF TypeOK
  <2>2. Handle
    BY <2>1 DEF Next, Grow, Finalize, Fork, Process, BeginBatch, BeginFlush,
                FlushParents, FlushChildren, FlushClass, Commit, Fail, EndBatch
  <2>3. pos < Len(fetched) /\ work' = work /\ Dispatch(fetched[pos + 1])
    BY <2>2 DEF Handle
  <2>4. fetched[pos + 1] \in Event
    BY <1>1, <2>1, <2>3, ElementOfSeq, LenProperties DEF TypeOK
  <2> QED BY <1>1, <2>3, <2>4, HandlerStep DEF Coherent, CacheCoherent
<1> QED BY <1>1, TypeCorrect, Coherence, PTL DEF Spec, CacheTransparent

\* What is committed is what the handlers left in memory, all of it
\* (entityCache.ts:202-209).
THEOREM Faithfulness == Spec => FlushFaithful
<1> DEFINE Step == /\ pc \in {"parents", "children"} /\ pc' # "idle" => View' = View
                   /\ applied' # applied => db' = View /\ dirty = {}
<1>1. ASSUME TypeOK, CacheCoherent, [Next]_vars
      PROVE  [Step]_vars
  <2> SUFFICES ASSUME Next PROVE Step
    BY <1>1
  <2>0. Coherent
    BY <1>1 DEF Coherent, CacheCoherent
  <2>1. CASE Grow \/ Finalize \/ Fork
    <3>1. UNCHANGED <<work, cache, dirty, applied>>
      BY <2>1 DEF Grow, Finalize, Fork, batchVars
    <3> QED BY <3>1 DEF View, Upserted
  <2>2. CASE BeginBatch \/ Handle \/ BeginFlush
    BY <2>2 DEF BeginBatch, Handle, BeginFlush
  <2>3. ASSUME NEW from, NEW class \in {Parents, Children}, NEW to,
               FlushClass(from, class, to)
        PROVE  Step
    <3>1. /\ work' = Upserted(dirty \cap class) /\ dirty' = dirty \ class
          /\ cache' = cache /\ FkHolds(work') /\ applied' = applied
      BY <2>3 DEF FlushClass
    <3> QED BY <2>0, <3>1, FlushStep
  <2>4. CASE FlushParents \/ FlushChildren
    BY <2>3, <2>4 DEF FlushParents, FlushChildren
  <2>5. CASE Commit
    <3>1. /\ pc = "commit" /\ applied' = fetched
          /\ history' = [n \in 1 .. Len(fetched) |->
                           IF n < Len(fetched) /\ Agree(applied, fetched, n)
                           THEN Committed(n) ELSE work]
      BY <2>5 DEF Commit
    <3>2. fetched # <<>> /\ dirty = {} /\ work \in [Keys -> StoredRow]
      BY <1>1, <3>1 DEF CacheCoherent, TypeOK
    <3>3. Len(fetched) \in Nat \ {0}
      BY <1>1, <3>2, EmptySeq DEF TypeOK
    <3>4. db' = history'[Len(fetched)]
      BY <3>1, <3>3 DEF db, Committed
    <3>5. db' = work
      BY <3>1, <3>3, <3>4
    <3>6. View = work
      BY <3>2 DEF View, Upserted
    <3> QED BY <3>1, <3>2, <3>5, <3>6
  <2>6. CASE Fail
    BY <2>6 DEF Fail, EndBatch
  <2> QED BY <2>1, <2>2, <2>4, <2>5, <2>6 DEF Next, Process
<1> QED BY <1>1, TypeCorrect, Coherence, PTL DEF Spec, FlushFaithful
-----------------------------------------------------------------------------
(* The sequential run. *)

Steps == INSTANCE IndexerProofs WITH db <- db

\* The first n events of a sequence.
LEMMA PrefixFacts ==
  ASSUME NEW s \in Seq(Event), NEW n \in 0 .. Len(s)
  PROVE  /\ SubSeq(s, 1, n) \in Seq(Event)
         /\ Len(SubSeq(s, 1, n)) = n
         /\ \A i \in 1 .. n : SubSeq(s, 1, n)[i] = s[i]
BY Steps!PrefixFacts

LEMMA AgreeIsPrefix ==
  ASSUME NEW s \in Seq(Event), NEW t \in Seq(Event), NEW n \in Nat, Agree(s, t, n)
  PROVE  SubSeq(s, 1, n) = SubSeq(t, 1, n)
<1>1. n \in 0 .. Len(s) /\ n \in 0 .. Len(t) /\ \A i \in 1 .. n : s[i] = t[i]
  BY LenProperties DEF Agree
<1>2. /\ SubSeq(s, 1, n) \in Seq(Event) /\ SubSeq(t, 1, n) \in Seq(Event)
      /\ Len(SubSeq(s, 1, n)) = n /\ Len(SubSeq(t, 1, n)) = n
      /\ \A i \in 1 .. n : SubSeq(s, 1, n)[i] = SubSeq(t, 1, n)[i]
  BY <1>1, PrefixFacts
<1> QED BY <1>2, SeqEqual

\* The run over no event, and over one event more.
LEMMA RunStep ==
  ASSUME NEW s \in Seq(Event)
  PROVE  /\ Sequential!Run(SubSeq(s, 1, 0)) = EmptyTable
         /\ \A n \in 0 .. Len(s) - 1 :
               Sequential!Run(SubSeq(s, 1, n + 1))
                 = Apply(Sequential!Run(SubSeq(s, 1, n)), s[n + 1], n + 1)
         /\ SubSeq(s, 1, Len(s)) = s
<1>1. \A t : Sequential!Run(t) = Steps!Run(t)
  BY Zenon DEF Sequential!Run, Steps!Run
<1> QED BY <1>1, Steps!RunStep

-----------------------------------------------------------------------------
(* The refinement. *)

\* The rollback log is right wherever a fork
\* may still take the tables back to: it is the sequential run's, or the block
\* after it is final.
RollbackLogSound ==
  \A n \in 0 .. Len(applied) :
     \/ Committed(n) = Sequential!Run(SubSeq(applied, 1, n))
     \/ n < final /\ Agree(applied, chain, n + 1)

\* The transaction under way sees the sequential run of
\* what it has handled, over one block past the fork point or over blocks that
\* are all final.
BatchSound ==
  pc # "idle" =>
     /\ \A n \in 0 .. Len(applied) :
           IsForkPoint(applied, fetched, n)
             => Committed(n) = Sequential!Run(SubSeq(applied, 1, n))
     /\ ~ Agree(applied, fetched, Len(fetched))
     /\ \/ Agree(applied, fetched, Len(fetched) - 1)
        \/ Len(fetched) <= final /\ Agree(fetched, chain, Len(fetched))
     /\ pos <= Len(fetched) /\ (pc # "handle" => pos = Len(fetched))
     /\ View = Sequential!Run(SubSeq(fetched, 1, pos))

\* What the refinement needs of a reachable state besides the coherence of the
\* cache.
Reachable ==
  /\ final <= Len(chain)
  /\ RollbackLogSound
  /\ BatchSound

LEMMA AgreeFacts ==
  ASSUME NEW s \in Seq(Event), NEW t \in Seq(Event), NEW u \in Seq(Event), NEW n \in Nat
  PROVE  /\ \A k \in Nat : k <= n /\ Agree(s, t, n) => Agree(s, t, k)
         /\ Agree(s, t, n) => Agree(t, s, n)
         /\ Agree(s, t, n) /\ Agree(t, u, n) => Agree(s, u, n)
         /\ ~ Agree(s, t, Len(s) + 1) /\ ~ Agree(t, s, Len(s) + 1)
<1>1. Len(s) \in Nat /\ Len(t) \in Nat /\ Len(u) \in Nat
  BY LenProperties
<1> QED BY <1>1 DEF Agree

\* A batch is the first n blocks of the chain: it agrees with the tables as far
\* as the chain does.
LEMMA BatchAgrees ==
  ASSUME NEW s \in Seq(Event), NEW t \in Seq(Event), NEW n \in 1 .. Len(t)
  PROVE  /\ \A k \in 0 .. n : Agree(s, SubSeq(t, 1, n), k) <=> Agree(s, t, k)
         /\ Agree(SubSeq(t, 1, n), t, n)
<1>1. /\ Len(t) \in Nat /\ n \in 0 .. Len(t) /\ n \in Nat
  BY LenProperties
<1>2. /\ Len(SubSeq(t, 1, n)) = n
      /\ \A i \in 1 .. n : SubSeq(t, 1, n)[i] = t[i]
  BY <1>1, PrefixFacts
<1> QED BY <1>1, <1>2 DEF Agree

\* A prefix, as Indexer says it, is a chain agreed with to its end.
LEMMA PrefixAgrees ==
  ASSUME NEW s \in Seq(Event), NEW t \in Seq(Event)
  PROVE  Sequential!IsPrefix(s, t) => Agree(t, s, Len(s))
<1>1. Len(s) \in Nat /\ Len(t) \in Nat
  BY LenProperties
<1> SUFFICES ASSUME Len(s) <= Len(t), SubSeq(s, 1, Len(s)) = SubSeq(t, 1, Len(s))
             PROVE  Agree(t, s, Len(s))
  BY DEF Sequential!IsPrefix
<1>2. \A i \in 1 .. Len(s) : s[i] = t[i]
  BY <1>1, PrefixFacts
<1> QED BY <1>1, <1>2 DEF Agree

\* What the chain does keeps its finalized prefix.
LEMMA ChainKeepsFinal ==
  ASSUME TypeOK, final <= Len(chain), Grow \/ Finalize \/ Fork
  PROVE  /\ final <= final' /\ final' <= Len(chain')
         /\ \A s \in Seq(Event), k \in Nat :
               k <= final /\ Agree(s, chain, k) => Agree(s, chain', k)
<1>1. Len(chain) \in Nat /\ final \in Nat /\ chain \in Seq(Event)
  BY LenProperties DEF TypeOK
<1>2. CASE Grow
  <2>1. PICK ev \in Event : chain' = Append(chain, ev)
    BY <1>2 DEF Grow
  <2>2. Len(chain') = Len(chain) + 1 /\ \A i \in 1 .. Len(chain) : chain'[i] = chain[i]
    BY <1>1, <2>1, AppendProperties
  <2> QED BY <1>1, <1>2, <2>2 DEF Grow, Agree
<1>3. CASE Finalize
  BY <1>1, <1>3 DEF Finalize
<1>4. CASE Fork
  <2>1. PICK n \in final .. Len(chain) - 1, ev \in Event :
           chain' = Append(SubSeq(chain, 1, n), ev)
    BY <1>4 DEF Fork
  <2>2. n \in 0 .. Len(chain) /\ final <= n
    BY <1>1, <2>1
  <2>3. /\ SubSeq(chain, 1, n) \in Seq(Event) /\ Len(SubSeq(chain, 1, n)) = n
        /\ \A i \in 1 .. n : SubSeq(chain, 1, n)[i] = chain[i]
    BY <1>1, <2>2, PrefixFacts
  <2>4. Len(chain') = n + 1 /\ \A i \in 1 .. n : chain'[i] = chain[i]
    BY <2>1, <2>3, AppendProperties
  <2> QED BY <1>1, <1>4, <2>2, <2>4 DEF Fork, Agree
<1> QED BY <1>2, <1>3, <1>4, ChainTyped

IInv == TypeOK /\ CacheCoherent /\ Reachable

LEMMA InitReachable == Init => Reachable
<1> SUFFICES ASSUME Init PROVE Reachable
  OBVIOUS
<1>1. /\ chain = <<>> /\ applied = <<>> /\ final = 0 /\ pc = "idle"
      /\ <<>> \in Seq(Event) /\ Len(<<>>) = 0
  BY DEF Init
<1>2. Sequential!Run(SubSeq(<<>>, 1, 0)) = EmptyTable
  BY <1>1, RunStep
<1>3. \A n \in 0 .. Len(applied) : n = 0
  BY <1>1
<1>4. RollbackLogSound
  BY <1>1, <1>2, <1>3 DEF RollbackLogSound, Committed
<1> QED BY <1>1, <1>4 DEF Reachable, BatchSound

LEMMA NextReachable ==
  ASSUME IInv, [Next]_vars
  PROVE  Reachable'
<1>0. /\ TypeOK /\ CacheCoherent /\ Coherent
      /\ final <= Len(chain) /\ RollbackLogSound /\ BatchSound
  BY DEF IInv, Reachable, Coherent, CacheCoherent
<1>1. /\ chain \in Seq(Event) /\ fetched \in Seq(Event) /\ applied \in Seq(Event)
      /\ Len(chain) \in Nat /\ Len(fetched) \in Nat /\ Len(applied) \in Nat
      /\ final \in Nat /\ pos \in Nat
  BY <1>0, LenProperties DEF TypeOK
<1>2. CASE UNCHANGED vars
  BY <1>0, <1>2 DEF vars, Reachable, RollbackLogSound, BatchSound, Committed, Agree,
                    IsForkPoint, View, Upserted
<1>3. CASE Grow \/ Finalize \/ Fork
  <2>1. UNCHANGED <<applied, history, pc, pos, fetched, work, cache, dirty>>
    BY <1>3 DEF Grow, Finalize, Fork, batchVars
  <2>2. /\ final <= final' /\ final' <= Len(chain')
        /\ \A s \in Seq(Event), k \in Nat :
              k <= final /\ Agree(s, chain, k) => Agree(s, chain', k)
    BY <1>0, <1>3, ChainKeepsFinal
  <2>3. /\ final' \in Nat
        /\ View' = View
        /\ \A n : Committed(n)' = Committed(n)
    BY <1>1, <1>3, <2>1 DEF View, Upserted, Committed, Finalize, Grow, Fork
  <2>4. RollbackLogSound'
    <3> SUFFICES ASSUME NEW n \in 0 .. Len(applied)
                 PROVE  \/ Committed(n)' = Sequential!Run(SubSeq(applied, 1, n))
                        \/ n < final' /\ Agree(applied, chain', n + 1)
      BY <2>1 DEF RollbackLogSound
    <3>1. CASE Committed(n) = Sequential!Run(SubSeq(applied, 1, n))
      BY <2>3, <3>1
    <3>2. CASE n < final /\ Agree(applied, chain, n + 1)
      <4>1. n + 1 \in Nat /\ n + 1 <= final
        BY <1>1, <3>2
      <4>2. Agree(applied, chain', n + 1)
        BY <1>1, <2>2, <3>2, <4>1
      <4> QED BY <1>1, <2>2, <2>3, <3>2, <4>2
    <3> QED BY <1>0, <3>1, <3>2 DEF RollbackLogSound
  <2>5. BatchSound'
    <3>1. Len(fetched) <= final /\ Agree(fetched, chain, Len(fetched))
            => Len(fetched) <= final' /\ Agree(fetched, chain', Len(fetched))
      BY <1>1, <2>2, <2>3
    <3> QED BY <1>0, <2>1, <2>3, <3>1 DEF BatchSound
  <2> QED BY <2>2, <2>4, <2>5 DEF Reachable
<1>4. CASE BeginBatch
  <2>1. PICK base \in 0 .. Len(applied), n \in 1 .. Len(chain) :
           /\ IsForkPoint(applied, chain, base)
           /\ n > base
           /\ n = base + 1 \/ n <= final
           /\ fetched' = SubSeq(chain, 1, n)
           /\ pos' = base
           /\ work' = Committed(base)
    BY <1>4 DEF BeginBatch
  <2>2. /\ cache' = [k \in Keys |-> NotCached] /\ dirty' = {} /\ pc' = "handle"
        /\ UNCHANGED <<chain, final, forks, applied, history, crashes>>
    BY <1>4 DEF BeginBatch, chainVars
  <2>3. /\ base \in Nat /\ n \in Nat /\ base + 1 \in Nat /\ base <= n /\ base + 1 <= n
        /\ n \in 0 .. Len(chain)
    BY <1>1, <2>1
  <2>4. fetched' \in Seq(Event) /\ Len(fetched') = n
    BY <1>1, <2>1, <2>3, PrefixFacts
  <2>5. /\ \A k \in 0 .. n : Agree(applied, fetched', k) <=> Agree(applied, chain, k)
        /\ Agree(fetched', chain, n)
    BY <1>1, <2>1, BatchAgrees
  <2>6. Agree(applied, chain, base) /\ ~ Agree(applied, chain, base + 1)
    BY <2>1 DEF IsForkPoint
  <2>7. \A k \in Nat : k > base => ~ Agree(applied, chain, k)
    BY <1>1, <2>3, <2>6, AgreeFacts
  <2>8. \A m \in 0 .. Len(applied) : Committed(m)' = Committed(m)
    BY <2>2 DEF Committed
  <2>9. RollbackLogSound'
    BY <1>0, <2>2, <2>8 DEF RollbackLogSound
  <2>10. ASSUME NEW m \in 0 .. Len(applied), ~ Agree(applied, chain, m + 1)
         PROVE  Committed(m) = Sequential!Run(SubSeq(applied, 1, m))
    BY <1>0, <2>10 DEF RollbackLogSound
  <2>11. ASSUME NEW m \in 0 .. Len(applied), IsForkPoint(applied, fetched', m)
         PROVE  Committed(m)' = Sequential!Run(SubSeq(applied, 1, m))
    <3>1. m \in Nat /\ m + 1 \in Nat /\ m <= n
      BY <1>1, <2>4, <2>11 DEF IsForkPoint, Agree
    <3>2. Agree(applied, chain, m)
      BY <2>5, <2>11, <3>1 DEF IsForkPoint
    <3>3. m <= base
      BY <2>3, <2>7, <3>1, <3>2
    <3>4. m + 1 \in 0 .. n
      BY <2>3, <3>1, <3>3
    <3>5. ~ Agree(applied, chain, m + 1)
      BY <2>5, <2>11, <3>4 DEF IsForkPoint
    <3> QED BY <2>8, <2>10, <3>5
  <2>12. ~ Agree(applied, fetched', n)
    BY <2>3, <2>5, <2>7, n \in 0 .. n
  <2>13. \/ Agree(applied, fetched', n - 1)
         \/ n <= final /\ Agree(fetched', chain, n)
    <3>1. CASE n = base + 1
      <4>1. n - 1 = base /\ base \in 0 .. n
        BY <2>3, <3>1
      <4> QED BY <2>5, <2>6, <4>1
    <3> QED BY <2>1, <2>5, <3>1
  <2>14. View' = Sequential!Run(SubSeq(fetched', 1, base))
    <3>1. TableOK(work')
      BY <1>0, <2>1, CommittedOK
    <3>2. View' = Committed(base)
      BY <2>1, <2>2, <3>1, AllMissCoherent
    <3>3. Committed(base) = Sequential!Run(SubSeq(applied, 1, base))
      BY <2>6, <2>10
    <3>4. Agree(applied, fetched', base)
      BY <2>3, <2>5, <2>6
    <3>5. SubSeq(applied, 1, base) = SubSeq(fetched', 1, base)
      BY <1>1, <2>3, <2>4, <3>4, AgreeIsPrefix
    <3> QED BY <3>2, <3>3, <3>5
  <2>15. BatchSound'
    BY <2>1, <2>2, <2>3, <2>4, <2>11, <2>12, <2>13, <2>14 DEF BatchSound
  <2> QED BY <1>0, <2>2, <2>9, <2>15 DEF Reachable
<1>5. CASE Handle
  <2>1. /\ pc = "handle" /\ pc' = "handle" /\ pos < Len(fetched) /\ pos' = pos + 1
        /\ UNCHANGED <<chain, final, fetched, applied, history, work>>
        /\ Dispatch(fetched[pos + 1])
    BY <1>5 DEF Handle, chainVars
  <2>2. fetched[pos + 1] \in Event /\ pos \in 0 .. Len(fetched) - 1
    BY <1>1, <2>1, ElementOfSeq
  <2>3. View' = Apply(View, fetched[pos + 1], pos + 1)
    BY <1>0, <2>1, <2>2, HandlerStep
  <2>4. View = Sequential!Run(SubSeq(fetched, 1, pos))
    BY <1>0, <2>1 DEF BatchSound
  <2>5. View' = Sequential!Run(SubSeq(fetched, 1, pos + 1))
    BY <1>1, <2>2, <2>3, <2>4, RunStep
  <2>6. \A n : Committed(n)' = Committed(n)
    BY <2>1 DEF Committed
  <2>7. pos' <= Len(fetched)
    BY <1>1, <2>1
  <2> QED BY <1>0, <2>1, <2>5, <2>6, <2>7 DEF Reachable, RollbackLogSound, BatchSound
<1>6. CASE BeginFlush
  <2>1. /\ pc = "handle" /\ pc' = "parents" /\ pos = Len(fetched)
        /\ UNCHANGED <<chain, final, fetched, applied, history, pos, work, cache, dirty>>
    BY <1>6 DEF BeginFlush, chainVars, batchVars
  <2>2. View' = View /\ \A n : Committed(n)' = Committed(n)
    BY <2>1 DEF View, Upserted, Committed
  <2> QED BY <1>0, <2>1, <2>2 DEF Reachable, RollbackLogSound, BatchSound
<1>7. CASE FlushParents \/ FlushChildren
  <2>1. PICK class \in {Parents, Children} :
           /\ pc \in {"parents", "children"} /\ pc' \in {"children", "commit"}
           /\ work' = Upserted(dirty \cap class) /\ dirty' = dirty \ class /\ cache' = cache
           /\ FkHolds(work')
           /\ UNCHANGED <<chain, final, fetched, applied, history, pos>>
    BY <1>7 DEF FlushParents, FlushChildren, FlushClass, chainVars
  <2>2. View' = View
    BY <1>0, <2>1, FlushStep
  <2>3. \A n : Committed(n)' = Committed(n)
    BY <2>1 DEF Committed
  <2>4. pc # "idle" /\ pc # "handle" /\ pc' # "idle" /\ pc' # "handle"
    BY <2>1
  <2> QED BY <1>0, <2>1, <2>2, <2>3, <2>4 DEF Reachable, RollbackLogSound, BatchSound
<1>8. CASE Commit
  <2>1. /\ pc = "commit" /\ applied' = fetched /\ pc' = "idle"
        /\ history' = [n \in 1 .. Len(fetched) |->
                         IF n < Len(fetched) /\ Agree(applied, fetched, n)
                         THEN Committed(n) ELSE work]
        /\ UNCHANGED <<chain, final>>
    BY <1>8 DEF Commit, EndBatch, chainVars
  <2>2. work = Sequential!Run(SubSeq(fetched, 1, Len(fetched)))
    <3>1. dirty = {} /\ work \in [Keys -> StoredRow]
      BY <1>0, <2>1 DEF CacheCoherent, TypeOK
    <3>2. View = work
      BY <3>1 DEF View, Upserted
    <3> QED BY <1>0, <2>1, <3>2 DEF BatchSound
  <2>3. ASSUME NEW n \in 0 .. Len(fetched)
        PROVE  \/ Committed(n)' = Sequential!Run(SubSeq(fetched, 1, n))
               \/ n < final /\ Agree(fetched, chain, n + 1)
    <3>0. n \in Nat /\ n + 1 \in Nat /\ n <= Len(fetched)
      BY <1>1
    <3>1. CASE n = 0
      BY <1>1, <3>1, RunStep DEF Committed
    <3>2. CASE n # 0 /\ n = Len(fetched)
      <4>1. Committed(n)' = work
        BY <1>1, <2>1, <3>0, <3>2 DEF Committed
      <4> QED BY <2>2, <3>2, <4>1
    <3>3. CASE n # 0 /\ n < Len(fetched) /\ Agree(applied, fetched, n)
      <4>1. Committed(n)' = Committed(n)
        <5>1. Committed(n)' = history'[n] /\ n \in 1 .. Len(fetched)
          BY <1>1, <3>0, <3>3 DEF Committed
        <5> QED BY <2>1, <3>3, <5>1
      <4>2. n \in 0 .. Len(applied) /\ SubSeq(applied, 1, n) = SubSeq(fetched, 1, n)
        BY <1>1, <3>0, <3>3, AgreeIsPrefix DEF Agree
      <4>3. CASE IsForkPoint(applied, fetched, n)
        BY <1>0, <2>1, <4>1, <4>2, <4>3 DEF BatchSound
      <4>4. CASE Agree(applied, fetched, n + 1)
        <5>1. CASE n < final /\ Agree(applied, chain, n + 1)
          BY <1>1, <3>0, <4>4, <5>1, AgreeFacts
        <5> QED BY <1>0, <4>1, <4>2, <5>1 DEF RollbackLogSound
      <4> QED BY <3>3, <4>3, <4>4 DEF IsForkPoint
    <3>4. CASE n # 0 /\ n < Len(fetched) /\ ~ Agree(applied, fetched, n)
      <4>1. Len(fetched) - 1 \in Nat /\ n <= Len(fetched) - 1 /\ n + 1 <= Len(fetched)
        BY <1>1, <3>0, <3>4
      <4>2. ~ Agree(applied, fetched, Len(fetched) - 1)
        BY <1>1, <3>0, <3>4, <4>1, AgreeFacts
      <4>3. Len(fetched) <= final /\ Agree(fetched, chain, Len(fetched))
        BY <1>0, <2>1, <4>2 DEF BatchSound
      <4>4. Agree(fetched, chain, n + 1)
        BY <1>1, <3>0, <4>1, <4>3, AgreeFacts
      <4> QED BY <1>1, <3>0, <3>4, <4>3, <4>4
    <3> QED BY <3>0, <3>1, <3>2, <3>3, <3>4, <1>1
  <2>4. RollbackLogSound'
    BY <2>1, <2>3 DEF RollbackLogSound
  <2> QED BY <1>0, <2>1, <2>4 DEF Reachable, BatchSound
<1>9. CASE Fail
  <2>1. pc' = "idle" /\ UNCHANGED <<chain, final, applied, history>>
    BY <1>9 DEF Fail, EndBatch, chainVars
  <2>2. \A n : Committed(n)' = Committed(n)
    BY <2>1 DEF Committed
  <2> QED BY <1>0, <2>1, <2>2 DEF Reachable, RollbackLogSound, BatchSound
<1> QED BY <1>2, <1>3, <1>4, <1>5, <1>6, <1>7, <1>8, <1>9 DEF IInv, Next, Process

LEMMA Invariance == Spec => []IInv
<1>1. Init => IInv
  BY InitCoherent, InitReachable DEF IInv
<1>2. IInv /\ [Next]_vars => IInv'
  BY NextCoherent, NextReachable DEF IInv
<1> QED BY <1>1, <1>2, PTL DEF Spec

\* A step of the squid is a step of the sequential indexer, or none: a fetch
\* when a batch begins, its commit, its abort when it fails, and nothing while
\* the handlers and the flush work on the open transaction.
LEMMA StepImplements ==
  ASSUME IInv, [Next]_vars
  PROVE  [Sequential!Next]_(Sequential!vars)
<1>0. /\ TypeOK /\ CacheCoherent /\ BatchSound
      /\ chain \in Seq(Event) /\ fetched \in Seq(Event) /\ applied \in Seq(Event)
      /\ Len(chain) \in Nat /\ Len(fetched) \in Nat
  BY LenProperties DEF IInv, Reachable, TypeOK
<1> USE DEF Sequential!Next, Sequential!vars
<1>1. CASE Grow
  BY <1>1 DEF Grow, Sequential!Grow, batchVars, db, Committed
<1>2. CASE Finalize
  BY <1>2 DEF Finalize, Sequential!Finalize, batchVars, db, Committed
<1>3. CASE Fork
  BY <1>3 DEF Fork, Sequential!Fork, batchVars, db, Committed
<1>4. CASE BeginBatch
  <2>1. PICK base \in 0 .. Len(applied), n \in 1 .. Len(chain) :
           /\ IsForkPoint(applied, chain, base)
           /\ n > base
           /\ fetched' = SubSeq(chain, 1, n)
    BY <1>4 DEF BeginBatch
  <2>2. UNCHANGED <<chain, final, forks, applied, db>>
    BY <1>4 DEF BeginBatch, chainVars, db, Committed
  <2>3. ~ Sequential!IsPrefix(SubSeq(chain, 1, n), applied)
    <3>1. /\ n \in 0 .. Len(chain) /\ n \in Nat /\ base \in Nat
          /\ base + 1 \in Nat /\ base + 1 <= n
      BY <1>0, <2>1, LenProperties
    <3>2. SubSeq(chain, 1, n) \in Seq(Event) /\ Len(SubSeq(chain, 1, n)) = n
      BY <1>0, <3>1, PrefixFacts
    <3>3. ~ Agree(applied, chain, n)
      BY <1>0, <2>1, <3>1, AgreeFacts DEF IsForkPoint
    <3>4. ~ Agree(applied, SubSeq(chain, 1, n), n)
      BY <1>0, <3>1, <3>3, BatchAgrees, n \in 0 .. n
    <3> QED BY <1>0, <3>2, <3>4, PrefixAgrees
  <2> QED BY <2>1, <2>2, <2>3 DEF Sequential!Fetch
<1>5. CASE Handle \/ BeginFlush \/ FlushParents \/ FlushChildren \/ UNCHANGED vars
  BY <1>5 DEF Handle, BeginFlush, FlushParents, FlushChildren, FlushClass, chainVars,
              batchVars, vars, db, Committed
<1>6. CASE Commit
  <2>1. /\ pc = "commit" /\ applied' = fetched /\ fetched' = <<>>
        /\ history' = [n \in 1 .. Len(fetched) |->
                         IF n < Len(fetched) /\ Agree(applied, fetched, n)
                         THEN Committed(n) ELSE work]
        /\ UNCHANGED <<chain, final, forks>>
    BY <1>6 DEF Commit, EndBatch, chainVars
  <2>2. dirty = {} /\ work \in [Keys -> StoredRow] /\ Len(fetched) # 0
    BY <1>0, <2>1, EmptySeq DEF CacheCoherent, TypeOK
  <2>3. work = Sequential!Run(fetched)
    <3>1. View = work
      BY <2>2 DEF View, Upserted
    <3> QED BY <1>0, <2>1, <3>1, RunStep DEF BatchSound
  <2>4. db' = work
    BY <1>0, <2>1, <2>2 DEF db, Committed
  <2>5. ~ Sequential!IsPrefix(fetched, applied)
    BY <1>0, <2>1, PrefixAgrees DEF BatchSound
  <2> QED BY <2>1, <2>3, <2>4, <2>5 DEF Sequential!Commit
<1>7. CASE Fail
  BY <1>7 DEF Fail, EndBatch, chainVars, Sequential!Abort, db, Committed
<1> QED BY <1>1, <1>2, <1>3, <1>4, <1>5, <1>6, <1>7 DEF Next, Process

\* The squid implements the sequential indexer, whatever its batches, cache,
\* failures and forks (the run loop of every squid's main.ts over
\* entityCache.ts): the committed tables are those of the handlers run one
\* after the other over a chain that was canonical.
THEOREM Refinement == Spec => ImplementsIndexer
<1>1. Init => Sequential!Init
  BY DEF Init, Sequential!Init, db, Committed
<1> QED BY <1>1, Invariance, StepImplements, PTL DEF Spec, ImplementsIndexer, Sequential!Spec
=============================================================================
