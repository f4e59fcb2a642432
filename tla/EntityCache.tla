---------------------------- MODULE EntityCache ----------------------------
(***************************************************************************)
(* One squid's run loop: per batch a fresh EntityCache over the store, the *)
(* handlers reading through it, and at the end a flush in FLUSH_ORDER      *)
(* inside the SDK's transaction (squids/_shared/src/entityCache.ts and the *)
(* main.ts of every squid).                                                *)
(*                                                                         *)
(* The database, its transaction and its hot-block rollback log are the    *)
(* SDK's (TypeormDatabase with supportHotBlocks): `history` holds the      *)
(* tables after each committed block, the rollback log's effect.           *)
(***************************************************************************)
EXTENDS Rows

CONSTANTS MaxLen,      \* bound on the length of the chain
          MaxForks,    \* bound on the number of reorganisations
          MaxCrashes   \* bound on the number of failed batches

ASSUME EntityCacheAssumption ==
  MaxLen \in Nat /\ MaxForks \in Nat /\ MaxCrashes \in Nat

VARIABLES chain, final, forks, fetched,  \* as in Indexer
          applied,   \* the chain the committed tables reflect
          history,   \* history[n]: the committed tables after n blocks of it
          pc,        \* what the processor is doing
          pos,       \* events of `fetched` handled or committed
          work,      \* the tables as the open transaction sees them
          cache,     \* EntityCache.cache: per key a row, a known miss, or nothing
          dirty,     \* EntityCache.dirty: the keys set() since the last flush
          crashes    \* failed batches so far

chainVars == <<chain, final, forks>>
batchVars == <<fetched, work, cache, dirty>>
vars == <<chain, final, forks, fetched, applied, history, pc, pos, work,
          cache, dirty, crashes>>

NotCached == [hist |-> <<>>, link |-> UNLOADED]

\* The tables after the n-th block of `applied`.
Committed(n) == IF n = 0 THEN EmptyTable ELSE history[n]
db == Committed(Len(applied))

Agree(s, t, n) == n <= Len(s) /\ n <= Len(t) /\ \A i \in 1 .. n : s[i] = t[i]
IsForkPoint(s, t, n) == Agree(s, t, n) /\ ~ Agree(s, t, n + 1)

TypeOK ==
  /\ chain \in Seq(Event) /\ fetched \in Seq(Event) /\ applied \in Seq(Event)
  /\ final \in Nat /\ forks \in Nat /\ crashes \in Nat /\ pos \in Nat
  /\ pc \in {"idle", "handle", "parents", "children", "commit"}
  /\ history \in Seq([Keys -> StoredRow]) /\ Len(history) = Len(applied)
  /\ work \in [Keys -> StoredRow]
  /\ cache \in [Keys -> MemoryRow]
  /\ dirty \in SUBSET Keys

Init ==
  /\ chain = <<>> /\ final = 0 /\ forks = 0
  /\ fetched = <<>> /\ applied = <<>> /\ history = <<>>
  /\ pc = "idle" /\ pos = 0
  /\ work = EmptyTable
  /\ cache = [k \in Keys |-> NotCached] /\ dirty = {}
  /\ crashes = 0

-----------------------------------------------------------------------------
(* The chain (external). *)

Grow ==
  /\ Len(chain) < MaxLen
  /\ \E ev \in Event : chain' = Append(chain, ev)
  /\ UNCHANGED <<final, forks, applied, history, pc, pos, crashes, batchVars>>

Finalize ==
  /\ final < Len(chain)
  /\ final' = final + 1
  /\ UNCHANGED <<chain, forks, applied, history, pc, pos, crashes, batchVars>>

Fork ==
  /\ forks < MaxForks
  /\ \E n \in final .. Len(chain) - 1, ev \in Event :
        /\ ev # chain[n + 1]
        /\ chain' = Append(SubSeq(chain, 1, n), ev)
  /\ forks' = forks + 1
  /\ UNCHANGED <<final, applied, history, pc, pos, crashes, batchVars>>

-----------------------------------------------------------------------------
(* The cache.  A row object whose link property is UNLOADED was read by    *)
(* store.get(), which loads no relation, or was created without setting    *)
(* it.  Only child rows have a relation to load.                           *)

\* What the store returns for a key, with or without the relation.
FromStore(k, withLink) ==
  IF k \in Children /\ ~ withLink /\ Exists(work[k])
  THEN [work[k] EXCEPT !.link = UNLOADED]
  ELSE work[k]

\* Mutant: a hit is trusted whatever relations are asked for.
TrustedWithoutRelations(k, withLink) == cache[k] # NotCached

\* Does the bucket answer for this key?  A hit is trusted only if it is a
\* known miss or every relation asked for is loaded.
Trusted(k, withLink) ==
  /\ cache[k] # NotCached
  /\ \/ ~ Exists(cache[k])
     \/ ~ withLink
     \/ cache[k].link # UNLOADED

\* Mutant: a store read replaces a dirty object.
GetReplacingDirty(k, withLink) ==
  IF Trusted(k, withLink) THEN cache[k] ELSE FromStore(k, withLink)

\* The object get() returns.  A dirty object is never replaced by a read.
Get(k, withLink) ==
  IF Trusted(k, withLink) \/ k \in dirty THEN cache[k]
  ELSE FromStore(k, withLink)

\* The buckets after get() of key k and set() of the rows in `sets`.
AfterGet(k, withLink) == [cache EXCEPT ![k] = Get(k, withLink)]

Set(buckets, k, row) == [buckets EXCEPT ![k] = row]

\* `?? new X({id})`: a fresh child object has its link property undefined.
OrNew(row, k) ==
  IF Exists(row) THEN row
  ELSE [hist |-> <<>>, link |-> IF k \in Children THEN UNLOADED ELSE NULL]

-----------------------------------------------------------------------------
(* The handlers: the number of the event they handle is pos + 1. *)

Touch(p) ==
  /\ cache' = Set(cache, p, Write(OrNew(Get(p, FALSE), p), pos + 1))
  /\ dirty' = dirty \cup {p}

Create(c) ==
  /\ cache' = Set(cache, c, Write(OrNew(Get(c, TRUE), c), pos + 1))
  /\ dirty' = dirty \cup {c}

Link(c, p) ==
  /\ cache' = Set(Set(cache,
                      p, Write(OrNew(Get(p, FALSE), p), pos + 1)),
                  c, [Write(OrNew(Get(c, TRUE), c), pos + 1) EXCEPT !.link = p])
  /\ dirty' = dirty \cup {c, p}

Peek(c, p) ==
  IF Exists(Get(c, FALSE))
  THEN /\ cache' = Set(AfterGet(c, FALSE),
                       p, Write(OrNew(Get(p, FALSE), p), pos + 1))
       /\ dirty' = dirty \cup {p}
  ELSE /\ cache' = AfterGet(c, FALSE)
       /\ UNCHANGED dirty

Follow(c) ==
  LET link == Get(c, TRUE).link
  IN IF link \in Parents
     THEN /\ cache' = Set(AfterGet(c, TRUE),
                          link, Write(OrNew(Get(link, FALSE), link), pos + 1))
          /\ dirty' = dirty \cup {link}
     ELSE /\ cache' = AfterGet(c, TRUE)
          /\ UNCHANGED dirty

Amend(c, p) ==
  LET row == Get(c, FALSE)
  IN /\ cache' = Set(Set(cache,
                         p, Write(OrNew(Get(p, FALSE), p), pos + 1)),
                     c, IF Exists(row) THEN Write(row, pos + 1)
                        ELSE [Write(OrNew(row, c), pos + 1) EXCEPT !.link = p])
     /\ dirty' = dirty \cup {c, p}

Dispatch(ev) ==
  \/ /\ ev.op = "touch"
     /\ Touch(ev.p)
  \/ /\ ev.op = "create"
     /\ Create(ev.c)
  \/ /\ ev.op = "link"
     /\ Link(ev.c, ev.p)
  \/ /\ ev.op = "peek"
     /\ Peek(ev.c, ev.p)
  \/ /\ ev.op = "follow"
     /\ Follow(ev.c)
  \/ /\ ev.op = "amend"
     /\ Amend(ev.c, ev.p)

-----------------------------------------------------------------------------
(* The run loop. *)

\* Mutant: the tables are not rolled back to the fork point.
BeginBatchNoRollback ==
  /\ pc = "idle"
  /\ \E base \in 0 .. Len(applied), n \in 1 .. Len(chain) :
        /\ IsForkPoint(applied, chain, base)
        /\ n > base
        /\ n = base + 1 \/ n <= final
        /\ fetched' = SubSeq(chain, 1, n)
        /\ pos' = base
        /\ work' = db
  /\ cache' = [k \in Keys |-> NotCached] /\ dirty' = {}
  /\ pc' = "handle"
  /\ UNCHANGED <<chainVars, applied, history, crashes>>

\* The SDK opens a transaction for the next blocks, first rolling the tables
\* back to the fork point; finalized blocks come in ranges, hot ones singly.
\* The batch handler starts with a fresh cache.
BeginBatch ==
  /\ pc = "idle"
  /\ \E base \in 0 .. Len(applied), n \in 1 .. Len(chain) :
        /\ IsForkPoint(applied, chain, base)
        /\ n > base
        /\ n = base + 1 \/ n <= final
        /\ fetched' = SubSeq(chain, 1, n)
        /\ pos' = base
        /\ work' = Committed(base)
  /\ cache' = [k \in Keys |-> NotCached] /\ dirty' = {}
  /\ pc' = "handle"
  /\ UNCHANGED <<chainVars, applied, history, crashes>>

\* The next log of the batch is dispatched.
Handle ==
  /\ pc = "handle" /\ pos < Len(fetched)
  /\ Dispatch(fetched[pos + 1])
  /\ pos' = pos + 1
  /\ UNCHANGED <<chainVars, fetched, applied, history, pc, work, crashes>>

\* cache.flush() begins once every block is done.
BeginFlush ==
  /\ pc = "handle" /\ pos = Len(fetched)
  /\ pc' = "parents"
  /\ UNCHANGED <<chainVars, batchVars, applied, history, pos, crashes>>

\* Mutant: an undefined column is written as NULL.
UpsertedNulling(bucket) ==
  [k \in Keys |->
     IF k \notin bucket THEN work[k]
     ELSE IF cache[k].link = UNLOADED THEN [cache[k] EXCEPT !.link = NULL]
     ELSE cache[k]]

\* upsert() leaves out the columns that are undefined: a link that was never
\* loaded keeps its stored value.
Upserted(bucket) ==
  [k \in Keys |->
     IF k \notin bucket THEN work[k]
     ELSE IF cache[k].link = UNLOADED THEN [cache[k] EXCEPT !.link = work[k].link]
     ELSE cache[k]]

\* Postgres refuses a row whose foreign key names no row.
FkHolds(table) ==
  \A k \in Keys : table[k].link # NULL => Exists(table[table[k].link])

\* One step of flush: the dirty rows of one class, then the next class.
FlushClass(from, class, to) ==
  /\ pc = from
  /\ FkHolds(Upserted(dirty \cap class))
  /\ work' = Upserted(dirty \cap class)
  /\ dirty' = dirty \ class
  /\ pc' = to
  /\ UNCHANGED <<chainVars, fetched, applied, history, pos, cache, crashes>>

\* Mutants: the referencing class first; a class missing from FLUSH_ORDER.
FlushChildrenFirst == FlushClass("parents", Children, "children")
FlushNoParents     == FlushClass("parents", {}, "children")
FlushNoChildren    == FlushClass("children", {}, "commit")

FlushParents  == FlushClass("parents", Parents, "children")
FlushChildren == FlushClass("children", Children, "commit")

\* Nothing in memory outlives the batch handler's call.
EndBatch ==
  /\ pc' = "idle" /\ pos' = 0 /\ fetched' = <<>>
  /\ work' = EmptyTable
  /\ cache' = [k \in Keys |-> NotCached] /\ dirty' = {}

\* Mutant: the rollback log is not cut at the fork point.
CommitKeepingForked ==
  /\ pc = "commit"
  /\ applied' = fetched
  /\ history' = Append(history, work)
  /\ EndBatch
  /\ UNCHANGED <<chainVars, crashes>>

\* The handler returned: the SDK commits the tables and its cursor.
Commit ==
  /\ pc = "commit"
  /\ applied' = fetched
  /\ history' = [n \in 1 .. Len(fetched) |->
                   IF n < Len(fetched) /\ Agree(applied, fetched, n)
                   THEN Committed(n) ELSE work]
  /\ EndBatch
  /\ UNCHANGED <<chainVars, crashes>>

\* Any await of the batch may throw (RPC, Postgres, a handler's own check) or
\* the process may die: the transaction is rolled back, memory is lost.
Fail ==
  /\ pc # "idle" /\ crashes < MaxCrashes
  /\ crashes' = crashes + 1
  /\ EndBatch
  /\ UNCHANGED <<chainVars, applied, history>>

Process == BeginBatch \/ Handle \/ BeginFlush \/ FlushParents
           \/ FlushChildren \/ Commit

Next == Grow \/ Finalize \/ Fork \/ Process \/ Fail

\* The processor loop always takes its next step; the chain owes nothing.
Spec == Init /\ [][Next]_vars /\ WF_vars(Process)

-----------------------------------------------------------------------------
(* Properties. *)

\* The tables as they would be were the cache flushed now.
View == Upserted(dirty)

\* A table Postgres can hold: foreign keys name rows, only children have one,
\* and a row nobody wrote is not there.
TableOK(table) ==
  /\ table \in [Keys -> StoredRow]
  /\ FkHolds(table)
  /\ \A p \in Parents : table[p].link = NULL
  /\ \A k \in Keys : Exists(table[k]) \/ table[k] = AbsentRow

\* Outside a dirty key, an object in the bucket is what the transaction would
\* read back: at most its relation is missing.
CleanCoherent ==
  \A k \in Keys \ dirty :
     cache[k] = NotCached \/ \E b \in BOOLEAN : cache[k] = FromStore(k, b)

\* A dirty object is a written row; its relation is missing only if the row is
\* new or no handler reads it, so that none takes a stored link for an absent
\* one.
DirtyCoherent ==
  \A k \in dirty :
     /\ Exists(cache[k])
     /\ cache[k].link = UNLOADED
          => k \in Children /\ (k \in Partial \/ work[k] = AbsentRow)
     /\ k \in Parents => cache[k].link = NULL

\* The cache between two awaits (entityCache.ts:148-219): what it holds can
\* stand for the tables at any time a get() may be answered from memory.
CacheCoherent ==
  /\ TableOK(work) /\ TableOK(View)
  /\ \A n \in 1 .. Len(history) : TableOK(history[n])
  /\ CleanCoherent
  /\ DirtyCoherent
  /\ pc \in {"children", "commit", "idle"} => dirty \subseteq Children
  /\ pc \in {"commit", "idle"} => dirty = {}
  /\ pc # "idle" => fetched # <<>>

\* Handling one event through the cache has the effect the handler has when it
\* reads and writes the tables directly, whatever was cached, dirty or
\* half-loaded before: no lost update, no stale read, no link read as missing.
CacheTransparent ==
  [][pc = "handle" /\ pos' = pos + 1
       => View' = Apply(View, fetched[pos + 1], pos + 1)]_vars

\* A flush writes what the handlers left in memory, no class after the other
\* changes the outcome, and only when all of it is written are the tables
\* committed.
FlushFaithful ==
  [][/\ pc \in {"parents", "children"} /\ pc' # "idle" => View' = View
     /\ applied' # applied => db' = View /\ dirty = {}]_vars

\* Whatever FLUSH_ORDER writes next, Postgres accepts: the parents a child
\* links to are in the tables before it.
FlushOrderFkSafe ==
  /\ pc = "parents"  => FkHolds(Upserted(dirty \cap Parents))
  /\ pc = "children" => FkHolds(Upserted(dirty \cap Children))

\* Once the chain stops changing and batches stop failing, the committed
\* tables reach its head.
CatchesUp == <>[](applied = chain)

\* The squid implements the sequential indexer: every committed table is the
\* result of the handlers run one by one over a chain that was canonical.
Sequential == INSTANCE Indexer WITH db <- db

ImplementsIndexer == Sequential!Spec

=============================================================================
