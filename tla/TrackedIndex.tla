----------------------------- MODULE TrackedIndex -----------------------------
(***************************************************************************)
(* The tracked-address index of the pearl-transactions squid               *)
(* (squids/pearl-transactions/src/entityCache.ts): a copy of the           *)
(* TrackedAddress table that lives as long as the process, beside tables   *)
(* that a reorganisation rolls back and a failed transaction never keeps.  *)
(*                                                                         *)
(* A block has one log that matters here: it makes an address known        *)
(* (upsertTracked), asks for the role of one (tracked), or does neither.   *)
(***************************************************************************)
EXTENDS Naturals, Sequences

CONSTANTS Tracked,     \* the addresses
          Roles,
          NoRole,      \* an address that is not tracked
          MaxLen,      \* bound on the length of the chain
          MaxForks,    \* bound on the number of reorganisations
          MaxFailures  \* bound on the number of failed transactions

ASSUME TrackedIndexAssumption ==
  /\ NoRole \notin Roles
  /\ MaxLen \in Nat /\ MaxForks \in Nat /\ MaxFailures \in Nat

Block == [op : {"track"}, address : Tracked, role : Roles]
       \cup [op : {"look"}, address : Tracked]
       \cup [op : {"other"}]

\* The TrackedAddress table, and the roles that the rows written by the handlers
\* of transfers rest on.
Rows == [Tracked -> Roles \cup {NoRole}]
Tables == [rows : Rows, answers : Seq(Roles \cup {NoRole})]
NoTables == [rows |-> [a \in Tracked |-> NoRole], answers |-> <<>>]

VARIABLES
  chain, final, forks,       \* the canonical chain
  applied, history,          \* committed: the blocks, and the tables after each
  pc, fetched, head,         \* the transaction: its blocks, how many are final
  trail, flushed, work,      \* tables after each block, those flushed, the last
  index, built,              \* trackedIndexSingleton, and its builtThroughBlock
  failures

indexChain == <<chain, final, forks>>
dbVars == <<applied, history>>
txVars == <<fetched, head, trail, flushed, work>>
indexVars == <<indexChain, dbVars, pc, txVars, index, built, failures>>

After(tables, n) == IF n = 0 THEN NoTables ELSE tables[n]
db == After(history, Len(applied))

\* The block being handled, and the last one of the call it belongs to: a call
\* gets all the blocks that are final, or else one hot block.
Current == Len(trail) + 1
CallEnd == IF head <= flushed THEN flushed + 1
           ELSE IF head < Len(fetched) THEN head ELSE Len(fetched)

NotLoaded == [loaded |-> FALSE, rows |-> NoTables.rows]

IndexTypeOK ==
  /\ chain \in Seq(Block) /\ applied \in Seq(Block) /\ fetched \in Seq(Block)
  /\ final \in Nat /\ forks \in Nat /\ failures \in Nat /\ head \in Nat
  /\ history \in Seq(Tables) /\ Len(history) = Len(applied)
  /\ pc \in {"idle", "new", "logs", "flush", "commit"}
  /\ trail \in Seq(Tables) /\ flushed \in 0 .. Len(trail) /\ work \in Tables
  /\ index \in [loaded : BOOLEAN, rows : Rows] /\ built \in Nat

IndexInit ==
  /\ chain = <<>> /\ final = 0 /\ forks = 0
  /\ applied = <<>> /\ history = <<>>
  /\ pc = "idle" /\ fetched = <<>> /\ head = 0
  /\ trail = <<>> /\ flushed = 0 /\ work = NoTables
  /\ index = NotLoaded /\ built = 0
  /\ failures = 0

-----------------------------------------------------------------------------
(* The chain (external). *)

Grow ==
  /\ Len(chain) < MaxLen
  /\ \E block \in Block : chain' = Append(chain, block)
  /\ UNCHANGED <<final, forks, dbVars, pc, txVars, index, built, failures>>

Finalize ==
  /\ final < Len(chain)
  /\ final' = final + 1
  /\ UNCHANGED <<chain, forks, dbVars, pc, txVars, index, built, failures>>

Fork ==
  /\ forks < MaxForks
  /\ \E n \in final .. Len(chain) - 1, block \in Block :
        /\ block # chain[n + 1]
        /\ chain' = Append(SubSeq(chain, 1, n), block)
  /\ forks' = forks + 1
  /\ UNCHANGED <<final, dbVars, pc, txVars, index, built, failures>>

-----------------------------------------------------------------------------
(* The index. *)

\* ensureTrackedIndex: the table as the transaction has it, which is without
\* the rows of the call under way.  There are none: upsertTracked comes here
\* before it writes one.
Loaded == IF index.loaded THEN index.rows ELSE After(trail, flushed).rows

Indexed(rows) == [loaded |-> TRUE, rows |-> rows]

\* Mutant: an index that is there is trusted.
NewCacheTrusting == UNCHANGED <<index, built>>

\* The constructor of EntityCache: a batch that starts at a block indexed before
\* means that the tables were rolled back.
NewCacheIndex ==
  IF index.loaded /\ Current <= built
  THEN index' = NotLoaded /\ built' = 0
  ELSE UNCHANGED <<index, built>>

\* Mutant: the row is written again with the later role.
TrackOverwriting(address, role) ==
  /\ work' = [work EXCEPT !.rows[address] = role]
  /\ index' = Indexed([Loaded EXCEPT ![address] = role])

\* upsertTracked: the first role of an address is the one it keeps.
Track(address, role) ==
  IF Loaded[address] # NoRole
  THEN /\ index' = Indexed(Loaded)
       /\ UNCHANGED work
  ELSE /\ work' = [work EXCEPT !.rows[address] = role]
       /\ index' = Indexed([Loaded EXCEPT ![address] = role])

\* tracked, for a handler that writes a row by its answer.
Look(address) ==
  /\ work' = [work EXCEPT !.answers = Append(@, Loaded[address])]
  /\ index' = Indexed(Loaded)

Dispatch(block) ==
  \/ /\ block.op = "track"
     /\ Track(block.address, block.role)
  \/ /\ block.op = "look"
     /\ Look(block.address)
  \/ /\ block.op = "other"
     /\ UNCHANGED <<work, index>>

-----------------------------------------------------------------------------
(* The run loop. *)

Agree(s, t, n) == n <= Len(s) /\ n <= Len(t) /\ \A i \in 1 .. n : s[i] = t[i]
IsForkPoint(s, t, n) == Agree(s, t, n) /\ ~ Agree(s, t, n + 1)

\* The SDK opens a transaction on new blocks, and rolls the tables back to the
\* last of them that it has already.
BeginTransaction ==
  /\ pc = "idle"
  /\ \E base \in 0 .. Len(applied), n \in 1 .. Len(chain) :
        /\ IsForkPoint(applied, chain, base)
        /\ n > base
        /\ fetched' = SubSeq(chain, 1, n)
        /\ trail' = SubSeq(history, 1, base)
        /\ flushed' = base
        /\ work' = After(history, base)
  /\ head' = final
  /\ pc' = "new"
  /\ UNCHANGED <<indexChain, dbVars, index, built, failures>>

\* A call of the batch handler begins with a cache of its own.
NewCache ==
  /\ pc = "new"
  /\ NewCacheIndex
  /\ pc' = "logs"
  /\ UNCHANGED <<indexChain, dbVars, txVars, failures>>

HandleBlock ==
  /\ pc = "logs"
  /\ Dispatch(fetched[Current])
  /\ trail' = Append(trail, work')
  /\ pc' = IF Current < CallEnd THEN "logs" ELSE "flush"
  /\ UNCHANGED <<indexChain, dbVars, fetched, head, flushed, built, failures>>

\* builtThroughBlock after flush().
BuiltThrough == IF index.loaded THEN Len(trail) ELSE built

\* cache.flush() ends the call; the SDK makes another one for the next hot block.
Flush ==
  /\ pc = "flush"
  /\ flushed' = Len(trail)
  /\ built' = BuiltThrough
  /\ pc' = IF Len(trail) < Len(fetched) THEN "new" ELSE "commit"
  /\ UNCHANGED <<indexChain, dbVars, fetched, head, trail, work, index, failures>>

EndTransaction ==
  /\ pc' = "idle" /\ fetched' = <<>> /\ head' = 0
  /\ trail' = <<>> /\ flushed' = 0 /\ work' = NoTables

Commit ==
  /\ pc = "commit"
  /\ applied' = fetched
  /\ history' = trail
  /\ EndTransaction
  /\ UNCHANGED <<indexChain, index, built, failures>>

\* A failed transaction ends the process: under READ COMMITTED (main.ts) none
\* fails to serialize, which is the only failure that the SDK tries again.
Restart ==
  /\ pc # "idle" /\ failures < MaxFailures
  /\ failures' = failures + 1
  /\ EndTransaction
  /\ index' = NotLoaded /\ built' = 0
  /\ UNCHANGED <<indexChain, dbVars>>

IndexNext == Grow \/ Finalize \/ Fork \/ BeginTransaction \/ NewCache \/ HandleBlock \/ Flush
        \/ Commit \/ Restart

IndexSpec == IndexInit /\ [][IndexNext]_indexVars

-----------------------------------------------------------------------------
(* Properties. *)

\* "It is safe to carry across batches because TrackedAddress is write-once and
\* only ever grows - EXCEPT across a chain reorg" (entityCache.ts:93-101): when
\* a handler may ask the index, it answers as the rolled-back table and the rows
\* of the open transaction would; between transactions it is the table, unless
\* the next batch is bound to drop it.
IndexIsTable ==
  /\ IndexTypeOK
  /\ pc \in {"logs", "flush", "commit"} /\ index.loaded => index.rows = work.rows
  /\ pc = "idle" /\ index.loaded => index.rows = db.rows /\ built = Len(applied)
  /\ pc = "new" /\ index.loaded => Current <= built \/ index.rows = work.rows

\* The handlers without an index, directly on the tables.
RunBlock(tables, block, n) ==
  CASE block.op = "track" /\ tables.rows[block.address] = NoRole ->
         [tables EXCEPT !.rows[block.address] = block.role]
    [] block.op = "look" ->
         [tables EXCEPT !.answers = Append(@, tables.rows[block.address])]
    [] OTHER -> tables

Squid == INSTANCE Indexer
           WITH Event <- Block, EmptyTable <- NoTables, Apply <- RunBlock, db <- db

\* The index is invisible: the committed tables are those of handlers that ask
\* the table itself, over a chain that was canonical (entityCache.ts:93-101).
ImplementsTable == Squid!Spec
=============================================================================
