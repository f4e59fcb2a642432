------------------------------ MODULE SafeLogs ------------------------------
(***************************************************************************)
(* The service-registry squid's stand-in for graph-node's GnosisSafe       *)
(* template: every Safe execution log of the chain is streamed, and        *)
(* BlockSafeLogs (squids/service-registry/src/safeLogs.ts) decides which   *)
(* are handled and when, from the Multisig rows and from a set of known    *)
(* multisigs that outlives batches, rollbacks and retries                  *)
(* (squids/service-registry/src/entityCache.ts).                           *)
(*                                                                         *)
(* A transaction of the SDK covers several calls of the batch handler: one *)
(* for the blocks that are final, then one per hot block.  The entity      *)
(* cache is left out: EntityCacheProofs shows that it is invisible.        *)
(***************************************************************************)
EXTENDS Naturals, Sequences

CONSTANTS Safes,        \* addresses of Safes, ours or foreign
          Orphans,      \* those registered for a service that has no row
          MaxLogs,      \* bound on the logs of a block
          MaxLen,       \* bound on the number of blocks of the chain
          MaxForks,     \* bound on the number of reorganisations
          MaxFailures   \* bound on the number of failed transactions

ASSUME SafeLogsAssumption ==
  /\ Orphans \subseteq Safes
  /\ MaxLogs \in Nat /\ MaxLen \in Nat /\ MaxForks \in Nat /\ MaxFailures \in Nat

VARIABLES chain,    \* the canonical chain: a sequence of blocks
          final,    \* length of its finalized prefix
          forks,    \* reorganisations so far
          applied,  \* the chain the committed tables reflect
          history,  \* history[n]: the committed tables after n blocks of it
          pc,       \* what the processor is doing
          fetched,  \* the chain the open transaction works on
          head,     \* the finalized head when it was opened
          trail,    \* the tables after each block handled, as history
          flushed,  \* how many of those are flushed to the transaction
          work,     \* the tables as the handlers see them
          idx,      \* logs handled in the current block
          fresh,    \* BlockSafeLogs.fresh
          parked,   \* BlockSafeLogs.parked
          known,    \* knownMultisigSingleton
          failures  \* failed transactions so far

chainVars == <<chain, final, forks>>
dbVars    == <<applied, history>>
txVars    == <<fetched, head, trail, flushed>>
vars == <<chain, final, forks, applied, history, pc, fetched, head, trail,
          flushed, work, idx, fresh, parked, known, failures>>

\* CreateMultisigWithAgents of a service that has a row, or of one that has
\* none ("orphan"), and ExecutionSuccess or ExecutionFromModuleSuccess.
Log   == [op : {"create", "exec"}, safe : Safes] \cup [op : {"orphan"}, safe : Orphans]
Block == UNION {[1 .. n -> Log] : n \in 1 .. MaxLogs}

\* The Multisig rows, and the Safe logs handled so far, by block and log number.
LogId  == Nat \X Nat
Tables == [rows : SUBSET Safes, handled : Seq(LogId)]
NoTables == [rows |-> {}, handled |-> <<>>]

\* The tables after the n-th of a sequence of blocks.
After(tables, n) == IF n = 0 THEN NoTables ELSE tables[n]
db == After(history, Len(applied))

\* The block being handled, and the one the call of the handler ends with: a
\* call gets all blocks that are final, or else one hot block.
Current == Len(trail) + 1
CallEnd == IF head <= flushed THEN flushed + 1
           ELSE IF head < Len(fetched) THEN head ELSE Len(fetched)

TypeOK ==
  /\ chain \in Seq(Seq(Log)) /\ applied \in Seq(Seq(Log)) /\ fetched \in Seq(Seq(Log))
  /\ final \in Nat /\ forks \in Nat /\ failures \in Nat
  /\ pc \in {"idle", "logs", "parked", "flush", "commit"}
  /\ history \in Seq(Tables) /\ Len(history) = Len(applied)
  /\ trail \in Seq(Tables) /\ flushed \in 0 .. Len(trail)
  /\ head \in Nat
  /\ work \in Tables
  /\ idx \in Nat
  /\ fresh \in SUBSET Safes
  /\ pc \in {"idle", "flush", "commit"} => fresh = {} /\ parked = <<>>
  /\ parked \in Seq([id : LogId, safe : Safes])
  /\ known \in [loaded : BOOLEAN, addresses : SUBSET Safes]

NotLoaded == [loaded |-> FALSE, addresses |-> {}]

Init ==
  /\ chain = <<>> /\ final = 0 /\ forks = 0
  /\ applied = <<>> /\ history = <<>>
  /\ pc = "idle" /\ fetched = <<>> /\ head = 0 /\ trail = <<>> /\ flushed = 0
  /\ work = NoTables
  /\ idx = 0 /\ fresh = {} /\ parked = <<>>
  /\ known = NotLoaded
  /\ failures = 0

-----------------------------------------------------------------------------
(* The chain (external). *)

Grow ==
  /\ Len(chain) < MaxLen
  /\ \E block \in Block : chain' = Append(chain, block)
  /\ UNCHANGED <<final, forks, dbVars, pc, txVars, work, idx, fresh, parked, known, failures>>

Finalize ==
  /\ final < Len(chain)
  /\ final' = final + 1
  /\ UNCHANGED <<chain, forks, dbVars, pc, txVars, work, idx, fresh, parked, known, failures>>

Fork ==
  /\ forks < MaxForks
  /\ \E n \in final .. Len(chain) - 1, block \in Block :
        /\ block # chain[n + 1]
        /\ chain' = Append(SubSeq(chain, 1, n), block)
  /\ forks' = forks + 1
  /\ UNCHANGED <<final, dbVars, pc, txVars, work, idx, fresh, parked, known, failures>>

-----------------------------------------------------------------------------
(* The known-multisig set: loaded on first use from the Multisig table as    *)
(* the transaction has it, without what the current call has not flushed.    *)

Loaded ==
  IF known.loaded THEN known.addresses ELSE After(trail, flushed).rows

Remember(addresses) == [loaded |-> TRUE, addresses |-> addresses]

-----------------------------------------------------------------------------
(* BlockSafeLogs. *)

\* handleSafeExecution re-reads the row, and returns if there is none.
Executed(tables, id, safe) ==
  IF safe \in tables.rows THEN [tables EXCEPT !.handled = Append(@, id)] ELSE tables

\* Mutant: the set is only ever loaded.
CreateMultisigUnknown(safe) ==
  /\ work' = [work EXCEPT !.rows = @ \cup {safe}]
  /\ known' = Remember(Loaded)
  /\ fresh' = IF safe \in work.rows THEN fresh ELSE fresh \cup {safe}
  /\ UNCHANGED parked

\* createMultisig around handleCreateMultisig.
CreateMultisig(safe) ==
  /\ work' = [work EXCEPT !.rows = @ \cup {safe}]
  /\ known' = Remember(Loaded \cup {safe})
  /\ fresh' = IF safe \in work.rows THEN fresh ELSE fresh \cup {safe}
  /\ UNCHANGED parked

\* handleCreateMultisig returns before it has done anything.
OrphanMultisig == UNCHANGED <<work, known, fresh, parked>>

\* Mutant: a Safe registered earlier in the block is handled in log order.
AtOnceIfRow(safe) == safe \in Loaded /\ safe \in work.rows

\* Is the log of this Safe handled in log order?
AtOnce(safe) == safe \in Loaded /\ safe \notin fresh /\ safe \in work.rows

\* Mutant: an unknown address is dropped, not parked.
SafeLogDropping(safe) ==
  /\ known' = Remember(Loaded)
  /\ work' = IF AtOnce(safe) THEN Executed(work, <<Current, idx + 1>>, safe) ELSE work
  /\ parked' = IF AtOnce(safe) \/ safe \notin Loaded THEN parked
               ELSE Append(parked, [id |-> <<Current, idx + 1>>, safe |-> safe])
  /\ UNCHANGED fresh

SafeLog(safe) ==
  /\ known' = Remember(Loaded)
  /\ IF AtOnce(safe)
     THEN /\ work' = Executed(work, <<Current, idx + 1>>, safe)
          /\ UNCHANGED parked
     ELSE /\ parked' = Append(parked, [id |-> <<Current, idx + 1>>, safe |-> safe])
          /\ UNCHANGED work
  /\ UNCHANGED fresh

Dispatch(log) ==
  \/ /\ log.op = "create"
     /\ CreateMultisig(log.safe)
  \/ /\ log.op = "orphan"
     /\ OrphanMultisig
  \/ /\ log.op = "exec"
     /\ SafeLog(log.safe)

-----------------------------------------------------------------------------
(* The run loop. *)

Agree(s, t, n) == n <= Len(s) /\ n <= Len(t) /\ \A i \in 1 .. n : s[i] = t[i]
IsForkPoint(s, t, n) == Agree(s, t, n) /\ ~ Agree(s, t, n + 1)

\* Mutant: the tables stay as they are.
RollBackNothing(base) ==
  /\ trail' = SubSeq(history, 1, base)
  /\ flushed' = base
  /\ work' = db
  /\ pc' = "logs" /\ idx' = 0 /\ fresh' = {} /\ parked' = <<>>

\* In the transaction the tables are first rolled back to the fork point.
RollBackTo(base) ==
  /\ trail' = SubSeq(history, 1, base)
  /\ flushed' = base
  /\ work' = After(history, base)
  /\ pc' = "logs" /\ idx' = 0 /\ fresh' = {} /\ parked' = <<>>

\* The SDK opens a transaction on new blocks.
BeginTransaction ==
  /\ pc = "idle"
  /\ \E base \in 0 .. Len(applied), n \in 1 .. Len(chain) :
        /\ IsForkPoint(applied, chain, base)
        /\ n > base
        /\ fetched' = SubSeq(chain, 1, n)
        /\ head' = final
        /\ RollBackTo(base)
  /\ UNCHANGED <<chainVars, dbVars, known, failures>>

\* The next log of the block is dispatched.
Handle ==
  /\ pc = "logs" /\ idx < Len(fetched[Current])
  /\ Dispatch(fetched[Current][idx + 1])
  /\ idx' = idx + 1
  /\ UNCHANGED <<chainVars, dbVars, pc, txVars, failures>>

\* endBlock is called after the block's last log ...
EndLogs ==
  /\ pc = "logs" /\ idx = Len(fetched[Current])
  /\ pc' = "parked"
  /\ UNCHANGED <<chainVars, dbVars, txVars, work, idx, fresh, parked, known, failures>>

\* ... and handles what was parked for the Safes registered in this block.
HandleParked ==
  /\ pc = "parked" /\ parked # <<>>
  /\ work' = IF Head(parked).safe \in fresh
             THEN Executed(work, Head(parked).id, Head(parked).safe) ELSE work
  /\ parked' = Tail(parked)
  /\ UNCHANGED <<chainVars, dbVars, pc, txVars, idx, fresh, known, failures>>

EndBlock ==
  /\ pc = "parked" /\ parked = <<>>
  /\ fresh' = {} /\ idx' = 0
  /\ trail' = Append(trail, work)
  /\ pc' = IF Current < CallEnd THEN "logs" ELSE "flush"
  /\ UNCHANGED <<chainVars, dbVars, fetched, head, flushed, work, parked, known, failures>>

\* cache.flush() ends the call; the SDK calls the handler with the next hot
\* block, if there is one.
Flush ==
  /\ pc = "flush"
  /\ flushed' = Len(trail)
  /\ pc' = IF Len(trail) < Len(fetched) THEN "logs" ELSE "commit"
  /\ UNCHANGED <<chainVars, dbVars, fetched, head, trail, work, idx, fresh, parked, known, failures>>

\* Nothing of the transaction stays in memory; the known set does.
EndTransaction ==
  /\ pc' = "idle" /\ fetched' = <<>> /\ head' = 0 /\ trail' = <<>> /\ flushed' = 0
  /\ work' = NoTables
  /\ idx' = 0 /\ fresh' = {} /\ parked' = <<>>

Commit ==
  /\ pc = "commit"
  /\ applied' = fetched
  /\ history' = trail
  /\ EndTransaction
  /\ UNCHANGED <<chainVars, known, failures>>

\* The transaction fails and the same process runs it again, on the same
\* blocks, as after a serialization failure: the known set is kept.
Retry ==
  /\ pc # "idle" /\ failures < MaxFailures
  /\ failures' = failures + 1
  /\ \E base \in 0 .. Len(applied) :
        IsForkPoint(applied, fetched, base) /\ RollBackTo(base)
  /\ UNCHANGED <<chainVars, dbVars, fetched, head, known>>

\* Any other failure ends the process, and it starts again.
Restart ==
  /\ pc # "idle" /\ failures < MaxFailures
  /\ failures' = failures + 1
  /\ EndTransaction
  /\ known' = NotLoaded
  /\ UNCHANGED <<chainVars, dbVars>>

Process == BeginTransaction \/ Handle \/ EndLogs \/ HandleParked \/ EndBlock
           \/ Flush \/ Commit

Next == Grow \/ Finalize \/ Fork \/ Process \/ Retry \/ Restart

Spec == Init /\ [][Next]_vars

-----------------------------------------------------------------------------
(* Properties. *)

\* Is the Safe registered, for a service that has a row, by the end of the
\* n-th block?
Registered(blocks, n, safe) ==
  \E b \in 1 .. n : \E i \in DOMAIN blocks[b] :
     blocks[b][i] = [op |-> "create", safe |-> safe]

\* The Safe logs the service-registry subgraph handles in the first n blocks:
\* those of a Safe registered by the end of their block.
DueIn(blocks, b) ==
  {i \in DOMAIN blocks[b] : /\ blocks[b][i].op = "exec"
                            /\ Registered(blocks, b, blocks[b][i].safe)}
Due(blocks, n) == UNION {{<<b, i>> : i \in DueIn(blocks, b)} : b \in 1 .. n}

Contents(seq) == {seq[k] : k \in DOMAIN seq}

HandledOnce(tables, ids) ==
  /\ Contents(tables.handled) = ids
  /\ \A j, k \in DOMAIN tables.handled :
        tables.handled[j] = tables.handled[k] => j = k

\* Every execution of one of our Safes is counted exactly once, whether its log
\* comes before or after the Safe's registration in their block, whatever the
\* blocks share a call, a transaction, a retry or a fork, and no foreign Safe's
\* ever is (safeLogs.ts:11-14).
EachExecutionOnce ==
  \A n \in 1 .. Len(applied) : HandledOnce(history[n], Due(applied, n))

\* "it may drift to a superset of the table, never a subset"
\* (entityCache.ts:78-80): once loaded, the set names every Safe with a row,
\* committed, flushed or in memory, so that its misses can be trusted.
KnownCoversRows ==
  known.loaded =>
    /\ work.rows \subseteq known.addresses
    /\ \A n \in 1 .. Len(trail) : trail[n].rows \subseteq known.addresses
    /\ pc = "idle" =>
         \A n \in 1 .. Len(history) : history[n].rows \subseteq known.addresses

-----------------------------------------------------------------------------
(* graph-node, running a block with the GnosisSafe template.                 *)

\* What it handles of the first i logs of the b-th block, when only `safes` have
\* a template, in log order.
Triggers(block, b, safes) ==
  LET upTo[i \in 0 .. Len(block)] ==
        IF i = 0 THEN <<>>
        ELSE IF block[i].op = "exec" /\ block[i].safe \in safes
        THEN Append(upTo[i - 1], <<b, i>>) ELSE upTo[i - 1]
  IN upTo

\* The logs of the Safes that had a template before the block; then those of
\* the Safes the block creates a template for.
RunBlock(before, block, b) ==
  LET new == {block[i].safe : i \in {j \in DOMAIN block : block[j].op = "create"}}
             \ before.rows
  IN [rows    |-> before.rows \cup new,
      handled |-> before.handled \o Triggers(block, b, before.rows)[Len(block)]
                                 \o Triggers(block, b, new)[Len(block)]]

Subgraph == INSTANCE Indexer
              WITH Event <- Block, EmptyTable <- NoTables, Apply <- RunBlock, db <- db

\* The squid handles the Safe logs graph-node handles, in the order in which it
\* handles them, block after block of a chain that was canonical
\* (safeLogs.ts:1-14).
ImplementsTemplates == Subgraph!Spec

-----------------------------------------------------------------------------
(* The inductive invariant: the tables after every block are those its       *)
(* registrations and executions ask for, and within a block what is handled  *)
(* and what is parked split what is due between them.                        *)

RowsOf(blocks, n) == {safe \in Safes : Registered(blocks, n, safe)}

Exact(tables, blocks, n) ==
  tables.rows = RowsOf(blocks, n) /\ HandledOnce(tables, Due(blocks, n))

CommittedExact == \A n \in 0 .. Len(history) : Exact(After(history, n), applied, n)

\* An open transaction goes past what is committed, and has flushed the part
\* of its chain that is.
TransactionOpen ==
  pc # "idle" =>
    /\ Len(trail) <= Len(fetched)
    /\ pc \in {"logs", "parked"} => Len(trail) < Len(fetched)
    /\ pc = "commit" => Len(trail) = Len(fetched)
    /\ \A n \in 0 .. Len(fetched) :
          Agree(applied, fetched, n) => n <= flushed /\ n < Len(fetched)

TransactionExact ==
  pc # "idle" => \A n \in 0 .. Len(trail) : Exact(After(trail, n), fetched, n)

BetweenBlocks ==
  pc \in {"flush", "commit"} =>
    idx = 0 /\ work = After(trail, Len(trail))

\* The Safes with a row before the current block, and its first i logs.
Old == RowsOf(fetched, Len(trail))
Created(i) ==
  {safe \in Safes : \E j \in 1 .. i :
     fetched[Current][j] = [op |-> "create", safe |-> safe]}
Execs(i, safes) ==
  {j \in 1 .. i : fetched[Current][j].op = "exec" /\ fetched[Current][j].safe \in safes}

\* Logs of the current block, as they are handled and as they are parked.
Ids(js) == {<<Current, j>> : j \in js}
Entries(js) == {[id |-> <<Current, j>>, safe |-> fetched[Current][j].safe] : j \in js}

ParkedOnce ==
  \A j, k \in DOMAIN parked : parked[j].id = parked[k].id => j = k

InLogs ==
  pc = "logs" =>
    /\ idx <= Len(fetched[Current])
    /\ work.rows = Old \cup Created(idx)
    /\ fresh = work.rows \ Old
    /\ HandledOnce(work, Due(fetched, Len(trail)) \cup Ids(Execs(idx, Old)))
    /\ Contents(parked) = Entries(Execs(idx, Safes \ Old))
    /\ ParkedOnce

\* What endBlock has still to handle.
Left == {parked[k].id : k \in {j \in DOMAIN parked : parked[j].safe \in fresh}}

InParked ==
  pc = "parked" =>
    /\ work.rows = RowsOf(fetched, Current)
    /\ fresh \subseteq work.rows
    /\ ParkedOnce
    /\ \E done \in SUBSET Due(fetched, Current) :
         /\ HandledOnce(work, done)
         /\ done \cup Left = Due(fetched, Current)
         /\ done \cap Left = {}

KnownInTransaction ==
  pc # "idle" /\ ~ known.loaded => work.rows \subseteq After(trail, flushed).rows

Inductive ==
  /\ TransactionOpen /\ CommittedExact /\ TransactionExact /\ BetweenBlocks /\ InLogs /\ InParked
  /\ KnownCoversRows /\ KnownInTransaction
=============================================================================
