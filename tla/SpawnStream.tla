----------------------------- MODULE SpawnStream -----------------------------
(***************************************************************************)
(* The babydegen squid's stand-in for graph-node's data-source templates    *)
(* (squids/babydegen/src/sources.ts, block.ts, main.ts): a stream carries   *)
(* the logs of the Safes known when it starts, ends with the block that     *)
(* adds one, and what that block lacks is fetched; the next stream has it.  *)
(*                                                                         *)
(* GraphNode is what it stands in for: every log of the chain, in order,    *)
(* with the Safe events of a block's new Safes after the rest of the block. *)
(* A batch is handled in one step: the cache and the transaction are in     *)
(* EntityCache.  That the SDK asks for a new stream of the same source      *)
(* after a fork is external, from how block.ts and sources.ts use it.       *)
(***************************************************************************)
EXTENDS Integers, Sequences, FiniteSets, SequencesExt

CONSTANTS ServiceIds,     \* Basius services
          Safe,           \* service |-> its multisig
          Operators,      \* operator Safes
          StreamBlocks,   \* what a block can hold: sequences of logs
          MaxHeight, MaxReorgs, MaxRestarts, MaxBatch,  \* bounds
          NoOperator

Registered(s, operator) == [kind |-> "register", service |-> s, operator |-> operator]
Deployed(s) == [kind |-> "create", service |-> s]
Transfer(safe) == [kind |-> "transfer", safe |-> safe]
SafeEvent(safe) == [kind |-> "safe", safe |-> safe]

Multisigs == {Safe[s] : s \in ServiceIds}
Hosts == Multisigs \cup Operators
StreamLogs == {Registered(s, o) : s \in ServiceIds, o \in Operators} \cup {Deployed(s) : s \in ServiceIds}
              \cup {Transfer(m) : m \in Multisigs} \cup {SafeEvent(h) : h \in Hosts}

ASSUME StreamAssumption ==
  /\ Safe \in [ServiceIds -> Multisigs] /\ Multisigs \cap Operators = {} /\ NoOperator \notin Operators
  /\ \A b \in StreamBlocks : b \in Seq(StreamLogs)
  /\ {MaxHeight, MaxBatch} \subseteq Nat \ {0} /\ {MaxReorgs, MaxRestarts} \subseteq Nat

VARIABLES
  canon,      \* the chain
  reorgs, restarts,
  written,    \* the blocks whose tables are committed
  tables,     \* the committed tables after each of them
  expected,   \* the tables of graph-node after each of them
  running,    \* whether the processor is in a run
  tracked,    \* what the run read of the tables when it connected
  basius,     \* the registrations that gate a cut in this stream
  carried     \* StreamState: what the run takes its stream to carry

vars == <<canon, reorgs, restarts, written, tables, expected, running, tracked, basius, carried>>

\* The tables: ServiceRegistration, Service, SafeDataSource, and the logs that were handled.
NoTables == [operator |-> [s \in ServiceIds |-> NoOperator], services |-> {}, hosts |-> {}, handled |-> <<>>]
LastTables(t) == IF t = <<>> THEN NoTables ELSE Last(t)

\* Op(x), with x a value (TLC would evaluate it again at each use in a recursion).
Applied(Op(_), x) == CHOOSE y \in {Op(z) : z \in {x}} : TRUE

-----------------------------------------------------------------------------
(* The handlers, on a log by its block and index.                            *)

\* handleCreateMultisigWithAgents, as far as the stream goes: the new service and the
\* hosts it creates.
NewServices(t, log) ==
  IF log.kind = "create" /\ t.operator[log.service] # NoOperator
  THEN {Safe[log.service]} \ t.services ELSE {}
NewHosts(t, log) ==
  IF NewServices(t, log) = {} THEN {} ELSE {Safe[log.service], t.operator[log.service]} \ t.hosts

\* dispatch and the handlers behind it.
Dispatch(t, log, id) ==
  CASE log.kind = "register" -> [t EXCEPT !.operator[log.service] = log.operator]
    [] log.kind = "create" ->
         [t EXCEPT !.services = @ \cup NewServices(t, log), !.hosts = @ \cup NewHosts(t, log)]
    [] log.kind = "transfer" ->
         IF log.safe \in t.services THEN [t EXCEPT !.handled = Append(@, id)] ELSE t
    [] log.kind = "safe" ->
         IF log.safe \in t.hosts THEN [t EXCEPT !.handled = Append(@, id)] ELSE t

IsSafe(log) == log.kind = "safe"

\* Handle the logs of some indexes, in their order.
DispatchAll(t, block, n, indexes) ==
  LET after[i \in 0 .. Len(block)] ==
        IF i = 0 THEN t
        ELSE IF i \in indexes
        THEN Applied(LAMBDA before : Dispatch(before, block[i], <<n, i>>), after[i - 1])
        ELSE after[i - 1]
  IN after[Len(block)]

-----------------------------------------------------------------------------
(* GraphNode.                                                                *)

\* The Safe events of a block's new hosts, "earlier log indexes included, after the
\* block's other triggers" (block.ts:13-15).
GraphNodeBlock(t, block, n) ==
  LET ofOld == {i \in DOMAIN block : IsSafe(block[i]) => block[i].safe \in t.hosts}
      after == DispatchAll(t, block, n, ofOld)
      ofNew == {i \in DOMAIN block : IsSafe(block[i]) /\ block[i].safe \in after.hosts \ t.hosts}
  IN DispatchAll(after, block, n, ofNew)

\* Its tables after some more blocks.
GraphNode(start, blocks) ==
  LET after[k \in 0 .. Len(blocks)] ==
        IF k = 0 THEN start
        ELSE Applied(LAMBDA before : Append(before, GraphNodeBlock(LastTables(before), blocks[k], Len(before) + 1)),
                     after[k - 1])
  IN after[Len(blocks)]

-----------------------------------------------------------------------------
(* The squid.                                                                *)

\* loadTracked
LoadTracked(t) == [ids |-> {s \in ServiceIds : t.operator[s] # NoOperator},
                   services |-> t.services, hosts |-> t.hosts]
NothingTracked == [ids |-> {}, services |-> {}, hosts |-> {}]

\* logQueries: the logs of a block a stream carries.
Carries(log, services, hosts) ==
  CASE log.kind \in {"register", "create"} -> TRUE
    [] log.kind = "transfer" -> log.safe \in services
    [] log.kind = "safe" -> log.safe \in hosts

\* The services that some logs register.
Registrations(logs) == {log.service : log \in {l \in logs : l.kind = "register"}}

\* firstSpawnIndex, on one block: a deploy of a known id whose multisig the run did not load.
Spawns(block, ids) ==
  \E i \in DOMAIN block :
    /\ block[i].kind = "create"
    /\ block[i].service \in ids \cup Registrations({block[j] : j \in 1 .. i - 1})
    /\ Safe[block[i].service] \notin tracked.services

\* The ids known before the k-th block of a batch: one set for the whole stream.
KnownBefore(blocks, k) == basius \cup UNION {Registrations(ToSet(blocks[j])) : j \in 1 .. k - 1}

\* Mutant: Safe events of a new host before its creation are lost.
DeferredLater(block, d, i, hosts, missing) == {}

\* Safe events of hosts created by log i that are past: those the stream carried and
\* those fetched.
Deferred(block, d, i, hosts, missing) ==
  {j \in 1 .. i - 1 : /\ IsSafe(block[j])
                      /\ \/ j \in d.queue /\ block[j].safe \in hosts
                         \/ j \in missing \ d.queue /\ block[j].safe \in d.newHosts \cup hosts}

\* One log of processBlock.  d is [t, queue, newHosts, deferred, carried], queue the indexes
\* the block has of its logs.
ProcessLog(block, n, d, i) ==
  LET log == block[i]
      hosts == NewHosts(d.t, log)
      services == NewServices(d.t, log)
      missingHosts == hosts \ d.carried.hosts
      missingServices == services \ d.carried.services
      \* fetchMissingLogs
      missing == {j \in DOMAIN block : /\ block[j].kind \in {"transfer", "safe"}
                                       /\ Carries(block[j], missingServices, missingHosts)}
  IN
  IF i \notin d.queue THEN d
  ELSE IF IsSafe(log) /\ log.safe \in d.newHosts THEN [d EXCEPT !.deferred = @ \cup {i}]
  ELSE [t |-> Dispatch(d.t, log, <<n, i>>),
        newHosts |-> d.newHosts \cup hosts,
        deferred |-> d.deferred \cup Deferred(block, d, i, hosts, missing),
        carried |-> [services |-> d.carried.services \cup services, hosts |-> d.carried.hosts \cup hosts],
        queue |-> d.queue \cup missing]

\* processBlock
ProcessBlock(t, block, n, streamed) ==
  LET start == [t |-> t, newHosts |-> {}, deferred |-> {}, carried |-> streamed,
                queue |-> {i \in DOMAIN block : Carries(block[i], tracked.services, tracked.hosts)}]
      after[i \in 0 .. Len(block)] == 
        IF i = 0 THEN start ELSE Applied(LAMBDA d : ProcessLog(block, n, d, i), after[i - 1])
      done == after[Len(block)]
  IN [t |-> DispatchAll(done.t, block, n, done.deferred), carried |-> done.carried]

\* The blocks of a batch, one after the other.
ProcessBlocks(blocks) ==
  LET after[k \in 0 .. Len(blocks)] ==
        IF k = 0 THEN [tables |-> tables, carried |-> carried]
        ELSE Applied(LAMBDA before :
                       LET r == ProcessBlock(LastTables(before.tables), blocks[k], Len(written) + k, before.carried)
                       IN [tables |-> Append(before.tables, r.t), carried |-> r.carried],
                     after[k - 1])
  IN after[Len(blocks)]

-----------------------------------------------------------------------------
Init ==
  /\ canon = <<>> /\ reorgs = 0 /\ restarts = 0
  /\ written = <<>> /\ tables = <<>> /\ expected = <<>>
  /\ running = FALSE /\ tracked = NothingTracked /\ basius = {}
  /\ carried = [services |-> {}, hosts |-> {}]

TypeOK ==
  /\ Len(canon) <= MaxHeight /\ reorgs \in 0 .. MaxReorgs /\ restarts \in 0 .. MaxRestarts
  /\ Len(tables) = Len(written) /\ running \in BOOLEAN
  /\ \A n \in DOMAIN tables :
       /\ tables[n].operator \in [ServiceIds -> Operators \cup {NoOperator}]
       /\ tables[n].services \subseteq Multisigs /\ tables[n].hosts \subseteq Hosts
  /\ basius \subseteq ServiceIds
  /\ carried.services \subseteq Multisigs /\ carried.hosts \subseteq Hosts

Grow ==
  \E block \in StreamBlocks :
    /\ Len(canon) < MaxHeight /\ canon' = Append(canon, block)
    /\ UNCHANGED <<reorgs, restarts, written, tables, expected, running, tracked, basius, carried>>

\* The last block is replaced.
Reorg ==
  \E block \in StreamBlocks :
    /\ reorgs < MaxReorgs /\ canon # <<>> /\ block # Last(canon)
    /\ canon' = Append(Front(canon), block) /\ reorgs' = reorgs + 1
    /\ UNCHANGED <<restarts, written, tables, expected, running, tracked, basius, carried>>

\* runOnce: the tracked Safes are read once connected.
Connect ==
  /\ ~ running /\ running' = TRUE
  /\ tracked' = LoadTracked(LastTables(tables))
  /\ basius' = tracked'.ids
  /\ carried' = [services |-> tracked'.services, hosts |-> tracked'.hosts]
  /\ UNCHANGED <<canon, reorgs, restarts, written, tables, expected>>

\* cutAtSpawn: a batch without a spawn passes through.
PassBatch ==
  \E size \in 1 .. MaxBatch :
    LET n == Len(written) IN
    /\ running /\ n + size <= Len(canon) /\ IsPrefix(written, canon)
    /\ LET blocks == SubSeq(canon, n + 1, n + size)
           done == ProcessBlocks(blocks)
       IN
       /\ \A k \in 1 .. size : ~ Spawns(blocks[k], KnownBefore(blocks, k))
       /\ tables' = done.tables /\ carried' = done.carried
       /\ expected' = GraphNode(expected, blocks)
       /\ written' = written \o blocks /\ basius' = KnownBefore(blocks, size + 1)
    /\ UNCHANGED <<canon, reorgs, restarts, running, tracked>>

\* One with a spawn ends there (slice(0, at + 1)), and the run with it.
CutBatch ==
  \E size \in 1 .. MaxBatch :
    LET n == Len(written) IN
    /\ running /\ n + size <= Len(canon) /\ IsPrefix(written, canon)
    /\ LET blocks == SubSeq(canon, n + 1, n + size)
           done == ProcessBlocks(blocks)
       IN
       /\ Spawns(blocks[size], KnownBefore(blocks, size))
       /\ \A k \in 1 .. size - 1 : ~ Spawns(blocks[k], KnownBefore(blocks, k))
       /\ tables' = done.tables /\ carried' = done.carried
       /\ expected' = GraphNode(expected, blocks)
       /\ written' = written \o blocks
    /\ running' = FALSE
    /\ UNCHANGED <<canon, reorgs, restarts, tracked, basius>>

\* A fork rolls the tables back, and the source gives a new stream.
Rollback ==
  /\ running /\ ~ IsPrefix(written, canon)
  /\ written' = Front(written) /\ tables' = Front(tables)
  /\ expected' = Front(expected)
  /\ basius' = tracked.ids
  /\ UNCHANGED <<canon, reorgs, restarts, running, tracked, carried>>

\* The process ends between two batches, or in one, which is then not committed.
Restart ==
  /\ running /\ restarts < MaxRestarts
  /\ running' = FALSE /\ restarts' = restarts + 1
  /\ UNCHANGED <<canon, reorgs, written, tables, expected, tracked, basius, carried>>

Run == Connect \/ PassBatch \/ CutBatch \/ Rollback
Next == Grow \/ Reorg \/ Restart \/ Run

\* main runs again after each cut, and the deployment after each failure.
Spec == Init /\ [][Next]_vars /\ WF_vars(Run)

-----------------------------------------------------------------------------
\* Without a reorganisation, the tables and the logs that went into them, in their
\* order, are those of graph-node.
AsGraphNode == reorgs = 0 => tables = expected

\* A reorganisation costs no more than logs: the services and the Safes are those of
\* graph-node, which handled every log the squid did.
NoForeignLogs ==
  /\ Len(tables) = Len(expected)
  /\ \A n \in DOMAIN tables :
       LET g == expected[n] IN
       /\ tables[n].operator = g.operator /\ tables[n].services = g.services /\ tables[n].hosts = g.hosts
       /\ ToSet(tables[n].handled) \subseteq ToSet(g.handled)

\* No log is handled twice.
HandledOnce == \A n \in DOMAIN tables : IsInjective(tables[n].handled)

\* processBlock and cutAtSpawn (block.ts:71-123, sources.ts:116-134): however the chain
\* is cut into batches and streams and whenever the process restarts, the squid handles
\* what graph-node handles, in its order, and each log once; a reorganisation costs no
\* more than logs.
LogsAsGraphNode == TypeOK /\ AsGraphNode /\ NoForeignLogs /\ HandledOnce

\* main (main.ts:97-101): every block is written in the end; runs that end with a cut do not go on
\* cutting at the same block.
Follows == <>[](written = canon)

=============================================================================
