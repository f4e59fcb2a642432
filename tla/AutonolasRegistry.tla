-------------------------- MODULE AutonolasRegistry --------------------------
(***************************************************************************)
(* The registries of components, agents and services, indexed on Ethereum  *)
(* (subgraphs/autonolas/src/registry.ts) and on Base                       *)
(* (subgraphs/autonolas-base/src): units with their owner and package,     *)
(* services as the contract describes them, builders and totals on         *)
(* Ethereum, and on Base the days on which services of one agent received  *)
(* funds.                                                                  *)
(*                                                                         *)
(* A handler reads the contract, not the log: the state at the end of the  *)
(* block, whatever the log is about.  So a block is made transaction by    *)
(* transaction and indexed as a whole.  A package is the hash it was       *)
(* published under; IPFS answers for some hashes and not for others.       *)
(***************************************************************************)
EXTENDS Naturals, FiniteSets, SequencesExt

CONSTANTS Units,        \* components and agents, <<kind, id>>; none on Base
          Services,     \* ids of services
          Owners, Hashes,
          AgentSets,    \* the lists of agents a service may have
          TargetAgent,  \* the agent whose services are counted (41)
          Instances, Multisigs,
          OnBase,       \* whether this is the subgraph of Base
          Day,          \* blocks of a day
          MaxTransactions, \* bound on the transactions
          MaxBlocks,    \* bound on the blocks
          NoOne,        \* the zero address, the multisig of no service
          NotFound,     \* the metadata of a hash IPFS does not answer for
          NoRow

RegistryAssumption ==
  /\ Day \in Nat \ {0} /\ MaxTransactions \in Nat /\ MaxBlocks \in Nat
  /\ OnBase \in BOOLEAN /\ (OnBase => Units = {})
  /\ NoOne \notin Owners \cup Multisigs /\ NotFound \notin Hashes

VARIABLES
  \* The chain.
  ownerOf,     \* of units and services
  hashOf,      \* the latest hash of a unit
  contract,    \* ServiceRegistry.getService and getAgentInstances
  minters,     \* who components and agents were minted for
  logs,        \* of the block under way, oldest first
  transactions, blocks,
  \* The subgraph.
  tables,
  \* What was true.
  atWork,      \* the services deployed with the agent when the last block ended
  idle         \* those counted in a block that neither began nor ended so

chainVars == <<ownerOf, hashOf, contract, minters, logs, transactions, blocks>>
registryVars == <<chainVars, tables, atWork, idle>>

Tokens == Units \cup {<<"service", s>> : s \in Services}
Days == 0 .. MaxBlocks \div Day
Today == blocks \div Day

NoTables ==
  [unit |-> [k \in Tokens |-> NoRow], service |-> [s \in Services |-> NoRow],
   builders |-> {}, totals |-> [k \in {"component", "agent", "service", "builder"} |-> 0],
   multisig |-> [m \in Multisigs |-> NoRow],
   active |-> [d \in Days |-> {}], count |-> [d \in Days |-> 0]]

RegistryInit ==
  /\ ownerOf = [k \in Tokens |-> NoOne] /\ hashOf = [u \in Units |-> NotFound]
  /\ contract = [s \in Services |-> NoRow] /\ minters = {}
  /\ logs = <<>> /\ transactions = 0 /\ blocks = 0
  /\ tables = NoTables /\ atWork = {} /\ idle = {}

-----------------------------------------------------------------------------
(* The contracts: what they do and the logs they emit, in order.             *)

Transact(emitted) ==
  /\ transactions < MaxTransactions /\ transactions' = transactions + 1
  /\ blocks < MaxBlocks
  /\ logs' = logs \o emitted /\ UNCHANGED <<blocks, tables, atWork, idle>>

Transferred(k, from, to) == [op |-> "transfer", token |-> k, from |-> from, to |-> to]
OfUnit(u, hash) == [op |-> "unit", token |-> u, hash |-> hash]
OfService(op, s) == [op |-> op, service |-> s]

CreateUnit(u, o, h) ==
  /\ ownerOf[u] = NoOne
  /\ ownerOf' = [ownerOf EXCEPT ![u] = o] /\ hashOf' = [hashOf EXCEPT ![u] = h]
  /\ minters' = minters \cup {o}
  /\ Transact(<<Transferred(u, NoOne, o), OfUnit(u, h)>>) /\ UNCHANGED contract

UpdateUnitHash(u, h) ==
  /\ ownerOf[u] # NoOne
  /\ hashOf' = [hashOf EXCEPT ![u] = h]
  /\ Transact(<<OfUnit(u, h)>>) /\ UNCHANGED <<ownerOf, contract, minters>>

Transfer(k, o) ==
  /\ ownerOf[k] \notin {NoOne, o}
  /\ ownerOf' = [ownerOf EXCEPT ![k] = o]
  /\ Transact(<<Transferred(k, ownerOf[k], o)>>) /\ UNCHANGED <<hashOf, contract, minters>>

CreateService(s, o, h, agents) ==
  /\ contract[s] = NoRow
  /\ ownerOf' = [ownerOf EXCEPT ![<<"service", s>>] = o]
  /\ contract' = [contract EXCEPT ![s] =
       [state |-> "PreRegistration", agentIds |-> agents, hash |-> h,
        instances |-> {}, multisig |-> NoOne]]
  /\ Transact(<<Transferred(<<"service", s>>, NoOne, o), OfService("update", s)>>)
  /\ UNCHANGED <<hashOf, minters>>

Created == {s \in Services : contract[s] # NoRow}

\* A transaction on a service in state `from`.
OnService(s, from, row, emitted) ==
  /\ s \in Created /\ contract[s].state = from
  /\ contract' = [contract EXCEPT ![s] = row]
  /\ Transact(emitted) /\ UNCHANGED <<ownerOf, hashOf, minters>>

UpdateService(s, h, agents) ==
  OnService(s, "PreRegistration", [contract[s] EXCEPT !.hash = h, !.agentIds = agents],
            <<OfService("update", s)>>)

Activate(s) ==
  OnService(s, "PreRegistration", [contract[s] EXCEPT !.state = "ActiveRegistration"],
            <<OfService("change", s)>>)

\* One slot per service: its instance completes the registration.
Register(s, i) ==
  /\ i \notin UNION {contract[other].instances : other \in Created}
  /\ OnService(s, "ActiveRegistration",
               [contract[s] EXCEPT !.instances = {i}, !.state = "FinishedRegistration"],
               <<OfService("change", s)>>)

Deploy(s, m) ==
  OnService(s, "FinishedRegistration", [contract[s] EXCEPT !.state = "Deployed", !.multisig = m],
            <<[op |-> "multisig", service |-> s, multisig |-> m], OfService("change", s)>>)

Terminate(s) ==
  /\ s \in Created /\ contract[s].state \in {"ActiveRegistration", "FinishedRegistration", "Deployed"}
  /\ OnService(s, contract[s].state,
               [contract[s] EXCEPT !.state = IF contract[s].instances = {} THEN "PreRegistration"
                                             ELSE "TerminatedBonded"],
               <<OfService("change", s)>>)

Unbond(s) ==
  OnService(s, "TerminatedBonded",
            [contract[s] EXCEPT !.instances = {}, !.state = "PreRegistration"],
            <<OfService("change", s)>>)

SafeReceived(m) ==
  /\ \E s \in Created : contract[s].multisig = m
  /\ Transact(<<[op |-> "received", safe |-> m]>>) /\ UNCHANGED <<ownerOf, hashOf, contract, minters>>

-----------------------------------------------------------------------------
(* registry.ts and registryL2.ts.  `seen` is what IPFS answers for.          *)

GetMetadata(hash, seen) == IF hash \in seen THEN hash ELSE NotFound

TrackMint(t, to, kind) ==
  LET minted == [t EXCEPT !.totals[kind] = @ + 1]
  IN IF kind = "service" \/ to \in t.builders THEN minted
     ELSE [minted EXCEPT !.builders = @ \cup {to}, !.totals.builder = @ + 1]

StoreUnit(k, hash, seen) == [owner |-> ownerOf[k], hash |-> hash, package |-> GetMetadata(hash, seen)]

CreateOrUpdateUnit(t, k, hash, seen) == [t EXCEPT !.unit[k] = StoreUnit(k, hash, seen)]

\* What the registry says of a service, and updateServiceState with it.
GetService(s) == contract[s] @@ [owner |-> ownerOf[<<"service", s>>]]
ServiceState(s, seen) == GetService(s) @@ [package |-> GetMetadata(contract[s].hash, seen)]

HandleServiceUpdate(t, s, seen) == [t EXCEPT !.service[s] = ServiceState(s, seen)]

UnitMoved(t, k, to) == IF t.unit[k] = NoRow THEN t ELSE [t EXCEPT !.unit[k].owner = to]
ServiceMoved(t, s, to) == IF t.service[s] = NoRow THEN t ELSE [t EXCEPT !.service[s].owner = to]

HandleTransfer(t, log) ==
  LET u == IF log.from = NoOne /\ ~OnBase THEN TrackMint(t, log.to, log.token[1]) ELSE t
      v == UnitMoved(u, log.token, log.to)
  IN IF log.token[1] = "service" THEN ServiceMoved(v, log.token[2], log.to) ELSE v

\* handleCreateService and handleUpdateService: the URI is the contract's too.
HandleService(t, s, seen) ==
  HandleServiceUpdate(CreateOrUpdateUnit(t, <<"service", s>>, contract[s].hash, seen), s, seen)

\* Only services with the agent get a data source, and a multisig only one.
HandleCreateMultisigWithAgents(t, log, seen) ==
  LET u == HandleServiceUpdate(t, log.service, seen)
  IN IF ~OnBase THEN t
     ELSE IF u.multisig[log.multisig] # NoRow
             \/ TargetAgent \notin u.service[log.service].agentIds THEN u
     ELSE [u EXCEPT !.multisig[log.multisig] = log.service]

HandleLog(t, log, seen) ==
  CASE log.op = "transfer" -> HandleTransfer(t, log)
    [] log.op = "unit" -> CreateOrUpdateUnit(t, log.token, log.hash, seen)
    [] log.op = "update" -> HandleService(t, log.service, seen)
    [] log.op = "change" -> HandleServiceUpdate(t, log.service, seen)
    [] log.op = "multisig" -> HandleCreateMultisigWithAgents(t, log, seen)

-----------------------------------------------------------------------------
(* safe.ts.                                                                  *)

\* Mutant: the service may have lost the agent since its data source was created.
AtWorkOnce(row, m) == row.state = "Deployed" /\ row.multisig = m

\* The service is deployed, with the agent, and this is its multisig now.
AtWork(row, m) ==
  row.state = "Deployed" /\ row.multisig = m /\ TargetAgent \in row.agentIds

HandleSafeReceived(t, m) ==
  LET s == t.multisig[m]
  IN IF ~AtWork(t.service[s], m) \/ s \in t.active[Today] THEN t
     ELSE [t EXCEPT !.active[Today] = @ \cup {s}, !.count[Today] = @ + 1]

\* The data sources of a block: those there were handle its logs in order, with
\* the registry's; those it creates handle theirs after it.
IsOf(known, log) == log.op # "received" \/ known[log.safe] # NoRow

Handled(t, log, seen) ==
  IF log.op = "received" THEN HandleSafeReceived(t, log.safe) ELSE HandleLog(t, log, seen)

AfterBlock(seen) ==
  LET mine == SelectSeq(logs, LAMBDA log : IsOf(tables.multisig, log))
      first == FoldLeft(LAMBDA t, log : Handled(t, log, seen), tables, mine)
      late == SelectSeq(logs, LAMBDA log : ~IsOf(tables.multisig, log) /\ IsOf(first.multisig, log))
  IN FoldLeft(LAMBDA t, log : Handled(t, log, seen), first, late)

IndexBlock ==
  /\ blocks < MaxBlocks /\ blocks' = blocks + 1
  /\ logs # <<>> /\ logs' = <<>>
  /\ \E seen \in SUBSET Hashes : tables' = AfterBlock(seen)
  /\ atWork' = {s \in Created : contract[s].state = "Deployed" /\ TargetAgent \in contract[s].agentIds}
  /\ idle' = idle \cup ((tables'.active[Today] \ tables.active[Today]) \ (atWork \cup atWork'))
  /\ UNCHANGED <<ownerOf, hashOf, contract, minters, transactions>>

RegistryNext ==
  \/ \E u \in Units, o \in Owners, h \in Hashes : CreateUnit(u, o, h)
  \/ \E u \in Units, h \in Hashes : UpdateUnitHash(u, h)
  \/ \E k \in Tokens, o \in Owners : Transfer(k, o)
  \/ \E s \in Services, o \in Owners, h \in Hashes, agents \in AgentSets : CreateService(s, o, h, agents)
  \/ \E s \in Services, h \in Hashes, agents \in AgentSets : UpdateService(s, h, agents)
  \/ \E s \in Services : Activate(s) \/ Terminate(s) \/ Unbond(s)
  \/ \E s \in Services, i \in Instances : Register(s, i)
  \/ \E s \in Services, m \in Multisigs : Deploy(s, m)
  \/ \E m \in Multisigs : OnBase /\ SafeReceived(m)
  \/ IndexBlock

RegistrySpec == RegistryInit /\ [][RegistryNext]_registryVars

-----------------------------------------------------------------------------
(* Properties. *)

Indexed == logs = <<>>

\* A row describes what the contract describes, in a block of several
\* transactions too; its package is that of its hash or none.
MirrorsContracts ==
  Indexed =>
    /\ \A k \in Tokens : IF ownerOf[k] = NoOne THEN tables.unit[k] = NoRow
                         ELSE /\ tables.unit[k].owner = ownerOf[k]
                              /\ tables.unit[k].package \in {tables.unit[k].hash, NotFound}
    /\ \A u \in Units : ownerOf[u] # NoOne => tables.unit[u].hash = hashOf[u]
    /\ \A s \in Created :
         /\ \E package \in {contract[s].hash, NotFound} : tables.service[s] =
              contract[s] @@ [owner |-> ownerOf[<<"service", s>>], package |-> package]
         /\ tables.unit[<<"service", s>>].hash = contract[s].hash

Minted(kind) == {k \in Tokens : k[1] = kind /\ ownerOf[k] # NoOne}

\* The totals are the tokens there are, each minted once, and the builders.
TotalsAreTokens ==
  Indexed /\ ~OnBase =>
    /\ \A kind \in {"component", "agent", "service"} :
         tables.totals[kind] = Cardinality(Minted(kind))
    /\ tables.builders = minters /\ tables.totals.builder = Cardinality(minters)

\* A day's count is of its services, each once.
DaysCounted == \A d \in Days : tables.count[d] = Cardinality(tables.active[d])

\* A service is counted in a block that began or ended with it deployed with the
\* agent ("Only count if service is in Deployed state (not terminated)", "Only
\* count if service CURRENTLY has agent 41", safe.ts:18-29).
CountedAtWork == idle = {}
=============================================================================
