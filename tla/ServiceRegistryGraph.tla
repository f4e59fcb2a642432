------------------------ MODULE ServiceRegistryGraph ------------------------
(***************************************************************************)
(* The service-registry subgraph (subgraphs/service-registry/src), that the *)
(* squid of ServiceActivity replaces "branch-for-branch" (handlers.ts:1), run *)
(* beside it on the same logs; and the rest of both: the columns of a service *)
(* that ServiceActivity leaves out and the ERC-8004 identities the bridger *)
(* gives to services.                                                      *)
(*                                                                         *)
(* The subgraph's tables are the fields of `graph`, and a handler is the   *)
(* operator of its name from tables to tables, one log at a time.  Rows are *)
(* as in ServiceActivity; the hash of a transaction is left out.           *)
(***************************************************************************)
EXTENDS ServiceActivity

CONSTANTS Configs,       \* hashes of configurations
          Senders,       \* senders of deployments
          Identities,    \* ERC-8004 agents
          Keys,          \* keys of metadata
          Texts,         \* what the owner of an identity writes there
          Ecosystem, ServiceRegistry,  \* the two keys with a default
          Olas,          \* the default of Ecosystem
          NoValue        \* null

\* The columns of a service and of a deployment that ServiceActivity leaves out, and
\* whole rows of Service and Multisig.
ColumnsRow  == [config : Configs \cup {NoValue}, creator : Senders \cup {NoValue}, created : Nat,
                identity : Identities \cup {NoValue}]
DeployerRow == [creator : Senders, created : Nat]
WholeServiceRow ==
  [agentIds : Seq(Agents), multisig : Multisigs \cup {NoRow}, config : Configs \cup {NoValue},
   creator : Senders \cup {NoValue}, created : Nat, identity : Identities \cup {NoValue}]
WholeMultisigRow ==
  [service : Services, agentIds : Seq(Agents), creator : Senders, created : Nat]

ASSUME GraphAssumption ==
  /\ {Ecosystem, ServiceRegistry} \subseteq Keys /\ Olas \notin Texts
  /\ NoValue \notin Configs \cup Senders \cup Identities \cup Texts \cup Multisigs \cup {Olas}
  /\ NoRow \notin Multisigs \cup {NoValue}
  /\ NoRow \notin DeployerRow \cup WholeServiceRow \cup WholeMultisigRow

VARIABLES
  \* The squid's other columns and tables.
  columns,         \* Service: configHash, creator, creationTimestamp, erc8004Agent
  deployers,       \* Multisig: creator and creationTimestamp
  creators,        \* Creator rows
  identities,      \* ERC8004Agent.agentWallet
  metadata,        \* ERC8004Metadata.value
  \* The subgraph.
  graph

squidVars == <<columns, deployers, creators, identities, metadata>>
graphVars == <<activityVars, squidVars, graph>>

NewColumns(t) ==
  [config |-> NoValue, creator |-> NoValue, created |-> t, identity |-> NoValue]

\* All columns of a row of Service.
WholeService(row, others) ==
  [agentIds |-> row.agentIds, multisig |-> row.multisig, config |-> others.config,
   creator |-> others.creator, created |-> others.created, identity |-> others.identity]

-----------------------------------------------------------------------------
(* The subgraph: utils.ts.                                                   *)

EmptyGraph ==
  [service |-> [s \in Services |-> NoRow], multisig |-> [m \in Multisigs |-> NoRow],
   registration |-> [p \in Services \X Agents |-> NoRow],
   operator |-> {}, creator |-> {}, totalOperators |-> 0,
   activity |-> [p \in Days \X Services |-> NoRow],
   uniqueAgent |-> {}, uniqueCount |-> [d \in Days |-> 0],
   performance |-> [p \in Days \X Agents |-> [txCount |-> 0, activeMultisigCount |-> 0]],
   agentMultisig |-> {}, agentTxs |-> [a \in Agents |-> 0],
   activeMultisig |-> {}, activeCount |-> [d \in Days |-> 0],
   global |-> [txCount |-> 0, lastUpdated |-> 0],
   identity |-> [i \in Identities |-> NoRow],
   metadata |-> [p \in Identities \X Keys |-> NoRow]]

GetOrCreateService(t, s, at) ==
  IF t.service[s] # NoRow THEN t
  ELSE [t EXCEPT !.service[s] = WholeService([agentIds |-> <<>>, multisig |-> NoRow], NewColumns(at))]

GetOrCreateMultisig(t, m, sender) ==
  IF t.multisig[m] # NoRow THEN t
  ELSE [t EXCEPT !.multisig[m] =
          [service |-> NoRow, agentIds |-> <<>>, creator |-> sender, created |-> now]]

UpdateUniqueOperators(t, o) ==
  IF o \in t.operator THEN t
  ELSE [t EXCEPT !.operator = @ \cup {o}, !.totalOperators = @ + 1]

GetOrCreateServiceCreator(t, sender) == [t EXCEPT !.creator = @ \cup {sender}]

CreateOrUpdateAgentRegistration(t, s, a) == [t EXCEPT !.registration[<<s, a>>] = now]

\* Of the listed agents registered by now, the first of those registered last.
GetMostRecentAgentId(t, s, ids) ==
  LET at(k) == t.registration[<<s, ids[k]>>]
      eligible == {k \in DOMAIN ids : at(k) # NoRow /\ at(k) <= now}
      latest == {k \in eligible : \A j \in eligible : at(j) <= at(k)}
  IN IF latest = {} THEN NoAgent ELSE ids[CHOOSE k \in latest : \A j \in latest : k <= j]

CreateDailyUniqueAgent(t, d, a) ==
  IF <<d, a>> \in t.uniqueAgent THEN t
  ELSE [t EXCEPT !.uniqueAgent = @ \cup {<<d, a>>}, !.uniqueCount[d] = @ + 1]

CreateDailyAgentMultisig(t, d, a, m) ==
  IF <<d, a, m>> \in t.agentMultisig THEN t
  ELSE [t EXCEPT !.agentMultisig = @ \cup {<<d, a, m>>},
                 !.performance[<<d, a>>].activeMultisigCount = @ + 1]

CreateDailyActiveMultisig(t, d, m) ==
  IF <<d, m>> \in t.activeMultisig THEN t
  ELSE [t EXCEPT !.activeMultisig = @ \cup {<<d, m>>}, !.activeCount[d] = @ + 1]

GetOrCreateERC8004Agent(t, i) ==
  IF t.identity[i] # NoRow THEN t ELSE [t EXCEPT !.identity[i] = NoValue]

SetERC8004Metadata(t, i, key, value) == [t EXCEPT !.metadata[<<i, key>>] = value]

InitializeERC8004DefaultMetadata(t, i, s) ==
  SetERC8004Metadata(SetERC8004Metadata(t, i, Ecosystem, Olas), i, ServiceRegistry, s)

-----------------------------------------------------------------------------
(* The subgraph: mapping.ts and bridger.ts.                                  *)

HandleCreateService(t, s, config) ==
  [GetOrCreateService(t, s, now) EXCEPT !.service[s].config = config]

HandleUpdateService(t, s, config) ==
  IF t.service[s] = NoRow THEN t ELSE [t EXCEPT !.service[s].config = config]

HandleRegisterInstance(t, s, a, o) ==
  LET u == CreateOrUpdateAgentRegistration(GetOrCreateService(t, s, 0), s, a)
      listed == Occurrences(a, u.service[s].agentIds) > 0
      v == IF listed THEN u ELSE [u EXCEPT !.service[s].agentIds = Append(@, a)]
  IN UpdateUniqueOperators(v, o)

HandleCreateMultisig(t, s, m, sender) ==
  IF t.service[s] = NoRow THEN t
  ELSE LET u == GetOrCreateMultisig(GetOrCreateServiceCreator(t, sender), m, sender)
           ids == u.service[s].agentIds
           recent == GetMostRecentAgentId(u, s, ids)
           standsFor == IF recent = NoAgent THEN ids ELSE <<recent>>
       IN [u EXCEPT !.service[s].creator = sender, !.service[s].multisig = m,
                    !.multisig[m].service = s, !.multisig[m].agentIds = standsFor]

HandleTerminateService(t, s) ==
  IF t.service[s] = NoRow THEN t
  ELSE [t EXCEPT !.service[s].agentIds = <<>>, !.service[s].multisig = NoRow,
                 !.service[s].creator = NoValue]

\* updateDailyAgentPerformance, for one agent of the multisig.
AgentPerformed(t, d, m, a) ==
  LET counted == [t EXCEPT !.performance[<<d, a>>].txCount = @ + 1]
      linked == CreateDailyAgentMultisig(counted, d, a, m)
  IN [linked EXCEPT !.agentTxs[a] = @ + 1]

UpdateDailyUniqueAgents(t, d, ids) ==
  LET after[k \in 0 .. Len(ids)] ==
        IF k = 0 THEN t ELSE CreateDailyUniqueAgent(after[k - 1], d, ids[k])
  IN after[Len(ids)]

UpdateDailyAgentPerformance(t, d, m, ids) ==
  LET after[k \in 0 .. Len(ids)] ==
        IF k = 0 THEN t ELSE AgentPerformed(after[k - 1], d, m, ids[k])
  IN after[Len(ids)]

HandleExecution(t, m) ==
  LET d == dayTimestamp(now)
      row == t.multisig[m]
      active == [t EXCEPT !.activity[<<d, row.service>>] = row.agentIds]
      unique == UpdateDailyUniqueAgents(active, d, row.agentIds)
      performed == UpdateDailyAgentPerformance(unique, d, m, row.agentIds)
      counted == CreateDailyActiveMultisig(performed, d, m)
  IN [counted EXCEPT !.global = [txCount |-> @.txCount + 1, lastUpdated |-> now]]

HandleServiceAgentLinked(t, s, i) ==
  IF t.service[s] = NoRow THEN t
  ELSE InitializeERC8004DefaultMetadata(
         [GetOrCreateERC8004Agent(t, i) EXCEPT !.service[s].identity = i], i, s)

HandleAgentWalletSet(t, i, m) == [GetOrCreateERC8004Agent(t, i) EXCEPT !.identity[i] = m]

\* The row of the key, whether the agent has one or not.
HandleMetadataSet(t, i, key, text) == SetERC8004Metadata(t, i, key, text)

-----------------------------------------------------------------------------
(* A log, handled by the squid and by the subgraph.                          *)

GraphInit ==
  /\ ActivityInit
  /\ columns = [s \in Services |-> NewColumns(0)]
  /\ deployers = [m \in Multisigs |-> NoRow] /\ creators = {}
  /\ identities = [i \in Identities |-> NoRow]
  /\ metadata = [p \in Identities \X Keys |-> NoRow]
  /\ graph = EmptyGraph

\* The other columns of a row that getOrCreateService returns.
ColumnsOrNew(s, at) == IF services[s] = NoRow THEN NewColumns(at) ELSE columns[s]

ServiceCreated(s, config) ==
  /\ CreateService(s)
  /\ columns' = [columns EXCEPT ![s] = [ColumnsOrNew(s, now) EXCEPT !.config = config]]
  /\ graph' = HandleCreateService(graph, s, config)
  /\ UNCHANGED <<deployers, creators, identities, metadata>>

UpdateService(s, config) ==
  /\ Logged
  /\ columns' = IF services[s] = NoRow THEN columns ELSE [columns EXCEPT ![s].config = config]
  /\ graph' = HandleUpdateService(graph, s, config)
  /\ UNCHANGED <<now, executed, registry, daily, deployers, creators, identities, metadata>>

InstanceRegistered(s, a, o) ==
  /\ RegisterInstance(s, a, o)
  /\ columns' = [columns EXCEPT ![s] = ColumnsOrNew(s, 0)]
  /\ graph' = HandleRegisterInstance(graph, s, a, o)
  /\ UNCHANGED <<deployers, creators, identities, metadata>>

MultisigCreated(s, m, sender) ==
  /\ CreateMultisigRow(s, m)
  /\ IF services[s] = NoRow THEN UNCHANGED <<columns, deployers, creators>>
     ELSE /\ columns' = [columns EXCEPT ![s].creator = sender]
          /\ creators' = creators \cup {sender}
          /\ deployers' = IF deployers[m] # NoRow THEN deployers
                          ELSE [deployers EXCEPT ![m] = [creator |-> sender, created |-> now]]
  /\ graph' = HandleCreateMultisig(graph, s, m, sender)
  /\ UNCHANGED <<identities, metadata>>

ServiceTerminated(s) ==
  /\ TerminateService(s)
  /\ columns' = IF services[s] = NoRow THEN columns ELSE [columns EXCEPT ![s].creator = NoValue]
  /\ graph' = HandleTerminateService(graph, s)
  /\ UNCHANGED <<deployers, creators, identities, metadata>>

SafeExecuted(m) ==
  /\ SafeExecution(m)
  /\ graph' = HandleExecution(graph, m)
  /\ UNCHANGED squidVars

\* getOrCreateERC8004Agent.
IdentityOrNew(i) == IF identities[i] = NoRow THEN NoValue ELSE identities[i]

\* Mutant: a default is only given to a key nobody set.
DefaultsIfUnset(i, s) ==
  [p \in DOMAIN metadata |->
     IF p[1] # i \/ metadata[p] # NoRow THEN metadata[p]
     ELSE IF p[2] = Ecosystem THEN Olas ELSE s]

\* The two rows a link writes, over what the owner of the identity wrote there.
Defaults(i, s) ==
  [metadata EXCEPT ![<<i, Ecosystem>>] = Olas, ![<<i, ServiceRegistry>>] = s]

ServiceAgentLinked(s, i) ==
  /\ Logged
  /\ IF services[s] = NoRow THEN UNCHANGED <<columns, identities, metadata>>
     ELSE /\ identities' = [identities EXCEPT ![i] = IdentityOrNew(i)]
          /\ columns' = [columns EXCEPT ![s].identity = i]
          /\ metadata' = Defaults(i, s)
  /\ graph' = HandleServiceAgentLinked(graph, s, i)
  /\ UNCHANGED <<now, executed, registry, daily, deployers, creators>>

AgentWalletSet(i, m) ==
  /\ Logged
  /\ identities' = [identities EXCEPT ![i] = m]
  /\ graph' = HandleAgentWalletSet(graph, i, m)
  /\ UNCHANGED <<now, executed, registry, daily, columns, deployers, creators, metadata>>

\* The row of the agent is created too: metadata references it.
MetadataSet(i, key, text) ==
  /\ Logged
  /\ identities' = [identities EXCEPT ![i] = IdentityOrNew(i)]
  /\ metadata' = [metadata EXCEPT ![<<i, key>>] = text]
  /\ graph' = HandleMetadataSet(graph, i, key, text)
  /\ UNCHANGED <<now, executed, registry, daily, columns, deployers, creators>>

GraphNext ==
  \/ NextBlock /\ UNCHANGED <<squidVars, graph>>
  \/ \E s \in Services, config \in Configs : ServiceCreated(s, config) \/ UpdateService(s, config)
  \/ \E s \in Services, a \in Agents, o \in Operators : InstanceRegistered(s, a, o)
  \/ \E s \in Services, m \in Multisigs, sender \in Senders : MultisigCreated(s, m, sender)
  \/ \E s \in Services : ServiceTerminated(s)
  \/ \E m \in Multisigs : SafeExecuted(m)
  \/ \E s \in Services, i \in Identities : ServiceAgentLinked(s, i)
  \/ \E i \in Identities, m \in Multisigs : AgentWalletSet(i, m)
  \/ \E i \in Identities, key \in Keys, text \in Texts : MetadataSet(i, key, text)

GraphSpec == GraphInit /\ [][GraphNext]_graphVars

-----------------------------------------------------------------------------
(* Properties. *)

\* What the squid shows of a row, in the columns of the subgraph's.
ShownService(s) == IF services[s] = NoRow THEN NoRow ELSE WholeService(services[s], columns[s])
ShownMultisig(m) ==
  IF multisigs[m] = NoRow THEN NoRow
  ELSE [service |-> multisigs[m].service, agentIds |-> multisigs[m].agentIds,
        creator |-> deployers[m].creator, created |-> deployers[m].created]

\* The squid's tables are the subgraph's.
SameRows ==
  /\ graph.service = [s \in Services |-> ShownService(s)]
  /\ graph.multisig = [m \in Multisigs |-> ShownMultisig(m)]
  /\ \A p \in Services \X Agents :
       graph.registration[p] = IF registered[p] = 0 THEN NoRow ELSE registered[p]
  /\ graph.operator = operators /\ graph.creator = creators
  /\ graph.totalOperators = totalOperators
  /\ graph.activity = activity
  /\ graph.uniqueAgent = uniqueAgents /\ graph.uniqueCount = uniqueCount
  /\ graph.performance = performance /\ graph.agentMultisig = agentMultisigs
  /\ graph.agentTxs = agentTxs
  /\ graph.activeMultisig = activeMultisigs /\ graph.activeCount = activeCount
  /\ graph.global = global /\ graph.metadata = metadata

\* But for the identities: "a MetadataSet that lands before its
\* ServiceAgentLinked creates the ERC8004Agent row here" (README.md:85), and
\* such a row has no wallet and no service yet.
SameIdentities ==
  \A i \in Identities :
    \/ identities[i] = graph.identity[i]
    \/ /\ graph.identity[i] = NoRow /\ identities[i] = NoValue
       /\ \E key \in Keys : metadata[<<i, key>>] \in Texts
       /\ \A s \in Services : columns[s].identity # i

\* The squid keeps the rows the subgraph keeps, "ported branch-for-branch"
\* (handlers.ts:1): services, multisigs, operators, daily activity, metadata, and the
\* identities but for those that have metadata only (README.md:85).
RowsAsSubgraph == SameRows /\ SameIdentities
=============================================================================
