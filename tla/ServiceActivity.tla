--------------------------- MODULE ServiceActivity ---------------------------
(***************************************************************************)
(* What the service-registry squid counts (service-registry/src/handlers.ts): *)
(* the agents of a service as they are registered, the one agent a multisig *)
(* stands for once it is deployed, and the daily activity of multisigs and *)
(* agents.  Which executions reach handleSafeExecution, and in which order, *)
(* is SafeLogs's subject; here any known Safe executes at any time.        *)
(*                                                                         *)
(* Days are counted from 1, an id row of a pair is the pair, and a counter *)
(* row nobody created is one that counts 0.                                *)
(***************************************************************************)
EXTENDS Integers, FiniteSets, Sequences, Sums

CONSTANTS Services, Agents, Operators, Multisigs,
          Day,        \* length of a day
          MaxTime,    \* bound on the time
          MaxEvents,    \* bound on the number of logs
          NoRow,      \* a row that does not exist
          NoAgent     \* -1

\* The rows of Service and Multisig.
ServiceRow  == [agentIds : Seq(Agents), multisig : Multisigs \cup {NoRow}]
MultisigRow == [service : Services, agentIds : Seq(Agents)]

ASSUME ServiceActivityAssumption ==
  /\ Day \in Nat \ {0} /\ MaxTime \in Nat \ {0} /\ MaxEvents \in Nat
  /\ IsFiniteSet(Agents) /\ IsFiniteSet(Multisigs) /\ IsFiniteSet(Operators)
  /\ NoAgent \notin Agents
  /\ NoRow \notin ServiceRow \cup MultisigRow \cup Nat

VARIABLES
  now,             \* timestamp of the block under way
  loggedAt,        \* number of logs so far
  executed,        \* how often each Safe executed on each day
  \* The tables.
  services,        \* Service rows: agentIds and multisig
  registered,      \* AgentRegistration.registrationTimestamp, 0 without a row
  multisigs,       \* Multisig rows: serviceId and agentIds
  operators, totalOperators,
  activity,        \* DailyServiceActivity.agentIds
  uniqueAgents,    \* DailyUniqueAgent link rows
  uniqueCount,     \* DailyUniqueAgents.count
  performance,     \* DailyAgentPerformance
  agentMultisigs,  \* DailyAgentMultisig link rows
  agentTxs,        \* AgentPerformance.txCount
  activeMultisigs, \* DailyActiveMultisig link rows
  activeCount,     \* DailyActiveMultisigs.count
  global           \* Global: txCount and lastUpdated

clock == <<now, loggedAt>>
registry == <<services, registered, multisigs, operators, totalOperators>>
daily == <<activity, uniqueAgents, uniqueCount, performance, agentMultisigs, agentTxs,
           activeMultisigs, activeCount, global>>
activityVars == <<clock, executed, registry, daily>>

dayTimestamp(t) == t \div Day
Days == 0 .. dayTimestamp(MaxTime)

ActivityTypeOK ==
  /\ now \in 1 .. MaxTime /\ loggedAt \in 0 .. MaxEvents
  /\ executed \in [Multisigs \X Days -> Nat]
  /\ services \in [Services -> {NoRow} \cup ServiceRow]
  /\ registered \in [Services \X Agents -> 0 .. MaxTime]
  /\ multisigs \in [Multisigs -> {NoRow} \cup MultisigRow]
  /\ operators \subseteq Operators /\ totalOperators \in Nat
  /\ activity \in [Days \X Services -> {NoRow} \cup Seq(Agents)]
  /\ uniqueAgents \subseteq Days \X Agents /\ uniqueCount \in [Days -> Nat]
  /\ performance \in [Days \X Agents -> [txCount : Nat, activeMultisigCount : Nat]]
  /\ agentMultisigs \subseteq Days \X Agents \X Multisigs
  /\ agentTxs \in [Agents -> Nat]
  /\ activeMultisigs \subseteq Days \X Multisigs /\ activeCount \in [Days -> Nat]
  /\ global \in [txCount : Nat, lastUpdated : 0 .. MaxTime]

ActivityInit ==
  /\ now = 1 /\ loggedAt = 0 /\ executed = [p \in Multisigs \X Days |-> 0]
  /\ services = [s \in Services |-> NoRow]
  /\ registered = [p \in Services \X Agents |-> 0]
  /\ multisigs = [m \in Multisigs |-> NoRow]
  /\ operators = {} /\ totalOperators = 0
  /\ activity = [p \in Days \X Services |-> NoRow]
  /\ uniqueAgents = {} /\ uniqueCount = [d \in Days |-> 0]
  /\ performance = [p \in Days \X Agents |-> [txCount |-> 0, activeMultisigCount |-> 0]]
  /\ agentMultisigs = {} /\ agentTxs = [a \in Agents |-> 0]
  /\ activeMultisigs = {} /\ activeCount = [d \in Days |-> 0]
  /\ global = [txCount |-> 0, lastUpdated |-> 0]

-----------------------------------------------------------------------------
(* The chain: logs follow one another, in the same block or in later ones.   *)

Logged == loggedAt < MaxEvents /\ loggedAt' = loggedAt + 1

\* The next block is later.
NextBlock ==
  /\ now < MaxTime /\ now' = now + 1
  /\ UNCHANGED <<loggedAt, executed, registry, daily>>

-----------------------------------------------------------------------------
(* ServiceRegistryL2.                                                        *)

\* getOrCreateService.
ServiceOrNew(s) ==
  IF services[s] = NoRow THEN [agentIds |-> <<>>, multisig |-> NoRow] ELSE services[s]

Occurrences(a, ids) == Cardinality({i \in DOMAIN ids : ids[i] = a})

pushUnique(ids, a) == IF Occurrences(a, ids) > 0 THEN ids ELSE Append(ids, a)

CreateService(s) ==
  /\ Logged
  /\ services' = [services EXCEPT ![s] = ServiceOrNew(s)]
  /\ UNCHANGED <<now, executed, registered, multisigs, operators, totalOperators, daily>>

\* updateUniqueOperators.
uniqueOperators(o) == IF o \in operators THEN totalOperators ELSE totalOperators + 1

RegisterInstance(s, a, o) ==
  /\ Logged
  /\ services' = [services EXCEPT ![s] =
       [ServiceOrNew(s) EXCEPT !.agentIds = pushUnique(@, a)]]
  /\ registered' = [registered EXCEPT ![<<s, a>>] = now]
  /\ operators' = operators \cup {o} /\ totalOperators' = uniqueOperators(o)
  /\ UNCHANGED <<now, executed, multisigs, daily>>

later(ts, bestTs) == ts > bestTs

\* The agent of the service registered last, the first of those listed on a tie.
mostRecentAgentId(s) ==
  LET ids == services[s].agentIds
      best[i \in 0 .. Len(ids)] ==
        IF i = 0 THEN [agent |-> NoAgent, ts |-> 0]
        ELSE LET ts == registered[<<s, ids[i]>>] IN
             IF ts # 0 /\ ts <= now /\ later(ts, best[i - 1].ts)
             THEN [agent |-> ids[i], ts |-> ts] ELSE best[i - 1]
  IN best[Len(ids)].agent

\* The agents a multisig deployed now stands for.
agentsOf(s) ==
  LET recent == mostRecentAgentId(s) IN
  IF recent \in Agents THEN <<recent>> ELSE services[s].agentIds

CreateMultisigRow(s, m) ==
  /\ Logged
  /\ IF services[s] = NoRow THEN UNCHANGED <<services, multisigs>>
     ELSE /\ services' = [services EXCEPT ![s] = [@ EXCEPT !.multisig = m]]
          /\ multisigs' = [multisigs EXCEPT ![m] = [service |-> s, agentIds |-> agentsOf(s)]]
  /\ UNCHANGED <<now, executed, registered, operators, totalOperators, daily>>

TerminateService(s) ==
  /\ Logged
  /\ services' = [services EXCEPT ![s] =
       IF @ = NoRow THEN @ ELSE [agentIds |-> <<>>, multisig |-> NoRow]]
  /\ UNCHANGED <<now, executed, registered, multisigs, operators, totalOperators, daily>>

-----------------------------------------------------------------------------
(* The executions of a Safe with a Multisig row.                             *)

updateDailyActivity(d, row) ==
  activity' = [activity EXCEPT ![<<d, row.service>>] = row.agentIds]

\* Mutant: the link is keyed by the agent alone.
agentsNewEver(d, row) ==
  {a \in Agents : Occurrences(a, row.agentIds) > 0 /\ \A e \in Days : <<e, a>> \notin uniqueAgents}

\* The agents not yet linked to the day.
agentsNew(d, row) == {a \in Agents : Occurrences(a, row.agentIds) > 0 /\ <<d, a>> \notin uniqueAgents}

updateDailyUniqueAgents(d, row) ==
  /\ uniqueAgents' = uniqueAgents \cup {<<d, a>> : a \in agentsNew(d, row)}
  /\ uniqueCount' = [uniqueCount EXCEPT ![d] = @ + Cardinality(agentsNew(d, row))]

multisigLinked(d, a, m) == <<d, a, m>> \in agentMultisigs

updateDailyAgentPerformance(d, m, row) ==
  LET times(a) == Occurrences(a, row.agentIds)
      new(a) == times(a) > 0 /\ ~ multisigLinked(d, a, m) IN
  /\ performance' = [p \in Days \X Agents |->
       IF p[1] # d THEN performance[p]
       ELSE [txCount |-> performance[p].txCount + times(p[2]),
             activeMultisigCount |->
               performance[p].activeMultisigCount + (IF new(p[2]) THEN 1 ELSE 0)]]
  /\ agentMultisigs' = agentMultisigs \cup {<<d, a, m>> : a \in {b \in Agents : times(b) > 0}}
  /\ agentTxs' = [a \in Agents |-> agentTxs[a] + times(a)]

updateDailyActiveMultisigs(d, m) ==
  /\ activeMultisigs' = activeMultisigs \cup {<<d, m>>}
  /\ activeCount' = IF <<d, m>> \in activeMultisigs THEN activeCount
                    ELSE [activeCount EXCEPT ![d] = @ + 1]

updateGlobalMetrics ==
  global' = [txCount |-> global.txCount + 1, lastUpdated |-> now]

SafeExecution(m) ==
  /\ Logged
  /\ multisigs[m] # NoRow /\ services[multisigs[m].service] # NoRow
  /\ LET d == dayTimestamp(now) IN
       /\ updateDailyActivity(d, multisigs[m])
       /\ updateDailyUniqueAgents(d, multisigs[m])
       /\ updateDailyAgentPerformance(d, m, multisigs[m])
       /\ updateDailyActiveMultisigs(d, m)
       /\ updateGlobalMetrics
       /\ executed' = [executed EXCEPT ![<<m, d>>] = @ + 1]
  /\ UNCHANGED <<now, registry>>

-----------------------------------------------------------------------------
(* Properties. *)

\* A counter column is the number of its link rows: "two executions on one day
\* count once per day-entity" (tests/handlers.test.ts:194), whichever multisigs
\* and agents they are of.
CountsMatchLinks ==
  /\ \A d \in Days :
       /\ uniqueCount[d] = Cardinality({a \in Agents : <<d, a>> \in uniqueAgents})
       /\ activeCount[d] = Cardinality({m \in Multisigs : <<d, m>> \in activeMultisigs})
       /\ \A a \in Agents : performance[<<d, a>>].activeMultisigCount
            = Cardinality({m \in Multisigs : <<d, a, m>> \in agentMultisigs})
  /\ totalOperators = Cardinality(operators)

\* The three daily tables, that different functions keep, tell the same day: an
\* agent was active when a multisig of its was, and a multisig was when it
\* executed.
DaysAgree ==
  \A d \in Days :
    /\ \A a \in Agents :
         /\ <<d, a>> \in uniqueAgents <=> \E m \in Multisigs : <<d, a, m>> \in agentMultisigs
         /\ performance[<<d, a>>].activeMultisigCount <= performance[<<d, a>>].txCount
    /\ \A m \in Multisigs :
         /\ <<d, m>> \in activeMultisigs <=> executed[<<m, d>>] > 0
         /\ (\E a \in Agents : <<d, a, m>> \in agentMultisigs) => <<d, m>> \in activeMultisigs

\* Executions: of a day by agent and by multisig, and of an agent by day.
ByAgent(d)    == [a \in Agents |-> performance[<<d, a>>].txCount]
ByMultisig(d) == [m \in Multisigs |-> executed[<<m, d>>]]
ByDay(a)      == [d \in Days |-> performance[<<d, a>>].txCount]

\* "Most recently registered agent, not all agents [...] to avoid double
\* counting" (handlers.ts:350-351): an execution counts for one agent at most, so
\* that the agents of a day did not execute more than its multisigs, and all of
\* them not more than Global says.
NoDoubleCounting ==
  /\ \A d \in Days : Total(ByAgent(d), Agents) <= Total(ByMultisig(d), Multisigs)
  /\ \A a \in Agents : agentTxs[a] = Total(ByDay(a), Days)
  /\ Total(agentTxs, Agents) <= global.txCount

\* mostRecentAgentId finds a listed agent whenever there is one, though it
\* compares with timestamps that may have been set when the service had other
\* agents: one registered last, and the first listed of those ("on a tie the
\* first candidate", logic.ts:40-41).
MostRecentIsLatest ==
  \A s \in Services : services[s] # NoRow /\ services[s].agentIds # <<>> =>
    LET ids == services[s].agentIds
        ts(i) == registered[<<s, ids[i]>>]
    IN \E k \in DOMAIN ids :
         /\ ids[k] = mostRecentAgentId(s)
         /\ \A i \in DOMAIN ids : ts(i) <= ts(k) /\ (i < k => ts(i) < ts(k))

\* The daily tables, that different functions keep, tell the same day
\* (handlers.ts:318-449): a counter column is the number of its link rows, an agent was
\* active when a multisig of its was, a multisig when it executed; and an execution
\* counts for one agent at most, the one mostRecentAgentId finds.
DailyTablesAgree ==
  ActivityTypeOK /\ CountsMatchLinks /\ DaysAgree /\ NoDoubleCounting /\ MostRecentIsLatest
=============================================================================
