----------------------------- MODULE LegacyMechs -----------------------------
(***************************************************************************)
(* The mechs of Gnosis from before the marketplace, that two subgraphs     *)
(* index: mech (subgraphs/mech/src) and the legacy half of marketplace     *)
(* (subgraphs/marketplace/src), which "merges both legacy mech data (from  *)
(* this subgraph) and new Mech Marketplace data" (mech/README.md:7).       *)
(*                                                                         *)
(* `mech` and `merged` are their tables; a handler is an operator from     *)
(* tables to tables.  Those that both have alike are written once; where   *)
(* they differ, that of the marketplace has Merged in its name.  A mech is *)
(* created once for an agent, and named by it.  The id of a request is the *)
(* hash of its sender and its payload: it may be requested again.  IPFS    *)
(* has the payload of a request, `seen`, or not.                           *)
(***************************************************************************)
EXTENDS Naturals, FiniteSets, SequencesExt

CONSTANTS Agents,       \* ids of agents, of the mechs' registry and of the services'
          Services, Multisigs,
          Owners,       \* whom an agent may be minted for
          Ids,          \* requests
          SenderOf,     \* the sender of a request
          Titled,       \* the requests whose prompt has a question
          Founded,      \* the services, and the multisig of each, there are at the start
          MaxSetup,     \* bound on the logs of the registries
          MaxCalls,     \* bound on requests and deliveries
          MaxTxs,       \* bound on the transactions these are made in
          NoRow

Senders == {SenderOf[r] : r \in Ids}

LegacyAssumption ==
  /\ MaxSetup \in Nat /\ MaxCalls \in Nat /\ MaxTxs \in Nat
  /\ Titled \subseteq Ids /\ DOMAIN SenderOf = Ids
  /\ DOMAIN Founded \subseteq Services /\ \A s \in DOMAIN Founded : Founded[s] \in Multisigs

VARIABLES mech, merged,  \* the tables of the two subgraphs
          setups, tx,
          calls,         \* requests and deliveries, in order
          disturbed      \* a multisig changed its service, or an agent of a mech was registered

legacyVars == <<mech, merged, setups, tx, calls, disturbed>>

-----------------------------------------------------------------------------
(* Rows.                                                                     *)

NewService == [agentIds |-> {}, latest |-> NoRow, historical |-> {}, requests |-> 0, deliveries |-> 0]
NewSender == [requests |-> 0, transactions |-> 0, ata |-> 0, predict |-> 0]

\* The services of `Founded`, each with its multisig.
NoTables ==
  [service |-> [s \in Services |-> IF s \notin DOMAIN Founded THEN NoRow
                  ELSE [NewService EXCEPT !.latest = Founded[s], !.historical = {Founded[s]}]],
   multisig |-> [m \in Multisigs |->
                   IF \E s \in DOMAIN Founded : Founded[s] = m
                   THEN CHOOSE s \in DOMAIN Founded : Founded[s] = m ELSE NoRow],
   association |-> [a \in Agents |-> NoRow],
   agent |-> [a \in Agents |-> NoRow], created |-> {},
   request |-> [r \in Ids |-> NoRow], delivery |-> <<>>, parsed |-> {},
   sender |-> [o \in Senders |-> NewSender], perAgent |-> [a \in Agents |-> 0], ata |-> {},
   global |-> [requests |-> 0, deliveries |-> 0, transactions |-> 0, ata |-> 0, predict |-> 0]]

LegacyInit ==
  /\ mech = NoTables /\ merged = NoTables
  /\ setups = 0 /\ tx = 0 /\ calls = <<>> /\ disturbed = FALSE

-----------------------------------------------------------------------------
(* The registries.                                                           *)

HandleCreateService(t, s) == [t EXCEPT !.service[s] = NewService]

UpdateServiceMultisig(t, s, m) ==
  IF t.service[s] = NoRow THEN t
  ELSE [t EXCEPT !.service[s].latest = m, !.service[s].historical = @ \cup {m}]

\* The row of the multisig is of the service that has it now.
HandleCreateMultisig(t, s, m) ==
  UpdateServiceMultisig([t EXCEPT !.multisig[m] = s], s, m)

\* Here, of the first that had it.
HandleMergedMultisig(t, s, m) ==
  IF t.multisig[m] = NoRow THEN HandleCreateMultisig(t, s, m) ELSE UpdateServiceMultisig(t, s, m)

HandleMergedRegisterInstance(t, s, a) ==
  IF t.service[s] = NoRow THEN t ELSE [t EXCEPT !.service[s].agentIds = @ \cup {a}]

\* The agent of a service is taken for the agent of the mech with its id.
HandleRegisterInstance(t, s, a) ==
  LET u == HandleMergedRegisterInstance(t, s, a)
  IN IF t.service[s] = NoRow \/ t.agent[a] = NoRow THEN u ELSE [u EXCEPT !.agent[a].service = s]

HandleTerminateService(t, s) ==
  IF t.service[s] = NoRow THEN t ELSE [t EXCEPT !.service[s].agentIds = {}]

GetServiceIdFromAgentId(t, a) ==
  IF t.association[a] \notin Multisigs THEN NoRow ELSE t.multisig[t.association[a]]

GetServiceIdFromMultisig(t, o) == IF o \in Multisigs THEN t.multisig[o] ELSE NoRow

\* An agent is minted: it stands for who gets it.
HandleTransfer(t, a, o) ==
  LET s == GetServiceIdFromMultisig(t, o)
      u == [t EXCEPT !.association[a] = o]
  IN IF u.agent[a] = NoRow \/ s = NoRow THEN u
     ELSE IF u.agent[a].service # NoRow THEN u ELSE [u EXCEPT !.agent[a].service = s]

NewAgent(s) == [service |-> s, transactions |-> 0]

HandleCreateAgent(t, a) ==
  IF t.agent[a] # NoRow THEN t ELSE [t EXCEPT !.agent[a] = NewAgent(NoRow)]

HandleCreateMech(t, a) ==
  LET s == GetServiceIdFromAgentId(t, a)
      u == [t EXCEPT !.created = @ \cup {a}]
  IN IF t.agent[a] = NoRow THEN [u EXCEPT !.agent[a] = NewAgent(s)]
     ELSE [u EXCEPT !.agent[a].service = s]

\* The factory's transaction.
HandleFactory(t, a, o) == HandleCreateMech(HandleCreateAgent(HandleTransfer(t, a, o), a), a)

\* Service of a mech: its agent's, or that of whoever got the agent.
GetServiceIdFromMech(t, a) ==
  IF a \notin t.created \/ t.agent[a] = NoRow THEN NoRow
  ELSE IF t.agent[a].service # NoRow THEN t.agent[a].service
  ELSE GetServiceIdFromAgentId(t, a)

-----------------------------------------------------------------------------
(* Requests and deliveries.                                                  *)

\* Mutant: every log is an agent's transaction.
CountAtaAgain(t, x) == [t EXCEPT !.ata = @ \cup {x}, !.global.ata = @ + 1]

\* A transaction is an agent's once, whichever of its logs comes first.
CountAta(t, x) ==
  IF x \in t.ata THEN t ELSE [t EXCEPT !.ata = @ \cup {x}, !.global.ata = @ + 1]

\* The counters of a request by `o`, for the service `s` that has it as multisig.
RequestMade(t, o, s, x) ==
  LET first == s # NoRow /\ x \notin t.ata
      u == [t EXCEPT !.sender[o].requests = @ + 1, !.sender[o].transactions = @ + 1,
                     !.sender[o].ata = IF first THEN @ + 1 ELSE @,
                     !.global.requests = @ + 1, !.global.transactions = @ + 1]
  IN IF s = NoRow THEN u ELSE CountAta(u, x)

RequestOfService(t, s) ==
  IF s = NoRow THEN t
  ELSE IF t.service[s] = NoRow THEN t
  ELSE LET u == [t EXCEPT !.service[s].requests = @ + 1]
       IN [u EXCEPT !.perAgent = [a \in Agents |-> IF a \in t.service[s].agentIds
                                                   THEN @[a] + 1 ELSE @[a]]]

HandleRequest(t, a, r, x) ==
  LET o == SenderOf[r]
      s == GetServiceIdFromMultisig(t, o)
      u == RequestOfService(RequestMade(t, o, s, x), s)
  IN [u EXCEPT !.request[r] = [sender |-> o, mech |-> a, service |-> s]]

SaveParsedRequestEntity(t, r) ==
  LET o == t.request[r].sender
      u == [t EXCEPT !.parsed = @ \cup {r}]
  IN IF r \in t.parsed THEN t
     ELSE IF r \notin Titled THEN u
     ELSE [u EXCEPT !.global.predict = @ + 1, !.sender[o].predict = @ + 1]

HandleMergedRequest(t, a, r, seen, x) ==
  LET o == SenderOf[r]
      s == GetServiceIdFromMultisig(t, o)
      u == RequestOfService(RequestMade(t, o, s, x), s)
      v == [u EXCEPT !.request[r] = [sender |-> o, mech |-> a, service |-> s,
                                     isDelivered |-> FALSE, deliveredByMech |-> NoRow]]
  IN IF seen THEN SaveParsedRequestEntity(v, r) ELSE v

\* The counters of a delivery by the mech, of the service `s`.
Delivered(t, a, s, x) ==
  LET u == [t EXCEPT !.global.deliveries = @ + 1, !.global.transactions = @ + 1]
      v == IF s = NoRow THEN u
           ELSE IF u.service[s] = NoRow THEN u ELSE [u EXCEPT !.service[s].deliveries = @ + 1]
      w == IF a \notin v.created \/ v.agent[a] = NoRow THEN v
           ELSE [v EXCEPT !.agent[a].transactions = @ + 1]
  IN CountAta(w, x)

Deliveries(t, r) == {k \in DOMAIN t.delivery : t.delivery[k].request = r}

\* Only the first delivery is the request's.
HandleDeliver(t, a, r, x) ==
  LET s == GetServiceIdFromMech(t, a)
      isFirst == t.request[r] # NoRow /\ Deliveries(t, r) = {}
      row == [mech |-> a, requestId |-> r, request |-> IF isFirst THEN r ELSE NoRow,
              service |-> s]
  IN Delivered([t EXCEPT !.delivery = Append(@, row)], a, s, x)

\* Here every one is, and the request is delivered by the last of them.
HandleMergedDeliver(t, a, r, x) ==
  LET s == GetServiceIdFromMech(t, a)
      isKnown == t.request[r] # NoRow
      row == [mech |-> a, requestId |-> r, request |-> IF isKnown THEN r ELSE NoRow,
              service |-> s]
      u == IF isKnown THEN [t EXCEPT !.request[r].isDelivered = TRUE,
                                     !.request[r].deliveredByMech = a] ELSE t
  IN Delivered([u EXCEPT !.delivery = Append(@, row)], a, s, x)

-----------------------------------------------------------------------------
(* The logs, handled by the two subgraphs.                                   *)

Setup ==
  /\ setups < MaxSetup /\ setups' = setups + 1
  /\ UNCHANGED <<tx, calls>>

CreateService(s) ==
  /\ mech.service[s] = NoRow /\ Setup
  /\ mech' = HandleCreateService(mech, s) /\ merged' = HandleCreateService(merged, s)
  /\ UNCHANGED disturbed

RegisterInstance(s, a) ==
  /\ mech.service[s] # NoRow /\ a \notin mech.service[s].agentIds /\ Setup
  /\ mech' = HandleRegisterInstance(mech, s, a)
  /\ merged' = HandleMergedRegisterInstance(merged, s, a)
  /\ disturbed' = (disturbed \/ mech.agent[a] # NoRow)

CreateMultisig(s, m) ==
  /\ mech.service[s] # NoRow /\ mech.service[s].latest # m /\ Setup
  /\ mech' = HandleCreateMultisig(mech, s, m)
  /\ merged' = HandleMergedMultisig(merged, s, m)
  /\ disturbed' = (disturbed \/ mech.multisig[m] \notin {NoRow, s})

Terminate(s) ==
  /\ mech.service[s] # NoRow /\ mech.service[s].agentIds # {} /\ Setup
  /\ mech' = HandleTerminateService(mech, s) /\ merged' = HandleTerminateService(merged, s)
  /\ UNCHANGED disturbed

CreateMech(a, o) ==
  /\ a \notin mech.created /\ Setup
  /\ mech' = HandleFactory(mech, a, o) /\ merged' = HandleFactory(merged, a, o)
  /\ UNCHANGED disturbed

\* In the transaction of the last one, or in a new one.
Call(op, a, r) ==
  /\ a \in mech.created /\ Len(calls) < MaxCalls
  /\ tx' \in {tx, tx + 1} \cap (1 .. MaxTxs)
  /\ calls' = Append(calls, [op |-> op, mech |-> a, id |-> r, tx |-> tx',
                             service |-> GetServiceIdFromMultisig(merged, SenderOf[r])])
  /\ UNCHANGED <<setups, disturbed>>

Request(a, r, seen) ==
  /\ Call("request", a, r)
  /\ mech' = HandleRequest(mech, a, r, tx')
  /\ merged' = HandleMergedRequest(merged, a, r, seen, tx')

Deliver(a, r) ==
  /\ Call("deliver", a, r)
  /\ mech' = HandleDeliver(mech, a, r, tx')
  /\ merged' = HandleMergedDeliver(merged, a, r, tx')

LegacyNext ==
  \/ \E s \in Services : CreateService(s) \/ Terminate(s)
  \/ \E s \in Services, a \in Agents : RegisterInstance(s, a)
  \/ \E s \in Services, m \in Multisigs : CreateMultisig(s, m)
  \/ \E a \in Agents, o \in Owners : CreateMech(a, o)
  \/ \E a \in Agents, r \in Ids, seen \in BOOLEAN : Request(a, r, seen)
  \/ \E a \in Agents, r \in Ids : Deliver(a, r)

LegacySpec == LegacyInit /\ [][LegacyNext]_legacyVars

-----------------------------------------------------------------------------
(* Properties. *)

CallsOf(op) == {k \in DOMAIN calls : calls[k].op = op}
AtaCalls == CallsOf("deliver") \cup {k \in CallsOf("request") : calls[k].service # NoRow}
SumOf(S, F(_)) == FoldSet(LAMBDA e, sum : sum + F(e), 0, S)

\* The counters of tables are those of the logs: of all, of each sender, of each
\* mech; an agent's transaction counts once, for its sender when a request was
\* the first log to make it one.
CountersTell(t) ==
  /\ t.global.requests = Cardinality(CallsOf("request"))
  /\ t.global.deliveries = Cardinality(CallsOf("deliver"))
  /\ t.global.transactions = Len(calls)
  /\ t.global.ata = Cardinality({calls[k].tx : k \in AtaCalls})
  /\ \A o \in Senders :
       LET first == {k \in AtaCalls : \A j \in AtaCalls : j < k => calls[j].tx # calls[k].tx}
           made == {k \in CallsOf("request") : SenderOf[calls[k].id] = o}
       IN /\ t.sender[o].requests = Cardinality(made)
          /\ t.sender[o].transactions = Cardinality(made)
          /\ t.sender[o].ata = Cardinality(first \cap made)
  /\ \A a \in t.created :
       t.agent[a].transactions = Cardinality({k \in CallsOf("deliver") : calls[k].mech = a})
  /\ SumOf({s \in Services : t.service[s] # NoRow}, LAMBDA s : t.service[s].requests)
       = Cardinality({k \in CallsOf("request") : calls[k].service # NoRow})
  /\ SumOf({s \in Services : t.service[s] # NoRow}, LAMBDA s : t.service[s].deliveries)
       = Cardinality({k \in DOMAIN t.delivery : t.delivery[k].service # NoRow})

\* Where the logs of a request are: its own, and the deliveries after the first
\* and after the last of them.
Requested(r) == {k \in CallsOf("request") : calls[k].id = r}
DeliveredSince(r, from(_)) ==
  {k \in CallsOf("deliver") : calls[k].id = r /\ \E j \in Requested(r) : from(j) /\ j < k}
SinceFirst(r) == DeliveredSince(r, LAMBDA j : TRUE)
SinceLast(r) == DeliveredSince(r, LAMBDA j : \A i \in Requested(r) : i <= j)

\* Of the deliveries since a request the first is its delivery in one subgraph,
\* "connecting delivery with request" only "if the Request exists and has no
\* delivery" (mech/src/agent-mech.ts:257-259), and all are in the other, where a
\* request made again waits again for one.
DeliveriesLinked ==
  \A r \in Ids :
    /\ Cardinality(Deliveries(mech, r)) = IF SinceFirst(r) = {} THEN 0 ELSE 1
    /\ Cardinality(Deliveries(merged, r)) = Cardinality(SinceFirst(r))
    /\ merged.request[r] # NoRow =>
         /\ merged.request[r].isDelivered <=> SinceLast(r) # {}
         /\ \A k \in SinceLast(r) :
              merged.request[r].deliveredByMech = calls[k].mech \/ \E j \in SinceLast(r) : k < j
    /\ mech.request[r] # NoRow => mech.request[r].mech = merged.request[r].mech

\* A request is counted as one for a prediction once, however often it is made,
\* for its sender and for all.
PredictionsCounted ==
  /\ merged.global.predict = Cardinality(merged.parsed \cap Titled)
  /\ merged.global.predict = SumOf(Senders, LAMBDA o : merged.sender[o].predict)

\* Once a delivery of a mech is some service's, all later ones are.
MechKeepsService(t) ==
  \A j, k \in DOMAIN t.delivery :
    j < k /\ t.delivery[j].mech = t.delivery[k].mech /\ t.delivery[j].service # NoRow
      => t.delivery[k].service = t.delivery[j].service

\* "Merges both legacy mech data (from this subgraph)" (mech/README.md:7): but for
\* multisigs that changed their service, and services with an agent that has the
\* id of a mech's, both have the same services, agents and requests.
SameServices ==
  ~ disturbed =>
    /\ mech.service = merged.service /\ mech.agent = merged.agent
    /\ mech.multisig = merged.multisig /\ mech.perAgent = merged.perAgent
    /\ \A r \in Ids : mech.request[r] # NoRow => mech.request[r].service = merged.request[r].service
    /\ \A k \in DOMAIN mech.delivery : mech.delivery[k].service = merged.delivery[k].service

LegacyMerged ==
  /\ CountersTell(mech) /\ CountersTell(merged)
  /\ DeliveriesLinked /\ PredictionsCounted /\ SameServices
  /\ MechKeepsService(merged) /\ (disturbed \/ MechKeepsService(mech))
=============================================================================
