----------------------------- MODULE Marketplace -----------------------------
(***************************************************************************)
(* Requests, deliveries and fees of the marketplace squid                  *)
(* (squids/marketplace/src/handlers.ts).  A transaction emits several logs *)
(* about one request, from the marketplace and from the mech, and each     *)
(* handler sees one of them: what a request, a delivery or a fee counts    *)
(* for must come out once whichever handlers see it.                       *)
(*                                                                         *)
(* The handlers keep nothing between batches, so that reorganisations and  *)
(* restarts add nothing here: see EntityCache.  Rows that only record an   *)
(* event and counters of events (totalMechs, totalMarketplaceDeliveries,   *)
(* ...) are left out.                                                      *)
(***************************************************************************)
EXTENDS Integers, FiniteSets, Sequences, SequencesExt, Sums

CONSTANTS Services, Accounts, Agents,
          Mechs,        \* mech addresses
          ServiceOf,    \* the service of each mech
          Strangers,    \* those that no factory ever created
          Unlisted,     \* those of a factory that the tables of constants.ts lack
          Founded,      \* those that exist at the start
          Registered,   \* the services that exist at the start
          Multisigs,    \* the multisigs known at the start: [subset of Accounts -> Services]
          Hashes,       \* configuration and metadata hashes
          Karma,        \* karma changes
          Ids,          \* request ids
          Rates,        \* delivery rates
          Prices,       \* USD per unit, 0 when the price is unavailable
          Calls,        \* the kinds of contract calls
          MaxCalls,     \* bound on the number of calls
          NoRow, NoService, NoRate, NoFee, NoMultisig

RequestRow == [sender : Accounts, priority : Mechs, service : Services \cup {NoService},
               delivered : BOOLEAN, priced : BOOLEAN, fee : Nat \cup {NoFee}]
MarkerRow  == [marketplace : BOOLEAN, payload : BOOLEAN]
DeliverRow == [offChain : BOOLEAN, rate : Rates \cup {NoRate}]
MechRow    == [address : Mechs, rate : Rates \cup {NoRate}, config : Hashes, owner : Accounts,
               karma : Int, received : Nat, self : Nat, others : Nat, deliveries : Nat]
ServiceRow == [config : Hashes, latest : Accounts \cup {NoMultisig},
               historical : SUBSET Accounts, requests : Nat, deliveries : Nat]
SenderRow  == [requests : Nat, offChain : Nat, transactions : Nat, marketplace : Nat,
               ata : Nat, fees : Nat]
TotalsRow  == [marketplace : Nat, requests : Nat, offChain : Nat, deliveries : Nat,
               transactions : Nat, ata : Nat, fees : Nat]

\* What a transaction's logs say.
Log ==
  [op : {"factory", "rate"}, mech : Mechs, rate : Rates]
    \cup [op : {"createMech"}, mech : Mechs]
    \cup [op : {"createService", "update"}, service : Services, config : Hashes]
    \cup [op : {"multisig", "transfer"}, service : Services, account : Accounts]
    \cup [op : {"register"}, service : Services, agent : Agents]
    \cup [op : {"terminate"}, service : Services]
    \cup [op : {"metadata"}, service : Services, hash : Hashes]
    \cup [op : {"karma"}, service : Services, mech : Mechs, change : Karma]
    \cup [op : {"mechRequest"}, mech : Mechs, id : Ids, ipfs : BOOLEAN]
    \cup [op : {"request", "batch"}, mech : Mechs, requester : Accounts, ids : SUBSET Ids]
    \cup [op : {"delivery"}, mech : Mechs, ids : SUBSET Ids, won : SUBSET Ids]
    \cup [op : {"mechDeliver", "signed"}, mech : Mechs, id : Ids, rate : Rates]

ASSUME MarketplaceAssumption ==
  /\ ServiceOf \in [Mechs -> Services]
  /\ Strangers \subseteq Mechs /\ Unlisted \subseteq Mechs
  /\ Founded \subseteq Mechs \ (Strangers \cup Unlisted)
  /\ \A m, n \in Founded : ServiceOf[m] = ServiceOf[n] => m = n
  /\ DOMAIN Multisigs \subseteq Accounts
  /\ \A a \in DOMAIN Multisigs : Multisigs[a] \in Registered
  /\ Registered \subseteq Services /\ {ServiceOf[m] : m \in Founded} \subseteq Registered
  /\ Karma \subseteq Int
  /\ IsFiniteSet(Services) /\ IsFiniteSet(Ids) /\ IsFiniteSet(Accounts)
  /\ Accounts # {} /\ Hashes # {}
  /\ Rates \subseteq Nat /\ Prices \subseteq Nat /\ MaxCalls \in Nat
  /\ NoService \notin Services /\ NoRate \notin Rates /\ NoFee \notin Nat
  /\ NoRow \notin RequestRow \cup MarkerRow \cup SenderRow \cup DeliverRow \cup MechRow
                    \cup ServiceRow
  /\ \A m \in Mechs : m \notin {"none", "asked", "done", "signed"}

VARIABLES
  \* The contracts.
  minted,      \* how many mechs each service created
  advertised,  \* the maximum rate of each mech
  announced,   \* the mechs whose rate was in a log
  status,      \* of each request id; a mech: asked of that mech itself
  payloads,    \* the requests that carry an IPFS digest
  answered,    \* numTotalDeliveries
  calls,       \* calls made so far
  tx,          \* the transaction, and whether its recipient is the marketplace
  logs,        \* its logs still to handle
  \* The tables.
  createMechs, mechs, services, multisigs, agents, metadata, perAgent,
  requests, markers, delivers, senders, ataTxs, totals,
  \* The memory of a batch.
  pendingRates, pendingPayloads

chainVars == <<minted, advertised, announced, status, payloads, answered, calls, tx>>
mechVars  == <<createMechs, mechs, pendingRates>>
askVars   == <<requests, markers, pendingPayloads>>
ataVars   == <<ataTxs, totals>>
registryVars == <<multisigs, agents, metadata>>
vars == <<chainVars, logs, mechVars, services, registryVars, perAgent, askVars,
          delivers, senders, ataVars>>

NewMech(mech, rate, config, owner) ==
  [address |-> mech, rate |-> rate, config |-> config, owner |-> owner, karma |-> 0,
   received |-> 0, self |-> 0, others |-> 0, deliveries |-> 0]
NewService(config) == [config |-> config, latest |-> NoMultisig, historical |-> {},
                       requests |-> 0, deliveries |-> 0]
NewSender == [requests |-> 0, offChain |-> 0, transactions |-> 0, marketplace |-> 0,
              ata |-> 0, fees |-> 0]

TypeOK ==
  /\ logs \in Seq(Log)
  /\ mechs \in [Services -> {NoRow} \cup MechRow]
  /\ createMechs \subseteq Mechs \ Strangers
  /\ services \in [Services -> {NoRow} \cup ServiceRow]
  /\ \A a \in DOMAIN multisigs : a \in Accounts /\ multisigs[a] \in Services
  /\ metadata \in [Services -> {NoRow} \cup [hash : Hashes, mech : Mechs \cup {NoRow}]]
  /\ agents \in [Services -> Seq(Agents)] /\ perAgent \in [Agents -> Nat]
  /\ requests \in [Ids -> {NoRow} \cup RequestRow]
  /\ markers \in [Ids -> {NoRow} \cup MarkerRow]
  /\ delivers \in [Ids -> {NoRow} \cup DeliverRow]
  /\ senders \in [Accounts -> {NoRow} \cup SenderRow]
  /\ ataTxs \subseteq Nat
  /\ totals \in TotalsRow
  /\ pendingRates \in [Mechs -> Rates \cup {NoRate}] /\ pendingPayloads \subseteq Ids
  /\ logs = <<>> => pendingPayloads = {} /\ pendingRates = [m \in Mechs |-> NoRate]

FirstHash == CHOOSE h \in Hashes : TRUE

Init ==
  /\ minted = [s \in Services |-> Cardinality({m \in Founded : ServiceOf[m] = s})]
  /\ advertised \in [Mechs -> Rates] /\ announced = Founded
  /\ status = [r \in Ids |-> "none"] /\ payloads = {} /\ answered = 0
  /\ calls = 0 /\ tx = [id |-> 0, toMarketplace |-> TRUE, from |-> CHOOSE a \in Accounts : TRUE]
  /\ logs = <<>>
  /\ createMechs = Founded
  /\ mechs = [s \in Services |->
       IF \E m \in Founded : ServiceOf[m] = s
       THEN LET m == CHOOSE m \in Founded : ServiceOf[m] = s
            IN NewMech(m, advertised[m], FirstHash, tx.from)
       ELSE NoRow]
  /\ services = [s \in Services |-> IF s \in Registered THEN NewService(FirstHash) ELSE NoRow]
  /\ metadata = [s \in Services |-> NoRow]
  /\ multisigs = Multisigs
  /\ agents = [s \in Services |-> <<>>] /\ perAgent = [a \in Agents |-> 0]
  /\ requests = [r \in Ids |-> NoRow] /\ markers = [r \in Ids |-> NoRow]
  /\ delivers = [r \in Ids |-> NoRow]
  /\ senders = [a \in Accounts |-> NoRow]
  /\ ataTxs = {}
  /\ totals = [marketplace |-> 0, requests |-> 0, offChain |-> 0, deliveries |-> 0,
               transactions |-> 0, ata |-> 0, fees |-> 0]
  /\ pendingRates = [m \in Mechs |-> NoRate] /\ pendingPayloads = {}

-----------------------------------------------------------------------------
(* The contracts (external): each call emits its logs, in a transaction of   *)
(* its own or in one with earlier calls, that a Safe batches.  Only a call   *)
(* that is the whole transaction can have the marketplace as recipient.      *)

Each(ids, log(_)) == [k \in DOMAIN SetToSeq(ids) |-> log(SetToSeq(ids)[k])]

Emit(kind, emitted) ==
  /\ logs = <<>> /\ kind \in Calls /\ calls < MaxCalls
  /\ logs' = emitted
  /\ calls' = calls + 1
  /\ \/ \E to \in BOOLEAN, from \in Accounts :
          /\ to => kind \in {"request", "delivery", "signed"}
          /\ tx' = [id |-> tx.id + 1, toMarketplace |-> to, from |-> from]
     \/ ~ tx.toMarketplace /\ tx.id > 0 /\ UNCHANGED tx
  /\ UNCHANGED <<mechVars, services, registryVars, perAgent, askVars, delivers, senders, ataVars>>

\* The mech's factory logs the rate, and then the marketplace the mech: unless
\* the factory's log is one that is not decoded.
EmitCreateMech ==
  \E m \in {m \in Mechs \ (createMechs \cup Strangers) : services[ServiceOf[m]] # NoRow}, logged \in BOOLEAN :
    LET factory == [op |-> "factory", mech |-> m, rate |-> advertised[m]]
        create  == [op |-> "createMech", mech |-> m] IN
    /\ Emit("createMech", IF logged THEN <<factory, create>> ELSE <<create>>)
    /\ minted' = [minted EXCEPT ![ServiceOf[m]] = @ + 1]
    /\ announced' = IF logged THEN announced \cup {m} ELSE announced
    /\ UNCHANGED <<advertised, status, payloads, answered>>

EmitRate ==
  \E m \in createMechs, rate \in Rates :
    /\ Emit("rate", <<[op |-> "rate", mech |-> m, rate |-> rate]>>)
    /\ advertised' = [advertised EXCEPT ![m] = rate]
    /\ announced' = announced \cup {m}
    /\ UNCHANGED <<minted, status, payloads, answered>>

\* The registry and the contracts around it: a service is created, transferred or
\* updated, a multisig is deployed, an agent registered, a service terminated,
\* its metadata or the karma of its mech changed.
EmitRegistry ==
  \E s \in Services :
    LET registry(log) == Emit("registry", <<log>>) IN
    /\ \/ /\ services[s] = NoRow
          /\ registry([op |-> "createService", service |-> s, config |-> FirstHash])
       \/ /\ services[s] # NoRow
          /\ \/ \E a \in Accounts : \/ registry([op |-> "multisig", service |-> s, account |-> a])
                                  \/ registry([op |-> "transfer", service |-> s, account |-> a])
             \/ \E a \in Agents : registry([op |-> "register", service |-> s, agent |-> a])
             \/ registry([op |-> "terminate", service |-> s])
             \/ \E h \in Hashes : \/ registry([op |-> "update", service |-> s, config |-> h])
                                \/ registry([op |-> "metadata", service |-> s, hash |-> h])
       \/ \E m \in Mechs, k \in Karma :
            ServiceOf[m] = s /\ registry([op |-> "karma", service |-> s, mech |-> m, change |-> k])
    /\ UNCHANGED <<minted, advertised, announced, status, payloads, answered>>

New == {r \in Ids : status[r] = "none"}
NewStatus(ids, s) == status' = [r \in Ids |-> IF r \in ids THEN s ELSE status[r]]

\* Requests through the marketplace: each is logged by the priority mech before
\* the marketplace logs them all.
EmitRequest ==
  \E m \in createMechs, a \in Accounts, ids \in (SUBSET New) \ {{}}, ipfs \in BOOLEAN :
    LET ofMech(r) == [op |-> "mechRequest", mech |-> m, id |-> r, ipfs |-> ipfs] IN
    /\ Emit("request", Each(ids, ofMech) \o
              <<[op |-> "request", mech |-> m, requester |-> a, ids |-> ids]>>)
    /\ NewStatus(ids, "asked")
    /\ payloads' = IF ipfs THEN payloads \cup ids ELSE payloads
    /\ UNCHANGED <<minted, advertised, announced, answered>>

\* A mech may answer any request; what was answered before is not delivered, and
\* the marketplace may refuse others.
EmitDelivery ==
  \E m \in createMechs, ids \in (SUBSET {r \in Ids : status[r] \in {"asked", "done"}}) \ {{}},
     rate \in Rates :
  \E won \in SUBSET {r \in ids : status[r] = "asked"} :
    LET ofMech(r) == [op |-> "mechDeliver", mech |-> m, id |-> r, rate |-> rate] IN
    /\ Emit("delivery",
            <<[op |-> "delivery", mech |-> m, ids |-> ids, won |-> won]>> \o Each(won, ofMech))
    /\ NewStatus(won, "done")
    /\ answered' = answered + Cardinality(won)
    /\ UNCHANGED <<minted, advertised, announced, payloads>>

\* Signed deliveries, of requests made off chain or of one made on chain: one
\* log for each and one for the batch, in either order.
EmitSigned ==
  \E m \in createMechs, a \in Accounts, rate \in Rates, batchFirst \in BOOLEAN :
  \E ids \in ((SUBSET New) \ {{}}) \cup {{r} : r \in {i \in Ids : status[i] = "asked"}} :
    LET one(r) == [op |-> "signed", mech |-> m, id |-> r, rate |-> rate]
        batch == <<[op |-> "batch", mech |-> m, requester |-> a, ids |-> ids]>> IN
    /\ Emit("signed", IF batchFirst THEN batch \o Each(ids, one) ELSE Each(ids, one) \o batch)
    /\ NewStatus(ids \cap New, "signed")
    /\ answered' = answered + Cardinality(ids)
    /\ UNCHANGED <<minted, advertised, announced, payloads>>

\* A request made to the mech itself, and its delivery.
EmitDirect ==
  \E m \in createMechs, r \in Ids :
    /\ \/ /\ status[r] = "none"
          /\ Emit("direct", <<[op |-> "mechRequest", mech |-> m, id |-> r, ipfs |-> TRUE]>>)
          /\ NewStatus({r}, m) /\ payloads' = payloads \cup {r}
       \/ /\ status[r] = m
          /\ \E rate \in Rates :
               Emit("direct", <<[op |-> "mechDeliver", mech |-> m, id |-> r, rate |-> rate]>>)
          /\ UNCHANGED <<status, payloads>>
    /\ UNCHANGED <<minted, advertised, announced, answered>>

\* The same topics from contracts that are no mechs.
EmitForeign ==
  \E m \in Strangers, r \in Ids, rate \in Rates :
    /\ \/ Emit("foreign", <<[op |-> "mechRequest", mech |-> m, id |-> r, ipfs |-> TRUE]>>)
       \/ Emit("foreign", <<[op |-> "mechDeliver", mech |-> m, id |-> r, rate |-> rate]>>)
       \/ Emit("foreign", <<[op |-> "rate", mech |-> m, rate |-> rate]>>)
    /\ UNCHANGED <<minted, advertised, announced, status, payloads, answered>>

Contracts == EmitCreateMech \/ EmitRate \/ EmitRegistry \/ EmitRequest \/ EmitDelivery
             \/ EmitSigned \/ EmitDirect \/ EmitForeign

-----------------------------------------------------------------------------
(* Fees. *)

\* Has the mech address a CreateMech row?
Known(mech) == mech \in createMechs

\* A marketplace call that a Safe routes is taken for a direct one.
IsMarketplaceTransaction == tx.toMarketplace

\* Mutant: the fee is settled by every delivery.
ChargedAgain(r) ==
  /\ requests[r] # NoRow /\ requests[r].priced
  /\ markers[r] # NoRow /\ markers[r].marketplace

\* Is the fee of a request settled by this delivery?  Requests not made through
\* the marketplace, or to a mech without a known rate, have none.
Charged(r) ==
  /\ requests[r] # NoRow /\ requests[r].fee = NoFee /\ requests[r].priced
  /\ markers[r] # NoRow /\ markers[r].marketplace

\* convertFeeToUsd: nothing while the price is unavailable.
FeeToUsd(rate, price) == rate * price

\* Mutant: the sender has paid the last fee only.
PaidByReplacing(table, r, usd) ==
  [table EXCEPT ![requests[r].sender].fees = usd]

\* updateFeesOnDelivery, on the request, its sender and the totals.
PaidBy(table, r, usd) ==
  [table EXCEPT ![requests[r].sender].fees = @ + usd]
Paid(t, usd) == [t EXCEPT !.fees = @ + usd]

-----------------------------------------------------------------------------
(* Mechs and the registry. *)

\* getPaymentTypeFromFactory throws for a factory that is not listed.
PaymentTypeKnown(mech) == mech \notin Unlisted

\* Mech.id is the service: a second mech overwrites the first.
CreateMech(mech) ==
  /\ PaymentTypeKnown(mech)
  /\ createMechs' = createMechs \cup {mech}
  /\ mechs' = [mechs EXCEPT ![ServiceOf[mech]] = NewMech(mech, pendingRates[mech], services[ServiceOf[mech]].config, tx.from)]
  /\ pendingRates' = [pendingRates EXCEPT ![mech] = NoRate]
  /\ UNCHANGED <<services, registryVars, perAgent, askVars, delivers, senders, ataVars>>

FactoryCreate(mech, rate) ==
  /\ pendingRates' = [pendingRates EXCEPT ![mech] = rate]
  /\ UNCHANGED <<createMechs, mechs, services, registryVars, perAgent, askVars, delivers,
                 senders, ataVars>>

MaxDeliveryRateUpdated(mech, rate) ==
  LET s == ServiceOf[mech] IN
  /\ mechs' = IF Known(mech) /\ mechs[s].address = mech
              THEN [mechs EXCEPT ![s].rate = rate] ELSE mechs
  /\ UNCHANGED <<createMechs, pendingRates, services, registryVars, perAgent, askVars,
                 delivers, senders, ataVars>>

\* refreshMechDeliveryRate: an unknown rate is filled from a delivery.
ObservedRate(table, mech, rate) ==
  LET s == ServiceOf[mech] IN
  IF table[s].address = mech /\ table[s].rate = NoRate
  THEN [table EXCEPT ![s].rate = rate] ELSE table

\* updateServiceMultisig.
WithMultisig(service, account) ==
  IF services[service] = NoRow THEN services
  ELSE [services EXCEPT ![service] =
          [services[service] EXCEPT !.latest = account, !.historical = @ \cup {account}]]

\* Mutant: a multisig deployed again moves to its new service.
CreateMultisigMoving(service, account) ==
  /\ multisigs' = [a \in DOMAIN multisigs \cup {account} |->
                     IF a = account THEN service ELSE multisigs[a]]
  /\ services' = WithMultisig(service, account)
  /\ UNCHANGED <<agents, metadata, mechVars, perAgent, askVars, delivers, senders, ataVars>>

\* The multisig keeps its first service, and the service has it for its latest.
CreateMultisig(service, account) ==
  /\ multisigs' = [a \in DOMAIN multisigs \cup {account} |->
                     IF a \in DOMAIN multisigs THEN multisigs[a] ELSE service]
  /\ services' = WithMultisig(service, account)
  /\ UNCHANGED <<agents, metadata, mechVars, perAgent, askVars, delivers, senders, ataVars>>

CreateService(service, config) ==
  /\ services' = [services EXCEPT ![service] = NewService(config)]
  /\ agents' = [agents EXCEPT ![service] = <<>>]
  /\ UNCHANGED <<multisigs, metadata, mechVars, perAgent, askVars, delivers, senders, ataVars>>

\* Service.agentIds has each agent once, whatever instances are registered.
RegisterInstance(service, agent) ==
  /\ agents' = IF services[service] = NoRow \/ \E i \in DOMAIN agents[service] : agents[service][i] = agent
               THEN agents ELSE [agents EXCEPT ![service] = Append(@, agent)]
  /\ UNCHANGED <<multisigs, metadata, mechVars, services, perAgent, askVars, delivers, senders,
                 ataVars>>

TerminateService(service) ==
  /\ agents' = [agents EXCEPT ![service] = <<>>]
  /\ UNCHANGED <<multisigs, metadata, mechVars, services, perAgent, askVars, delivers, senders,
                 ataVars>>

\* The service's NFT moves: its Mech gets the new owner.
ServiceTransfer(service, to) ==
  /\ mechs' = IF mechs[service] = NoRow THEN mechs
              ELSE [mechs EXCEPT ![service].owner = to]
  /\ UNCHANGED <<createMechs, pendingRates, services, registryVars, perAgent, askVars, delivers,
                 senders, ataVars>>

UpdateService(service, config) ==
  /\ services' = IF services[service] = NoRow THEN services
                 ELSE [services EXCEPT ![service].config = config]
  /\ mechs' = IF mechs[service] = NoRow THEN mechs
              ELSE [mechs EXCEPT ![service].config = config]
  /\ UNCHANGED <<createMechs, pendingRates, registryVars, perAgent, askVars, delivers, senders,
                 ataVars>>

\* The Metadata row remembers the mech there was when it was last updated.
ComplementaryMetadataUpdated(service, hash) ==
  /\ metadata' = [metadata EXCEPT ![service] =
       [hash |-> hash,
        mech |-> IF mechs[service] # NoRow THEN mechs[service].address
                 ELSE IF @ = NoRow THEN NoRow ELSE @.mech]]
  /\ UNCHANGED <<multisigs, agents, mechVars, services, perAgent, askVars, delivers, senders,
                 ataVars>>

\* Karma is the service's: that of a mech it has replaced is added to the new one's.
MechKarmaChanged(mech, change) ==
  LET s == ServiceOf[mech] IN
  /\ mechs' = IF ~ Known(mech) \/ mechs[s] = NoRow THEN mechs
              ELSE [mechs EXCEPT ![s].karma = @ + change]
  /\ UNCHANGED <<createMechs, pendingRates, services, registryVars, perAgent, askVars, delivers,
                 senders, ataVars>>

-----------------------------------------------------------------------------
(* Requests. *)

ServiceOfMultisig(account) ==
  IF account \in DOMAIN multisigs THEN multisigs[account] ELSE NoService

OrNew(account) == IF senders[account] = NoRow THEN NewSender ELSE senders[account]

\* bumpRequestsPerAgent.
PerAgent(service, n) ==
  IF service = NoService THEN perAgent
  ELSE [a \in Agents |->
          perAgent[a] + n * Cardinality({i \in DOMAIN agents[service] : agents[service][i] = a})]

\* Mutant: every log of a transaction counts as ATA transactions.
CountAtaAgain(t, by) == [t EXCEPT !.ata = @ + by]

\* The transaction's first request or delivery counts as `by` ATA transactions.
CountAta(t, by) ==
  IF tx.id \in ataTxs THEN t ELSE [t EXCEPT !.ata = @ + by]

\* Is there an advertised rate to snapshot in the request?
Priced(mech) == Known(mech) /\ mechs[ServiceOf[mech]].rate # NoRate

\* updateMechCountersOnRequest, for n requests.
Received(mech, n) ==
  IF Known(mech) THEN [mechs EXCEPT ![ServiceOf[mech]].received = @ + n]
  ELSE mechs

\* The Request row, what an earlier log of the transaction put there kept where
\* this one has nothing to say.
Asked(r, sender, mech, service, priced) ==
  LET old == requests[r] IN
  [sender |-> sender, priority |-> mech, delivered |-> FALSE,
   service |-> IF service = NoService /\ old # NoRow THEN old.service ELSE service,
   priced  |-> priced \/ (old # NoRow /\ old.priced),
   fee     |-> IF old = NoRow THEN NoFee ELSE old.fee]

WithPayload(r) == r \in pendingPayloads \/ (markers[r] # NoRow /\ markers[r].payload)

Unparked(ids) == pendingPayloads \ ids

\* A sender and the totals after a log of n requests; `ata` when it is the first log
\* of a service's transaction.
SenderAsks(s, n, ata) ==
  [s EXCEPT !.transactions = @ + 1, !.marketplace = @ + 1, !.requests = @ + n,
            !.ata = IF ata THEN @ + 1 ELSE @]
TotalsAsked(t, n) ==
  [t EXCEPT !.marketplace = @ + 1, !.requests = @ + n, !.transactions = @ + 1]

MarketplaceRequest(mech, requester, ids) ==
  LET n       == Cardinality(ids)
      service == ServiceOfMultisig(requester)
      ata     == service # NoService /\ tx.id \notin ataTxs
  IN
  /\ senders' = [senders EXCEPT ![requester] = SenderAsks(OrNew(requester), n, ata)]
  /\ requests' = [r \in Ids |->
       IF r \in ids
       THEN Asked(r, requester, mech, service, Priced(mech))
       ELSE requests[r]]
  /\ services' = IF service = NoService THEN services
                 ELSE [services EXCEPT ![service].requests = @ + n]
  /\ mechs' = Received(mech, n)
  /\ markers' = [r \in Ids |-> IF r \in ids
                               THEN [marketplace |-> TRUE, payload |-> WithPayload(r)]
                               ELSE markers[r]]
  /\ pendingPayloads' = Unparked(ids)
  /\ totals' = TotalsAsked(IF ata THEN CountAta(totals, 1) ELSE totals, n)
  /\ ataTxs' = IF ata THEN ataTxs \cup {tx.id} ELSE ataTxs
  /\ perAgent' = PerAgent(service, n)
  /\ UNCHANGED <<createMechs, pendingRates, registryVars, delivers>>

\* The mech's own log of a request.  When the transaction went to any other
\* contract it is taken for one made to the mech, and creates the Request.
MechRequest(mech, r, ipfs) ==
  LET direct == Known(mech) /\ ~ IsMarketplaceTransaction IN
  /\ IF direct
     THEN /\ requests' = [requests EXCEPT ![r] = Asked(r, tx.from, mech, ServiceOf[mech], FALSE)]
          /\ senders' = [senders EXCEPT ![tx.from] = OrNew(tx.from)]
     ELSE UNCHANGED <<requests, senders>>
  /\ IF Known(mech) /\ ipfs
     THEN IF markers[r] # NoRow
          THEN /\ markers' = [markers EXCEPT ![r].payload = TRUE]
               /\ UNCHANGED pendingPayloads
          ELSE IF direct
          THEN /\ markers' = [markers EXCEPT ![r] = [marketplace |-> FALSE, payload |-> TRUE]]
               /\ UNCHANGED pendingPayloads
          ELSE /\ pendingPayloads' = pendingPayloads \cup {r}
               /\ UNCHANGED markers
     ELSE UNCHANGED <<markers, pendingPayloads>>
  /\ UNCHANGED <<mechVars, services, registryVars, perAgent, delivers, ataVars>>

-----------------------------------------------------------------------------
(* Deliveries. *)

\* updateMechCountersOnDelivery, for these requests delivered by the mech.
Counted(table, ids, mech) ==
  LET of(s) == {r \in ids : Known(requests[r].priority) /\ ServiceOf[requests[r].priority] = s}
      own(s) == {r \in of(s) : requests[r].priority = mech}
  IN [s \in Services |->
        IF table[s] = NoRow THEN NoRow
        ELSE [table[s] EXCEPT !.self = @ + Cardinality(own(s)),
                              !.others = @ + Cardinality(of(s) \ own(s))]]

Delivered(r) == [requests[r] EXCEPT !.delivered = TRUE]

\* incrementServiceDeliveries, n times.
DeliveredBy(s, n) == [services EXCEPT ![s].deliveries = @ + n]

Undelivered(ids, won) ==
  {r \in ids : r \in won /\ requests[r] # NoRow /\ ~ requests[r].delivered}

MarketplaceDelivery(mech, ids, won) ==
  LET done == Undelivered(ids, won)
      n    == Cardinality(done)
      s    == ServiceOf[mech]
      counted == Counted(mechs, done, mech)
  IN
  /\ requests' = [r \in Ids |-> IF r \in done THEN Delivered(r) ELSE requests[r]]
  /\ mechs' = IF Known(mech)
              THEN [counted EXCEPT ![s].deliveries = @ + n] ELSE counted
  /\ services' = IF Known(mech) THEN DeliveredBy(s, n) ELSE services
  /\ delivers' = [r \in Ids |->
       IF r \notin done THEN delivers[r]
       ELSE [offChain |-> FALSE, rate |-> IF delivers[r] = NoRow THEN NoRate ELSE delivers[r].rate]]
  /\ totals' = LET t == CountAta(totals, 1) IN
       [t EXCEPT !.deliveries = @ + n, !.transactions = @ + 1]
  /\ ataTxs' = ataTxs \cup {tx.id}
  /\ UNCHANGED <<createMechs, pendingRates, registryVars, perAgent, markers, pendingPayloads,
                 senders>>

IsNewDelivery(r) == requests[r] # NoRow /\ requests[r].fee = NoFee /\ ~ requests[r].delivered

\* The mech's own log of a delivery.
MechDeliver(mech, r, rate, price) ==
  IF ~ Known(mech)
  THEN UNCHANGED <<mechVars, services, registryVars, perAgent, askVars, delivers, senders, ataVars>>
  ELSE LET
      direct  == ~ IsMarketplaceTransaction
      row     == requests[r]
      isNew   == IsNewDelivery(r)
      counted == IF direct /\ isNew THEN Counted(mechs, {r}, mech) ELSE mechs
      usd     == FeeToUsd(rate, price)
      t       == IF direct THEN CountAta(totals, 1) ELSE totals
      updated == IF isNew THEN Delivered(r) ELSE row
      s       == ServiceOf[mech]
  IN
  /\ requests' = [requests EXCEPT ![r] =
                    IF Charged(r) THEN [updated EXCEPT !.fee = usd] ELSE updated]
  /\ IF Charged(r)
     THEN senders' = PaidBy(senders, r, usd) /\ totals' = Paid(t, usd)
     ELSE totals' = t /\ UNCHANGED senders
  /\ mechs' = ObservedRate(counted, mech, rate)
  /\ services' = IF direct /\ isNew THEN DeliveredBy(s, 1) ELSE services
  /\ ataTxs' = IF direct THEN ataTxs \cup {tx.id} ELSE ataTxs
  /\ delivers' = [delivers EXCEPT ![r] = [offChain |-> FALSE, rate |-> rate]]
  /\ UNCHANGED <<createMechs, pendingRates, registryVars, perAgent, markers, pendingPayloads>>

\* Mutant: the batch, that has no rate, clears the one there is.
SignedRowClearing(r, rate) == [offChain |-> TRUE, rate |-> rate]

\* The row that persistSignedDeliver leaves; the batch has no rate.
SignedRow(r, rate) ==
  [offChain |-> TRUE,
   rate |-> IF rate = NoRate /\ delivers[r] # NoRow THEN delivers[r].rate ELSE rate]

SignedDeliver(r, rate, price) ==
  /\ IF Charged(r)
     THEN /\ requests' = [requests EXCEPT ![r].fee = FeeToUsd(rate, price)]
          /\ senders' = PaidBy(senders, r, FeeToUsd(rate, price))
          /\ totals' = Paid(totals, FeeToUsd(rate, price))
     ELSE UNCHANGED <<requests, senders, totals>>
  /\ delivers' = [delivers EXCEPT ![r] = SignedRow(r, rate)]
  /\ UNCHANGED <<mechVars, services, registryVars, perAgent, markers, pendingPayloads, ataTxs>>

\* A sender and the totals after n signed deliveries.
SenderSigned(s, n, ata) ==
  [s EXCEPT !.offChain = @ + n, !.requests = @ + n, !.transactions = @ + 1,
            !.ata = IF ata THEN @ + 1 ELSE @]
TotalsSigned(t, n) ==
  [t EXCEPT !.requests = @ + n, !.offChain = @ + n, !.deliveries = @ + n,
            !.transactions = @ + 2]

DeliveryWithSignatures(mech, requester, ids) ==
  LET n       == Cardinality(ids)
      s       == ServiceOf[mech]
      service == ServiceOfMultisig(requester)
      ata     == service # NoService /\ tx.id \notin ataTxs
  IN
  /\ delivers' = [r \in Ids |-> IF r \in ids THEN SignedRow(r, NoRate) ELSE delivers[r]]
  /\ mechs' = IF Known(mech)
              THEN [mechs EXCEPT ![s] = [mechs[s] EXCEPT !.deliveries = @ + n, !.received = @ + n,
                                                         !.self = @ + n]]
              ELSE mechs
  /\ senders' = [senders EXCEPT ![requester] = SenderSigned(OrNew(requester), n, ata)]
  /\ totals' = TotalsSigned(CountAta(totals, IF ata THEN 2 ELSE 1), n)
  /\ ataTxs' = ataTxs \cup {tx.id}
  /\ perAgent' = PerAgent(service, n)
  /\ UNCHANGED <<createMechs, pendingRates, services, registryVars, askVars>>

-----------------------------------------------------------------------------
(* The batch handler: the next log of the transaction is dispatched. *)

Dispatch(log, price) ==
  \/ log.op = "factory" /\ FactoryCreate(log.mech, log.rate)
  \/ log.op = "createMech" /\ CreateMech(log.mech)
  \/ log.op = "rate" /\ MaxDeliveryRateUpdated(log.mech, log.rate)
  \/ log.op = "createService" /\ CreateService(log.service, log.config)
  \/ log.op = "multisig" /\ CreateMultisig(log.service, log.account)
  \/ log.op = "register" /\ RegisterInstance(log.service, log.agent)
  \/ log.op = "terminate" /\ TerminateService(log.service)
  \/ log.op = "transfer" /\ ServiceTransfer(log.service, log.account)
  \/ log.op = "update" /\ UpdateService(log.service, log.config)
  \/ log.op = "metadata" /\ ComplementaryMetadataUpdated(log.service, log.hash)
  \/ log.op = "karma" /\ MechKarmaChanged(log.mech, log.change)
  \/ log.op = "mechRequest" /\ MechRequest(log.mech, log.id, log.ipfs)
  \/ log.op = "request" /\ MarketplaceRequest(log.mech, log.requester, log.ids)
  \/ log.op = "delivery" /\ MarketplaceDelivery(log.mech, log.ids, log.won)
  \/ log.op = "mechDeliver" /\ MechDeliver(log.mech, log.id, log.rate, price)
  \/ log.op = "signed" /\ SignedDeliver(log.id, log.rate, price)
  \/ log.op = "batch" /\ DeliveryWithSignatures(log.mech, log.requester, log.ids)

Charges(log) == log.op \in {"mechDeliver", "signed"} /\ Charged(log.id)

HandleAt(price) ==
  /\ logs # <<>>
  /\ logs' = Tail(logs)
  /\ Dispatch(Head(logs), price)
  /\ UNCHANGED chainVars

\* The price matters to the logs that charge a fee only.
PossiblePrices == IF logs # <<>> /\ Charges(Head(logs)) THEN Prices ELSE {0}

Handle == \E price \in PossiblePrices : HandleAt(price)

Next == Contracts \/ Handle

Spec == Init /\ [][Next]_vars

-----------------------------------------------------------------------------
(* Properties. *)

Handled == logs = <<>>

Rows(table) == {k \in DOMAIN table : table[k] # NoRow}

\* "Matches on-chain numTotalDeliveries: only successful deliveries count"
\* (handlers.ts:832): whatever is delivered twice, signed, direct or foreign.
DeliveriesMatchChain == Handled => totals.deliveries = answered

\* The write-once guards keep the counters from double-incrementing
\* (logic.ts:45): a request delivered on chain counts for one delivery of a
\* service, though two logs report it and the second may look like a direct one.
DeliveriesMade(table) == [s \in DOMAIN table |-> IF table[s] = NoRow THEN 0 ELSE table[s].deliveries]
DeliveredRequests(table) == {r \in DOMAIN table : table[r] # NoRow /\ table[r].delivered}
EachDeliveryCountedOnce ==
  Total(DeliveriesMade(services), DOMAIN services) = Cardinality(DeliveredRequests(requests))

\* A mech's requests are delivered by itself, by others, or not yet.  A request
\* made to the mech itself counts when it is delivered only, and the counters
\* start over with a second mech of the service.
BacklogExact ==
  \A s \in Rows(mechs) : minted[s] = 1 /\ Handled =>
    LET own == {r \in Rows(requests) : ServiceOf[requests[r].priority] = s}
        viaMarketplace == {r \in own : markers[r] # NoRow /\ markers[r].marketplace}
        m == mechs[s]
    IN m.received + Cardinality({r \in own \ viaMarketplace : requests[r].delivered})
         = m.self + m.others + Cardinality({r \in viaMarketplace : ~ requests[r].delivered})

\* What each sender paid and asked for, what each request cost, and which came
\* through the marketplace.
FeesPaid(table)     == [a \in DOMAIN table |-> IF table[a] = NoRow THEN 0 ELSE table[a].fees]
RequestsMade(table) == [a \in DOMAIN table |-> IF table[a] = NoRow THEN 0 ELSE table[a].requests]
FeesCost(table)     == [r \in DOMAIN table |-> IF table[r] = NoRow \/ table[r].fee = NoFee
                                               THEN 0 ELSE table[r].fee]
Marked(table)       == {r \in DOMAIN table : table[r] # NoRow /\ table[r].marketplace}

\* What senders paid, in total, is what requests finally cost.
FeesConserved ==
  /\ totals.fees = Total(FeesPaid(senders), DOMAIN senders)
  /\ totals.fees = Total(FeesCost(requests), DOMAIN requests)

\* Requests, on and off chain, are each some sender's.
SendersAddUp ==
  /\ totals.requests = Total(RequestsMade(senders), DOMAIN senders)
  /\ totals.requests = totals.offChain + Cardinality(Marked(markers))

\* The totals are those of the rows: what all senders paid is what all requests finally
\* cost, though a delivery may be logged by the mech, by the marketplace or by both, and
\* again later (updateFeesOnDelivery, handlers.ts:275-305), and each request counted, on
\* chain or off, is some sender's (handlers.ts:725-779).
TotalsAddUp == FeesConserved /\ SendersAddUp

\* What the senders that satisfy a predicate asked for, on chain and in all.
AskedOnChain(table) == [a \in DOMAIN table |-> IF table[a] = NoRow THEN 0
                                                ELSE table[a].requests - table[a].offChain]
OnChain(S) == Total(AskedOnChain(senders), S)
InAll(S) == Total(RequestsMade(senders), S)

\* Service.totalRequests "counts requests made BY this service's multisig"
\* (schema.graphql:50): all those of the multisigs known from the start, and no
\* more than those of the multisigs known now.
RequestsByService ==
  \A s \in Rows(services) :
    /\ OnChain({a \in DOMAIN Multisigs : Multisigs[a] = s}) <= services[s].requests
    /\ services[s].requests <= OnChain({a \in DOMAIN multisigs : multisigs[a] = s})

\* A mech has the configuration of its service, and a service every multisig that
\* its requests are counted for.
ServiceAndMechAgree ==
  /\ \A s \in Rows(mechs) : mechs[s].config = services[s].config
  /\ \A a \in DOMAIN multisigs : a \in DOMAIN Multisigs \/ a \in services[multisigs[a]].historical

\* An agent is counted at most once for each request of a multisig.
RequestsPerAgentBounded ==
  \A a \in DOMAIN perAgent : perAgent[a] <= InAll(DOMAIN multisigs)

\* Service.totalRequests "counts requests made BY this service's multisig"
\* (schema.graphql:50), and an agent is counted at most once for each of them,
\* though services get multisigs and agents meanwhile.
RequestsAttributed == RequestsByService /\ RequestsPerAgentBounded /\ ServiceAndMechAgree

\* A request whose fee is settled keeps it, its sender and its priority mech, though its
\* delivery may be logged again, signed, direct or by a mech of its own
\* (updateFeesOnDelivery, handlers.ts:275-291).
RequestSettledOnce ==
  [][\A r \in Rows(requests) : requests[r].fee # NoFee =>
       /\ requests'[r].fee = requests[r].fee
       /\ requests'[r].sender = requests[r].sender
       /\ requests'[r].priority = requests[r].priority]_vars

\* "actual delivery charges must not overwrite the advertised maximum;
\* MaxDeliveryRateUpdated is authoritative" (handlers.ts:348-349): a Mech whose
\* rate was ever in a log advertises what its current contract does.
AdvertisedRate ==
  Handled => \A s \in Rows(mechs) :
    mechs[s].address \in announced => mechs[s].rate = advertised[mechs[s].address]

\* The payload of a request, that only the mech's log has, reaches the marker
\* that the marketplace's log makes.
PayloadsKept ==
  Handled => \A r \in payloads : markers[r] # NoRow /\ markers[r].payload

\* "the null-guards make the two writes compose in either log order"
\* (handlers.ts:874-875).
SignedWritesCompose ==
  Handled => \A r \in DOMAIN status : status[r] = "signed" =>
    delivers[r] # NoRow /\ delivers[r].offChain /\ delivers[r].rate # NoRate

\* "The null-guards make the two writes compose in either log order"
\* (handlers.ts:874-875): the payload of a request, which only the mech's log has,
\* reaches the marker the marketplace's log makes, and the rate of a signed
\* delivery the row its event makes.  "Actual delivery charges must not overwrite the
\* advertised maximum; MaxDeliveryRateUpdated is authoritative" (handlers.ts:348-349): a
\* Mech whose rate was ever in a log advertises what its current contract does.
LogsCompose == PayloadsKept /\ SignedWritesCompose /\ AdvertisedRate

\* An agent transaction is counted once, whichever of its logs come first; "the
\* only path that can add 2 in one tx" (handlers.ts:990) has a service multisig
\* for the sender, whose own counter counts it.
AtaMade(table) == [a \in DOMAIN table |-> IF table[a] = NoRow THEN 0 ELSE table[a].ata]
AtaOncePerTransaction ==
  /\ Total(AtaMade(senders), DOMAIN senders) <= Cardinality(ataTxs)
  /\ Cardinality(ataTxs) <= totals.ata
  /\ totals.ata <= Cardinality(ataTxs) + Total(AtaMade(senders), DOMAIN senders)

\* "Matches on-chain numTotalDeliveries: only successful deliveries count"
\* (handlers.ts:832); the write-once guards keep the counters from double-
\* incrementing (logic.ts:45); and the requests of a mech are delivered by
\* itself, by others, or not yet - whatever is delivered twice, signed, direct or
\* by a foreign mech.  And an agent transaction is counted once, whichever of its logs
\* come first (handlers.ts:990).
RequestsCounted ==
  DeliveriesMatchChain /\ EachDeliveryCountedOnce /\ BacklogExact /\ AtaOncePerTransaction

\* "a non-multisig requester gets no service" (tests/handlers.test.ts:400).
ForeignersHaveNoService ==
  Handled => \A r \in Ids : status[r] = "asked" /\ requests[r].sender \notin DOMAIN multisigs =>
    requests[r].service = NoService
=============================================================================
