--------------------------- MODULE MarketplaceGraph ---------------------------
(***************************************************************************)
(* The marketplace subgraph (subgraphs/marketplace/src/marketplace), which *)
(* the marketplace squid replaces: the same logs, handled by graph-node.   *)
(* A log comes to the handler of a data source, that of a mech exists once *)
(* its CreateMech was handled, and handlers keep what they hand over to    *)
(* each other in the store.                                                *)
(*                                                                         *)
(* Both handle each log at the same price, so that their tables can be     *)
(* compared.  The subgraph's tables have the squid's names after a g.      *)
(***************************************************************************)
EXTENDS Marketplace

VARIABLES
  gCreateMechs, gMechs, gPendingRates,   \* CreateMech, Mech, PendingMechData
  gSources,                              \* the mechs with a data source
  gServices, gMultisigs, gAgents, gMetadata,
  gRequests, gMarkers, gDelivers,        \* Request, RequestToMarketplace, DeliverForMarketplace
  gParsed,                               \* the files asked for, of requests and deliveries
  gSenders, gPerAgent, gAtaTxs, gTotals

gMechVars     == <<gCreateMechs, gMechs, gPendingRates, gSources>>
gRegistryVars == <<gMultisigs, gAgents, gMetadata>>
gAskVars      == <<gRequests, gMarkers, gParsed>>
gAtaVars      == <<gAtaTxs, gTotals>>
gVars == <<gMechVars, gServices, gRegistryVars, gPerAgent, gAskVars, gDelivers, gSenders, gAtaVars>>

\* The subgraph starts with what the squid starts with.
GInit ==
  /\ gCreateMechs = createMechs /\ gMechs = mechs /\ gPendingRates = pendingRates
  /\ gSources = createMechs
  /\ gServices = services /\ gMultisigs = multisigs /\ gAgents = agents /\ gMetadata = metadata
  /\ gRequests = requests /\ gMarkers = markers /\ gDelivers = delivers /\ gParsed = {}
  /\ gSenders = senders /\ gPerAgent = perAgent /\ gAtaTxs = ataTxs /\ gTotals = totals

\* Of a table without a row there is nothing to update.
Update(table, key, by(_)) ==
  IF table[key] = NoRow THEN table ELSE [table EXCEPT ![key] = by(table[key])]

-----------------------------------------------------------------------------
(* Mechs. *)

gKnown(mech) == mech \in gCreateMechs

\* The row of the mech's service, whichever mech it is of.
getMech(table, mech) == IF gKnown(mech) THEN table[ServiceOf[mech]] ELSE NoRow
UpdateMech(table, mech, by(_)) ==
  IF getMech(table, mech) = NoRow THEN table ELSE [table EXCEPT ![ServiceOf[mech]] = by(@)]

\* getPaymentTypeFromFactory: an unknown factory stops the subgraph.
gPaymentTypeKnown(mech) == mech \notin Unlisted

handleMechFactoryCreate(mech, rate) ==
  /\ gPendingRates' = [gPendingRates EXCEPT ![mech] = rate]
  /\ UNCHANGED <<gCreateMechs, gMechs, gSources, gServices, gRegistryVars, gPerAgent, gAskVars,
                 gDelivers, gSenders, gAtaVars>>

\* The create...MechFromFactory of a network: an unknown factory has no template.
HasTemplate(mech) == mech \notin Unlisted

\* createDataSourceForMechContract.
WithDataSource(mech) == IF HasTemplate(mech) THEN gSources \cup {mech} ELSE gSources

handleCreateMech(mech) ==
  LET s == ServiceOf[mech] IN
  /\ gPaymentTypeKnown(mech)
  /\ gCreateMechs' = gCreateMechs \cup {mech}
  /\ gMechs' = [gMechs EXCEPT ![s] =
       NewMech(mech, gPendingRates[mech], gServices[s].config, tx.from)]
  /\ gPendingRates' = [gPendingRates EXCEPT ![mech] = NoRate]
  /\ gSources' = WithDataSource(mech)
  /\ UNCHANGED <<gServices, gRegistryVars, gPerAgent, gAskVars, gDelivers, gSenders, gAtaVars>>

\* Mutant: a mech that was replaced reprices the one that replaced it.
updateMaxDeliveryRateStale(mech, rate) ==
  /\ gMechs' = [gMechs EXCEPT ![ServiceOf[mech]] = [@ EXCEPT !.rate = rate]]
  /\ UNCHANGED <<gCreateMechs, gPendingRates, gSources, gServices, gRegistryVars, gPerAgent,
                 gAskVars, gDelivers, gSenders, gAtaVars>>

\* Events of a mech that was replaced are ignored.
updateMaxDeliveryRate(mech, rate) ==
  LET s == ServiceOf[mech] IN
  /\ gKnown(mech) /\ gMechs[s] # NoRow
  /\ gMechs' = IF gMechs[s].address # mech THEN gMechs
               ELSE [gMechs EXCEPT ![s] = [@ EXCEPT !.rate = rate]]
  /\ UNCHANGED <<gCreateMechs, gPendingRates, gSources, gServices, gRegistryVars, gPerAgent,
                 gAskVars, gDelivers, gSenders, gAtaVars>>

refreshMechDeliveryRate(table, mech, rate) ==
  LET s == ServiceOf[mech] IN
  IF gKnown(mech) /\ table[s] # NoRow /\ table[s].address = mech /\ table[s].rate = NoRate
  THEN [table EXCEPT ![s] = [@ EXCEPT !.rate = rate]] ELSE table

handleMechKarmaChanged(mech, change) ==
  /\ gMechs' = UpdateMech(gMechs, mech, LAMBDA m : [m EXCEPT !.karma = @ + change])
  /\ UNCHANGED <<gCreateMechs, gPendingRates, gSources, gServices, gRegistryVars, gPerAgent,
                 gAskVars, gDelivers, gSenders, gAtaVars>>

-----------------------------------------------------------------------------
(* The service registry. *)

handleCreateService(service, config) ==
  /\ gServices' = [gServices EXCEPT ![service] = NewService(config)]
  /\ gAgents' = [gAgents EXCEPT ![service] = <<>>]
  /\ UNCHANGED <<gMechVars, gMultisigs, gMetadata, gPerAgent, gAskVars, gDelivers, gSenders,
                 gAtaVars>>

updateServiceMultisig(service, account) ==
  Update(gServices, service,
         LAMBDA row : [row EXCEPT !.latest = account, !.historical = @ \cup {account}])

handleCreateMultisigWithAgents(service, account) ==
  /\ gMultisigs' = IF account \in DOMAIN gMultisigs THEN gMultisigs
                   ELSE (account :> service) @@ gMultisigs
  /\ gServices' = updateServiceMultisig(service, account)
  /\ UNCHANGED <<gMechVars, gAgents, gMetadata, gPerAgent, gAskVars, gDelivers, gSenders, gAtaVars>>

handleRegisterInstance(service, agent) ==
  /\ gAgents' = IF gServices[service] # NoRow
                   /\ \A i \in DOMAIN gAgents[service] : gAgents[service][i] # agent
                THEN [gAgents EXCEPT ![service] = Append(@, agent)] ELSE gAgents
  /\ UNCHANGED <<gMechVars, gServices, gMultisigs, gMetadata, gPerAgent, gAskVars, gDelivers,
                 gSenders, gAtaVars>>

handleTerminateService(service) ==
  /\ gAgents' = [gAgents EXCEPT ![service] = <<>>]
  /\ UNCHANGED <<gMechVars, gServices, gMultisigs, gMetadata, gPerAgent, gAskVars, gDelivers,
                 gSenders, gAtaVars>>

handleTransfer(service, to) ==
  /\ gMechs' = Update(gMechs, service, LAMBDA m : [m EXCEPT !.owner = to])
  /\ UNCHANGED <<gCreateMechs, gPendingRates, gSources, gServices, gRegistryVars, gPerAgent,
                 gAskVars, gDelivers, gSenders, gAtaVars>>

handleUpdateService(service, config) ==
  /\ gServices' = Update(gServices, service, LAMBDA row : [row EXCEPT !.config = config])
  /\ gMechs' = Update(gMechs, service, LAMBDA m : [m EXCEPT !.config = config])
  /\ UNCHANGED <<gCreateMechs, gPendingRates, gSources, gRegistryVars, gPerAgent, gAskVars,
                 gDelivers, gSenders, gAtaVars>>

handleComplementaryMetadataUpdated(service, hash) ==
  LET old == IF gMetadata[service] = NoRow THEN NoRow ELSE gMetadata[service].mech
      mech == IF gMechs[service] = NoRow THEN old ELSE gMechs[service].address IN
  /\ gMetadata' = [gMetadata EXCEPT ![service] = [hash |-> hash, mech |-> mech]]
  /\ UNCHANGED <<gMechVars, gServices, gMultisigs, gAgents, gPerAgent, gAskVars, gDelivers,
                 gSenders, gAtaVars>>

-----------------------------------------------------------------------------
(* Transactions, senders and agents. *)

ataTransactionExists == tx.id \in gAtaTxs

gServiceOf(account) == IF account \in DOMAIN gMultisigs THEN gMultisigs[account] ELSE NoService

getOrCreateSender(account) == IF gSenders[account] = NoRow THEN NewSender ELSE gSenders[account]

\* The agents of a service, each for n requests.
RequestsPerAgent(service, n) ==
  [a \in Agents |->
     IF service # NoService /\ \E i \in DOMAIN gAgents[service] : gAgents[service][i] = a
     THEN gPerAgent[a] + n ELSE gPerAgent[a]]

-----------------------------------------------------------------------------
(* Requests. *)

\* getOrCreateRequestToMarketplace, with what the caller sets.
Marker(r, marketplace, payload) ==
  LET old == IF gMarkers[r] = NoRow THEN [marketplace |-> FALSE, payload |-> FALSE]
             ELSE gMarkers[r]
  IN [marketplace |-> old.marketplace \/ marketplace, payload |-> old.payload \/ payload]

updateMechCountersOnRequest(mech, n) ==
  UpdateMech(gMechs, mech, LAMBDA m : [m EXCEPT !.received = @ + n])

HasMaxRate(mech) ==
  gKnown(mech) /\ gMechs[ServiceOf[mech]] # NoRow /\ gMechs[ServiceOf[mech]].rate # NoRate

handleMarketplaceRequest(mech, requester, ids) ==
  LET n       == Cardinality(ids)
      service == gServiceOf(requester)
      counted == service # NoService /\ ~ ataTransactionExists
      one     == IF counted THEN 1 ELSE 0
      asked(r) ==
        LET old == gRequests[r] IN
        [sender |-> requester, priority |-> mech, delivered |-> FALSE,
         priced  |-> IF HasMaxRate(mech) THEN TRUE ELSE old # NoRow /\ old.priced,
         service |-> IF service # NoService THEN service
                     ELSE IF old = NoRow THEN NoService ELSE old.service,
         fee     |-> IF old = NoRow THEN NoFee ELSE old.fee]
  IN
  /\ gSenders' = [gSenders EXCEPT ![requester] =
       LET row == getOrCreateSender(requester) IN
       [row EXCEPT !.transactions = @ + 1, !.marketplace = @ + 1, !.requests = @ + n,
                   !.ata = @ + one]]
  /\ gRequests' = [r \in Ids |-> IF r \in ids THEN asked(r) ELSE gRequests[r]]
  /\ gServices' = IF service = NoService THEN gServices
                  ELSE Update(gServices, service, LAMBDA row : [row EXCEPT !.requests = @ + n])
  /\ gMechs' = updateMechCountersOnRequest(mech, n)
  /\ gMarkers' = [r \in Ids |-> IF r \in ids THEN Marker(r, TRUE, FALSE) ELSE gMarkers[r]]
  /\ gTotals' = [gTotals EXCEPT !.marketplace = @ + 1, !.requests = @ + n, !.transactions = @ + 1,
                                !.ata = @ + one]
  /\ gAtaTxs' = IF counted THEN gAtaTxs \cup {tx.id} ELSE gAtaTxs
  /\ gPerAgent' = RequestsPerAgent(service, n)
  /\ UNCHANGED <<gCreateMechs, gPendingRates, gSources, gRegistryVars, gDelivers, gParsed>>

\* The Request of a transaction that is not the marketplace's, with
\* populateRequestCoreFields; what it does not set is kept.
DirectRequest(r, mech) ==
  LET old == IF gRequests[r] = NoRow THEN [priced |-> FALSE, fee |-> NoFee] ELSE gRequests[r]
  IN [sender |-> tx.from, priority |-> mech, service |-> ServiceOf[mech], delivered |-> FALSE,
      priced |-> old.priced, fee |-> old.fee]

\* attachRequestIpfs: a marker is made at once for a request with a payload.
Attached(r, ipfs) == IF ipfs THEN [gMarkers EXCEPT ![r] = Marker(r, FALSE, TRUE)] ELSE gMarkers

\* The file of a payload is asked for.
processOnChainRequest(mech, r, ipfs) ==
  /\ IF IsMarketplaceTransaction THEN UNCHANGED <<gRequests, gSenders>>
     ELSE /\ gKnown(mech)
          /\ gSenders' = [gSenders EXCEPT ![tx.from] = getOrCreateSender(tx.from)]
          /\ gRequests' = [gRequests EXCEPT ![r] = DirectRequest(r, mech)]
  /\ gMarkers' = Attached(r, ipfs)
  /\ gParsed' = IF ipfs THEN gParsed \cup {r} ELSE gParsed
  /\ UNCHANGED <<gMechVars, gServices, gRegistryVars, gPerAgent, gDelivers, gAtaVars>>

-----------------------------------------------------------------------------
(* Deliveries. *)

\* Have the request's own mech, if there is one, deliver it.
CountDelivery(row, own) ==
  IF own THEN [row EXCEPT !.self = @ + 1] ELSE [row EXCEPT !.others = @ + 1]

updateMechCountersOnDelivery(table, r, mech) ==
  LET priority == gRequests[r].priority
  IN UpdateMech(table, priority, LAMBDA m : CountDelivery(m, priority = mech))

\* The loop over the requests of a delivery.
CountDeliveries(ids, mech) ==
  LET count[s \in SUBSET ids] ==
        IF s = {} THEN gMechs
        ELSE LET r == CHOOSE r \in s : TRUE
             IN updateMechCountersOnDelivery(count[s \ {r}], r, mech)
  IN count[ids]

incrementServiceDeliveries(service, n) ==
  Update(gServices, service, LAMBDA row : [row EXCEPT !.deliveries = @ + n])

handleMarketplaceDelivery(mech, ids, won) ==
  LET done == {r \in ids \cap won : gRequests[r] # NoRow /\ ~ gRequests[r].delivered}
      n    == Cardinality(done)
      counted == CountDeliveries(done, mech)
      one  == IF ataTransactionExists THEN 0 ELSE 1
  IN
  /\ gRequests' = [r \in Ids |-> IF r \in done THEN [gRequests[r] EXCEPT !.delivered = TRUE]
                                 ELSE gRequests[r]]
  /\ gDelivers' = [r \in Ids |->
       IF r \in done
       THEN [offChain |-> FALSE, rate |-> IF gDelivers[r] = NoRow THEN NoRate ELSE gDelivers[r].rate]
       ELSE gDelivers[r]]
  /\ gServices' = IF gKnown(mech) THEN incrementServiceDeliveries(ServiceOf[mech], n) ELSE gServices
  /\ gMechs' = UpdateMech(counted, mech, LAMBDA m : [m EXCEPT !.deliveries = @ + n])
  /\ gTotals' = [gTotals EXCEPT !.deliveries = @ + n, !.transactions = @ + 1, !.ata = @ + one]
  /\ gAtaTxs' = gAtaTxs \cup {tx.id}
  /\ UNCHANGED <<gCreateMechs, gPendingRates, gSources, gRegistryVars, gPerAgent, gMarkers,
                 gParsed, gSenders>>

\* Are the fees of a delivered request due, with updateFeesOnDelivery's guards?
FeesDue(r) ==
  /\ gRequests[r] # NoRow /\ gRequests[r].fee = NoFee
  /\ gMarkers[r] # NoRow /\ gMarkers[r].marketplace
  /\ gRequests[r].priced

\* updateFeesOnDelivery, for the sender and the totals.
SenderPays(r, usd) ==
  Update(gSenders, gRequests[r].sender, LAMBDA row : [row EXCEPT !.fees = @ + usd])

\* finalizeGlobalForDeliver.
DirectDeliveryTotals(t) ==
  IF IsMarketplaceTransaction \/ ataTransactionExists THEN t ELSE [t EXCEPT !.ata = @ + 1]

\* persistMarketplaceDeliver
DeliveredOnChain(rate) == [offChain |-> FALSE, rate |-> rate]

IsNew(r) == gRequests[r] # NoRow /\ gRequests[r].fee = NoFee /\ ~ gRequests[r].delivered

processOnChainDeliver(mech, r, rate, price) ==
  LET direct == ~ IsMarketplaceTransaction
      usd    == FeeToUsd(rate, price)
      row    == IF IsNew(r) THEN [gRequests[r] EXCEPT !.delivered = TRUE] ELSE gRequests[r]
      counted == IF direct /\ IsNew(r) THEN updateMechCountersOnDelivery(gMechs, r, mech) ELSE gMechs
  IN
  /\ gKnown(mech)
  /\ gRequests' = [gRequests EXCEPT ![r] = IF FeesDue(r) THEN [row EXCEPT !.fee = usd] ELSE row]
  /\ gSenders' = IF FeesDue(r) THEN SenderPays(r, usd) ELSE gSenders
  /\ gTotals' = DirectDeliveryTotals(
                  IF FeesDue(r) THEN [gTotals EXCEPT !.fees = @ + usd] ELSE gTotals)
  /\ gAtaTxs' = IF direct THEN gAtaTxs \cup {tx.id} ELSE gAtaTxs
  /\ gServices' = IF direct /\ IsNew(r) THEN incrementServiceDeliveries(ServiceOf[mech], 1)
                  ELSE gServices
  /\ gDelivers' = [gDelivers EXCEPT ![r] = DeliveredOnChain(rate)]
  /\ gMechs' = refreshMechDeliveryRate(counted, mech, rate)
  /\ UNCHANGED <<gCreateMechs, gPendingRates, gSources, gRegistryVars, gPerAgent, gMarkers, gParsed>>

\* upsertSignedDeliverEntity and upsertDeliverForMarketplaceEntity; a batch has no rate.
upsertDeliver(r, rate) ==
  [offChain |-> TRUE,
   rate |-> IF rate # NoRate THEN rate ELSE IF gDelivers[r] = NoRow THEN NoRate ELSE gDelivers[r].rate]

\* handleDeliverWithSignatures, of either version of the marketplace.
persistSignedDeliver(r, rate, price) ==
  LET usd == FeeToUsd(rate, price) IN
  /\ IF FeesDue(r)
     THEN /\ gRequests' = [gRequests EXCEPT ![r] = [@ EXCEPT !.fee = usd]]
          /\ gSenders' = SenderPays(r, usd)
          /\ gTotals' = [gTotals EXCEPT !.fees = @ + usd]
     ELSE UNCHANGED <<gRequests, gSenders, gTotals>>
  /\ gDelivers' = [gDelivers EXCEPT ![r] = upsertDeliver(r, rate)]
  /\ UNCHANGED <<gMechVars, gServices, gRegistryVars, gPerAgent, gMarkers, gParsed, gAtaTxs>>

handleMarketplaceDeliveryWithSignatures(mech, requester, ids) ==
  LET n       == Cardinality(ids)
      service == gServiceOf(requester)
      own     == service # NoService /\ ~ ataTransactionExists
      one     == IF own THEN 1 ELSE 0
  IN
  /\ gDelivers' = [r \in Ids |-> IF r \in ids THEN upsertDeliver(r, NoRate) ELSE gDelivers[r]]
  /\ gMechs' = UpdateMech(gMechs, mech, LAMBDA m :
                  [m EXCEPT !.deliveries = @ + n, !.received = @ + n, !.self = @ + n])
  /\ gSenders' = [gSenders EXCEPT ![requester] =
       LET row == getOrCreateSender(requester) IN
       [row EXCEPT !.offChain = @ + n, !.requests = @ + n, !.transactions = @ + 1, !.ata = @ + one]]
  /\ gTotals' = [gTotals EXCEPT !.requests = @ + n, !.offChain = @ + n, !.deliveries = @ + n,
                                !.transactions = @ + 2,
                                !.ata = IF ataTransactionExists THEN @ ELSE @ + 1 + one]
  /\ gAtaTxs' = gAtaTxs \cup {tx.id}
  /\ gPerAgent' = RequestsPerAgent(service, n)
  /\ UNCHANGED <<gCreateMechs, gPendingRates, gSources, gServices, gRegistryVars, gAskVars>>

-----------------------------------------------------------------------------
(* The manifest: which log goes to which handler.  A mech's go to the handlers *)
(* of its template, once there is a data source for it.                        *)

TemplateOps == {"mechRequest", "mechDeliver", "rate"}

OfTemplate(log, price) ==
  \/ log.op = "mechRequest" /\ processOnChainRequest(log.mech, log.id, log.ipfs)
  \/ log.op = "mechDeliver" /\ processOnChainDeliver(log.mech, log.id, log.rate, price)
  \/ log.op = "rate" /\ updateMaxDeliveryRate(log.mech, log.rate)

GDispatch(log, price) ==
  \/ log.op = "factory" /\ handleMechFactoryCreate(log.mech, log.rate)
  \/ log.op = "createMech" /\ handleCreateMech(log.mech)
  \/ log.op = "createService" /\ handleCreateService(log.service, log.config)
  \/ log.op = "multisig" /\ handleCreateMultisigWithAgents(log.service, log.account)
  \/ log.op = "register" /\ handleRegisterInstance(log.service, log.agent)
  \/ log.op = "terminate" /\ handleTerminateService(log.service)
  \/ log.op = "transfer" /\ handleTransfer(log.service, log.account)
  \/ log.op = "update" /\ handleUpdateService(log.service, log.config)
  \/ log.op = "metadata" /\ handleComplementaryMetadataUpdated(log.service, log.hash)
  \/ log.op = "karma" /\ handleMechKarmaChanged(log.mech, log.change)
  \/ log.op = "request" /\ handleMarketplaceRequest(log.mech, log.requester, log.ids)
  \/ log.op = "delivery" /\ handleMarketplaceDelivery(log.mech, log.ids, log.won)
  \/ log.op = "signed" /\ persistSignedDeliver(log.id, log.rate, price)
  \/ log.op = "batch" /\ handleMarketplaceDeliveryWithSignatures(log.mech, log.requester, log.ids)
  \/ log.op \in TemplateOps /\ log.mech \in gSources /\ OfTemplate(log, price)
  \/ log.op \in TemplateOps /\ log.mech \notin gSources /\ UNCHANGED gVars

\* The subgraph and the squid handle the same log, at the same price.
GHandle == \E price \in PossiblePrices : HandleAt(price) /\ GDispatch(Head(logs), price)

GNext == (Contracts /\ UNCHANGED gVars) \/ GHandle

GSpec == Init /\ GInit /\ [][GNext]_<<vars, gVars>>

-----------------------------------------------------------------------------
(* Properties. *)

\* "The squid must give every consumer the numbers it gets today"
\* (MIGRATION.md:84): between transactions the tables of both are the same.
SquidAgreesWithSubgraph ==
  Handled =>
    /\ createMechs = gCreateMechs /\ mechs = gMechs /\ services = gServices
    /\ multisigs = gMultisigs /\ agents = gAgents /\ metadata = gMetadata /\ perAgent = gPerAgent
    /\ requests = gRequests /\ markers = gMarkers /\ delivers = gDelivers
    /\ senders = gSenders /\ ataTxs = gAtaTxs /\ totals = gTotals

\* A file is asked for of each request that carries its digest.
FilesAskedFor == Handled => payloads \subseteq gParsed
=============================================================================
