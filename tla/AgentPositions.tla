---------------------------- MODULE AgentPositions ----------------------------
(***************************************************************************)
(* The swaps and the positions of the babydegen-mode subgraph               *)
(* (subgraphs/babydegen-mode/src: swapTracking.ts, lifiDiamond.ts,          *)
(* veloV2Pool.ts, veloV2Shared.ts, veloNFTManager.ts, veloCLShared.ts,      *)
(* poolIndexCache.ts, balancerVault.ts, balancerShared.ts, sturdyVault.ts,  *)
(* roiCalculation.ts and the metrics of helpers.ts), over AgentFunds.       *)
(*                                                                         *)
(* There is one pool of each kind.  A unit of liquidity, of pool tokens or  *)
(* of shares is worth the price of the block.  A timestamp is never zero,   *)
(* so the branches for an entryTimestamp of zero are not taken.             *)
(***************************************************************************)
EXTENDS AgentFunds

CONSTANTS Venues,              \* which of "v2", "cl", "balancer", "sturdy", "swap" the chain uses
          Nfts,
          Slippages,           \* expected minus received USD of a swap
          BucketLength, AssociationWindow

None == "none"
Burnt == "burnt"
NoExit == -1

VARIABLES
  lp,      \* multisig |-> its tokens of the V2 pool
  nft,     \* NFT |-> its owner and liquidity
  bpt,     \* multisig |-> its Balancer pool tokens
  shares,  \* multisig |-> its shares of the Sturdy vault
  txs,     \* the transactions so far
  untold   \* what no handler tells of: <<"bpt", multisig>> and <<"shares", multisig>> once such
           \* tokens moved outside of their venue, <<"list", multisig>> once deployed again

holdingVars == <<lp, nft, bpt, shares, txs>>
venueVars == <<holdingVars, untold>>
positionVars == <<fundVars, venueVars>>

\* AgentSwapBuffer, SwapTransaction and PendingMintPosition; the NFT cache is in memory.
NoPositionTables ==
  NoTables @@ [buffer |-> <<>>, swap |-> <<>>, pending |-> <<>>, cache |-> {}]

-----------------------------------------------------------------------------
(* Swaps.                                                                    *)

NoBuckets == <<<<>>, <<>>, <<>>, <<>>>>
GetBucketIndex == now \div BucketLength

\* Rotated once, however many buckets have passed.
Rotated(buffer) ==
  IF GetBucketIndex > buffer.index
  THEN [index |-> GetBucketIndex, buckets |-> <<<<>>, buffer.buckets[1], buffer.buckets[2], buffer.buckets[3]>>]
  ELSE buffer

AddSwapToBuffer(t, m, id) ==
  LET buffer == IF m \in DOMAIN t.buffer THEN t.buffer[m] ELSE [index |-> GetBucketIndex, buckets |-> NoBuckets]
  IN [t EXCEPT !.buffer = Saved(@, m, [Rotated(buffer) EXCEPT !.buckets[1] = Append(@, id)])]

\* The slippage is zero when a price is missing.
CreateSwapTransaction(t, log) ==
  LET swap == [agent |-> log.receiver, at |-> now, associated |-> FALSE,
               slippage |-> IF price = 0 THEN 0 ELSE log.slippage]
  IN AddSwapToBuffer([t EXCEPT !.swap = Saved(@, log.tx, swap)], log.receiver, log.tx)

\* A swap from or to ETH also changes the balance.
HandleLiFiGenericSwapCompleted(t, log) ==
  IF log.integrator # "valory" \/ ~IsService(t, log.receiver) THEN t
  ELSE UpdateETHBalance(CreateSwapTransaction(t, log), log.receiver, log.eth)

InWindow(t, id) == now - t.swap[id].at <= AssociationWindow

\* Every swap of the window leaves the buckets, and what is left expires there.
AssociateSwapsWithPosition(t, m) ==
  IF m \notin DOMAIN t.buffer THEN [tables |-> t, slippage |-> 0]
  ELSE LET taken == {id \in UNION {ToSet(t.buffer[m].buckets[i]) : i \in 1 .. 4} : InWindow(t, id)}
       IN [tables |-> [t EXCEPT
             !.swap = [id \in DOMAIN @ |-> [@[id] EXCEPT !.associated = @ \/ id \in taken]],
             !.buffer[m].buckets = [i \in 1 .. 4 |-> SelectSeq(@[i], LAMBDA id : id \notin taken)]],
           slippage |-> Max({0, FoldSet(LAMBDA id, sum : sum + t.swap[id].slippage, 0, taken)})]

-----------------------------------------------------------------------------
(* Positions and the metrics of a portfolio.                                 *)

\* A service lists the hex string of a position's id, which is itself no position's id.
Hex(id) == <<"hex", id>>
LoadedDirectly(t, listed) == IF listed \in DOMAIN t.position THEN {listed} ELSE {}
Loaded(t, listed) ==
  IF LoadedDirectly(t, listed) # {} THEN {listed}
  ELSE IF listed[2] \in DOMAIN t.position THEN {listed[2]} ELSE {}

\* The sum over the rows a list gives.
SumOf(t, m, Load(_, _), Value(_)) ==
  FoldSeq(LAMBDA listed, sum : sum + FoldSet(LAMBDA id, s : s + Value(t.position[id]), 0, Load(t, listed)),
          0, t.service[m].listed)

CalculatePositionsValue(t, m) == SumOf(t, m, Loaded, LAMBDA row : IF row.active THEN row.usd ELSE 0)

Realized(row, value) == IF row.active \/ row.exit \in {NoExit, 0} THEN 0 ELSE value

\* aggregateClosedPositionMetrics, which only tries the listed string.
AggregateClosedPositionMetrics(t, m) ==
  [invested |-> SumOf(t, m, LoadedDirectly, LAMBDA row : Realized(row, row.investment)),
   gross |-> SumOf(t, m, LoadedDirectly, LAMBDA row : Realized(row, row.gross)),
   costs |-> SumOf(t, m, LoadedDirectly, LAMBDA row : Realized(row, row.costs))]

\* In percent of what was put in, the costs included.
CalculateActualROI(t, m) ==
  LET spent == SumOf(t, m, LoadedDirectly, LAMBDA row : Realized(row, row.entry + row.costs))
      gained == SumOf(t, m, LoadedDirectly, LAMBDA row : Realized(row, row.gross))
  IN IF spent = 0 THEN 0 ELSE ((gained - spent) * 100) \div spent

\* The positions that are open, or that are not.
CountPositions(t, m, open) == SumOf(t, m, Loaded, LAMBDA row : IF row.active = open THEN 1 ELSE 0)

\* calculatePortfolioMetrics; the annual ratios and those against ETH are left out.
CalculatePortfolioMetrics(t, m) ==
  IF ~IsService(t, m) THEN t
  ELSE LET u == EnsureAgentPortfolio(t, m)
           positions == CalculatePositionsValue(u, m)
           uninvested == CalculateUninvestedValue(u, m)
           withdrawn == IF m \in DOMAIN u.funding THEN u.funding[m].withdrawn ELSE 0
       IN [u EXCEPT !.portfolio[m] =
             [@ EXCEPT !.initial = NetUsd(u, m), !.positions = positions, !.uninvested = uninvested,
                       !.withdrawn = withdrawn, !.final = positions + uninvested + withdrawn,
                       !.realized = AggregateClosedPositionMetrics(u, m), !.roi = CalculateActualROI(u, m),
                       !.active = CountPositions(u, m, TRUE), !.closed = CountPositions(u, m, FALSE),
                       !.baseline = IF @ = 0 THEN price ELSE @]]

RefreshPortfolio(t, m, update) == IF update THEN CalculatePortfolioMetrics(t, m) ELSE t

NewPosition(protocol, m, key) ==
  [protocol |-> protocol, owner |-> m, key |-> key, active |-> TRUE, entry |-> 0, exit |-> NoExit, exitAt |-> 0,
   costs |-> 0, investment |-> 0, gross |-> 0, net |-> 0, amount |-> 0, usd |-> 0]

\* A new row, listed by its service.
Opened(t, id, row) ==
  UpdateFirstTradingTimestamp(
    [t EXCEPT !.position = Saved(@, id, row),
              !.service[row.owner].listed = IF Contains(@, Hex(id)) THEN @ ELSE Append(@, Hex(id))],
    row.owner)

UpdatePositionROI(row) ==
  IF row.active \/ row.exit = NoExit THEN row
  ELSE [row EXCEPT !.gross = row.exit, !.net = row.exit - row.entry - row.costs]

Worthless(row) == [row EXCEPT !.amount = 0, !.usd = 0]
WorthNow(row, amount) == [row EXCEPT !.amount = amount, !.usd = amount * price]
RowSaved(t, id, row) == [t EXCEPT !.position = Saved(@, id, row)]

\* A position that is held as a whole balance: gone with it, back with it.
OfBalance(row, balance) ==
  IF balance = 0
  THEN LET closed == [row EXCEPT !.active = FALSE]
       IN Worthless(IF closed.exit > 0 THEN UpdatePositionROI(closed) ELSE closed)
  ELSE [WorthNow(row, balance) EXCEPT !.active = TRUE]

-----------------------------------------------------------------------------
(* Velodrome V2.                                                             *)

GetVeloV2PositionId(m) == <<m, "v2">>

VeloV2Opened(t, m) == Opened(t, GetVeloV2PositionId(m), NewPosition("v2", m, "pool"))
RefreshVeloV2Position(t, m, update) ==
  IF ~IsService(t, m) THEN t
  ELSE LET id == GetVeloV2PositionId(m)
           u == IF id \in DOMAIN t.position THEN t ELSE VeloV2Opened(t, m)
       IN RefreshPortfolio(RowSaved(u, id, OfBalance(u.position[id], lp[m])), m, update)

\* refreshVeloV2PositionWithBurnAmounts: the exit is that of the last burn.
ExitVeloV2(t, m, log) ==
  LET id == GetVeloV2PositionId(m)
  IN IF id \notin DOMAIN t.position THEN t
     ELSE LET exited == [t EXCEPT !.position[id].exit = log.amount * price, !.position[id].exitAt = now]
          IN CalculatePortfolioMetrics(RefreshVeloV2Position(exited, m, TRUE), m)

\* A mint to a service waits for its amounts.
HandleVeloV2Transfer(t, log) ==
  IF log.from = None
  THEN IF ~IsService(t, log.to) THEN t
       ELSE [RefreshVeloV2Position(t, log.to, TRUE) EXCEPT !.pending = Saved(@, log.tx, log.to)]
  ELSE IF log.to = None THEN RefreshVeloV2Position(t, log.from, TRUE)
  ELSE RefreshVeloV2Position(RefreshVeloV2Position(t, log.from, TRUE), log.to, TRUE)

\* The entry is that of the last mint.
HandleVeloV2Mint(t, log) ==
  IF log.tx \notin DOMAIN t.pending THEN t
  ELSE LET m == t.pending[log.tx]
           id == GetVeloV2PositionId(m)
           u == [t EXCEPT !.pending = [tx \in DOMAIN @ \ {log.tx} |-> @[tx]]]
       IN IF ~IsService(u, m) \/ id \notin DOMAIN u.position THEN u
          ELSE RefreshVeloV2Position([u EXCEPT !.position[id].entry = log.amount * price], m, TRUE)

\* Of the receiver, else of the sender.
HandleVeloV2Burn(t, log) ==
  IF IsService(t, log.to) THEN ExitVeloV2(t, log.to, log)
  ELSE IF IsService(t, log.sender) THEN ExitVeloV2(t, log.sender, log) ELSE t

-----------------------------------------------------------------------------
(* Velodrome CL.                                                             *)

GetVeloCLPositionId(m, n) == <<m, "cl", n>>
IsSafeOwnedNFT(t, n) == n \in t.cache
Exists(n) == nft[n].owner \notin {None, Burnt}
OwnedNow(t, n) == Exists(n) /\ IsService(t, nft[n].owner)
EnsurePoolTemplate(t, n) == IF Exists(n) THEN [t EXCEPT !.cache = @ \cup {n}] ELSE t

VeloCLOpened(t, m, n) == Opened(t, GetVeloCLPositionId(m, n), NewPosition("cl", m, n))

\* Without liquidity a row is closed, at what it has, and the NFT is out of the cache.
VeloCLClosed(t, n, id, row) ==
  [RowSaved(t, id, UpdatePositionROI([row EXCEPT !.active = FALSE, !.exit = 0, !.exitAt = now]))
     EXCEPT !.cache = @ \ {n}]

\* An inactive row stays so.
RefreshVeloCLPosition(t, n, update) ==
  LET m == nft[n].owner
      id == GetVeloCLPositionId(m, n)
      known == id \in DOMAIN t.position
  IN IF ~OwnedNow(t, n) \/ (known /\ ~t.position[id].active) THEN t
     ELSE LET u == IF known THEN t ELSE VeloCLOpened(t, m, n)
              row == WorthNow(u.position[id], nft[n].liquidity)
          IN RefreshPortfolio(
               IF nft[n].liquidity > 0 THEN RowSaved(u, id, row) ELSE VeloCLClosed(u, n, id, row), m, update)

\* Only a row that is created is charged with swaps.
VeloCLEntered(t, m, n, usd) ==
  LET charged == AssociateSwapsWithPosition(t, m)
  IN Opened(charged.tables, GetVeloCLPositionId(m, n),
            [NewPosition("cl", m, n) EXCEPT
               !.entry = usd, !.usd = usd, !.costs = charged.slippage, !.investment = usd + charged.slippage])
VeloCLAdded(t, id, usd) == [t EXCEPT !.position[id].entry = @ + usd]

\* refreshVeloCLPositionWithEventAmounts
EnterVeloCL(t, n, usd) ==
  LET m == nft[n].owner
      id == GetVeloCLPositionId(m, n)
  IN IF ~OwnedNow(t, n) THEN t
     ELSE RefreshVeloCLPosition(
            IF id \in DOMAIN t.position THEN VeloCLAdded(t, id, usd) ELSE VeloCLEntered(t, m, n, usd), n, TRUE)

\* refreshVeloCLPositionWithExitAmounts: the exit of an emptied position is its last part.
ExitVeloCL(t, n, usd) ==
  LET m == nft[n].owner
      id == GetVeloCLPositionId(m, n)
  IN IF ~OwnedNow(t, n) \/ id \notin DOMAIN t.position THEN t
     ELSE IF nft[n].liquidity > 0 THEN RefreshVeloCLPosition(t, n, TRUE)
     ELSE LET row == [Worthless(t.position[id]) EXCEPT !.active = FALSE, !.exit = usd, !.exitAt = now]
          IN CalculatePortfolioMetrics([RowSaved(t, id, UpdatePositionROI(row)) EXCEPT !.cache = @ \ {n}], m)

\* handleNFTTransferForCache
NFTTransferredForCache(t, log) ==
  IF ~Exists(log.nft) THEN t
  ELSE LET left == IF log.from = None THEN t ELSE [t EXCEPT !.cache = @ \ {log.nft}]
       IN IF log.to = None THEN left ELSE [left EXCEPT !.cache = @ \cup {log.nft}]

\* The sender's row ends without an exit.
HandleNFTTransfer(t, log) ==
  IF ~IsService(t, log.to) /\ ~IsService(t, log.from) THEN t
  ELSE LET u == IF IsService(t, log.to) THEN EnsurePoolTemplate(t, log.nft) ELSE t
           id == GetVeloCLPositionId(log.from, log.nft)
           left == IF id \in DOMAIN u.position
                   THEN IF u.position[id].active
                        THEN [u EXCEPT !.position[id].active = FALSE, !.position[id].exitAt = now] ELSE u
                   ELSE u
       IN RefreshVeloCLPosition(NFTTransferredForCache(left, log), log.nft, TRUE)

\* An NFT in the cache, or one of a service that then is.
CachedIfOwned(t, n) == IF ~IsSafeOwnedNFT(t, n) /\ OwnedNow(t, n) THEN EnsurePoolTemplate(t, n) ELSE t

HandleIncreaseLiquidity(t, log) ==
  IF IsSafeOwnedNFT(t, log.nft) \/ OwnedNow(t, log.nft)
  THEN EnterVeloCL(CachedIfOwned(t, log.nft), log.nft, log.amount * price) ELSE t

HandleDecreaseLiquidity(t, log) ==
  IF IsSafeOwnedNFT(t, log.nft) \/ OwnedNow(t, log.nft)
  THEN ExitVeloCL(CachedIfOwned(t, log.nft), log.nft, log.amount * price) ELSE t

\* Only an NFT in the cache.
HandleCollect(t, log) ==
  IF ~IsSafeOwnedNFT(t, log.nft) THEN t
  ELSE LET u == RefreshVeloCLPosition(t, log.nft, TRUE)
       IN IF OwnedNow(u, log.nft) THEN CalculatePortfolioMetrics(u, nft[log.nft].owner) ELSE u

-----------------------------------------------------------------------------
(* Balancer: a row for each transaction, worth the whole balance.            *)

GetBalancerPositionId(m, tx) == <<m, "balancer", tx>>
GetBPTBalance(m) == bpt[m]

\* By the signs of what the pool gained of its tokens.
DetectTransactionType(deltas) ==
  LET gains == \E i \in DOMAIN deltas : deltas[i] > 0
      loses == \E i \in DOMAIN deltas : deltas[i] < 0
  IN CASE gains /\ ~loses -> "entry"
       [] loses /\ ~gains -> "exit"
       [] gains /\ loses -> "rebalance"
       [] OTHER -> "no-change"

\* What was added (sign 1), or removed (sign -1).
MovedUsd(deltas, sign) == price * FoldSeq(LAMBDA delta, sum : sum + Max({0, sign * delta}), 0, deltas)

BalancerOpened(t, m, tx) == Opened(t, GetBalancerPositionId(m, tx), NewPosition("balancer", m, tx))
RefreshBalancerPosition(t, m, tx, update) ==
  IF ~IsService(t, m) THEN t
  ELSE LET id == GetBalancerPositionId(m, tx)
           u == IF id \in DOMAIN t.position THEN t ELSE BalancerOpened(t, m, tx)
       IN RefreshPortfolio(RowSaved(u, id, OfBalance(u.position[id], GetBPTBalance(m))), m, update)

BalancerEntered(row, usd) ==
  LET entry == row.entry + usd IN [row EXCEPT !.entry = entry, !.investment = entry + row.costs]
BalancerExited(row, usd) == [row EXCEPT !.exit = usd, !.exitAt = now]
BalancerCharged(t, m, tx) ==
  LET charged == AssociateSwapsWithPosition(t, m)
  IN Opened(charged.tables, GetBalancerPositionId(m, tx),
            [NewPosition("balancer", m, tx) EXCEPT !.costs = charged.slippage])

\* refreshBalancerPositionWithEventAmounts
BalancerChanged(t, m, log) ==
  LET id == GetBalancerPositionId(m, log.tx)
      u == IF id \in DOMAIN t.position THEN t ELSE BalancerCharged(t, m, log.tx)
      row == u.position[id]
      next == CASE DetectTransactionType(log.deltas) = "entry" -> BalancerEntered(row, MovedUsd(log.deltas, 1))
                [] DetectTransactionType(log.deltas) = "exit" -> BalancerExited(row, MovedUsd(log.deltas, -1))
                [] OTHER -> row
  IN RefreshBalancerPosition(RowSaved(u, id, next), m, log.tx, TRUE)

HandlePoolBalanceChanged(t, log) ==
  IF ~IsService(t, log.provider) THEN t
  ELSE IF DetectTransactionType(log.deltas) = "no-change" THEN RefreshBalancerPosition(t, log.provider, log.tx, TRUE)
  ELSE BalancerChanged(t, log.provider, log)

-----------------------------------------------------------------------------
(* Sturdy: the active row of a service, opened by a deposit without one.     *)

GetSturdyPositionId(m, tx) == <<m, "sturdy", tx>>

\* findActiveSturdyPosition, of those the service lists: a set of one or none.
FindActiveSturdyPosition(t, m) ==
  LET open == SelectSeq(t.service[m].listed, LAMBDA listed :
                \E id \in Loaded(t, listed) : t.position[id].active /\ t.position[id].protocol = "sturdy")
  IN IF open = <<>> THEN {} ELSE Loaded(t, Head(open))

SturdyOpened(t, m, tx) ==
  LET charged == AssociateSwapsWithPosition(t, m)
  IN Opened(charged.tables, GetSturdyPositionId(m, tx),
            [NewPosition("sturdy", m, tx) EXCEPT !.costs = charged.slippage])

\* Mutant: a withdrawal of a part closes the position.
SturdyClosedByPart(row, m, assets) ==
  UpdatePositionROI([row EXCEPT !.active = FALSE, !.amount = 0, !.exit = assets * price, !.exitAt = now])

SturdyWithdrawn(row, m, assets) ==
  IF shares[m] > 0 THEN [row EXCEPT !.amount = @ - assets]
  ELSE UpdatePositionROI([row EXCEPT !.active = FALSE, !.amount = 0, !.exit = assets * price, !.exitAt = now])

\* The entry is the first deposit worth something.
SturdyDeposited(row, assets) ==
  LET more == [row EXCEPT !.amount = @ + assets, !.active = TRUE]
  IN IF row.entry > 0 THEN more
     ELSE [more EXCEPT !.entry = assets * price, !.investment = assets * price + row.costs]

CalculateSturdyPositionValue(m) == shares[m] * price

RefreshSturdyPosition(t, m, tx, assets, isDeposit, update) ==
  LET open == FindActiveSturdyPosition(t, m)
      new == open = {} /\ isDeposit
      id == IF new THEN GetSturdyPositionId(m, tx) ELSE CHOOSE i \in open : TRUE
      u == IF new THEN SturdyOpened(t, m, tx) ELSE t
  IN IF open = {} /\ ~isDeposit THEN t
     ELSE LET row == u.position[id]
              next == IF isDeposit THEN SturdyDeposited(row, assets) ELSE SturdyWithdrawn(row, m, assets)
          IN RefreshPortfolio(RowSaved(u, id, [next EXCEPT !.usd = CalculateSturdyPositionValue(m)]), m, update)

HandleSturdy(t, log) ==
  IF IsService(t, log.owner)
  THEN RefreshSturdyPosition(t, log.owner, log.tx, log.amount, log.kind = "deposit", TRUE) ELSE t

-----------------------------------------------------------------------------
(* A block.                                                                  *)

HandlePositions(t, log) ==
  CASE log.kind = "swap" -> HandleLiFiGenericSwapCompleted(t, log)
    [] log.kind = "v2 transfer" -> HandleVeloV2Transfer(t, log)
    [] log.kind = "v2 mint" -> HandleVeloV2Mint(t, log)
    [] log.kind = "v2 burn" -> HandleVeloV2Burn(t, log)
    [] log.kind = "nft" -> HandleNFTTransfer(t, log)
    [] log.kind = "increase" -> HandleIncreaseLiquidity(t, log)
    [] log.kind = "decrease" -> HandleDecreaseLiquidity(t, log)
    [] log.kind = "collect" -> HandleCollect(t, log)
    [] log.kind = "balancer" -> HandlePoolBalanceChanged(t, log)
    [] log.kind \in {"deposit", "withdraw"} -> HandleSturdy(t, log)
    [] OTHER -> HandleFunds(t, log)

\* What stays untold after the block: a change of the pool tells the balance of pool tokens,
\* a withdrawal of the last shares, with no deposit after it, that there are none.
LastOfVault(m) == SelectLastInSeq(logs, LAMBDA log : log.kind \in {"deposit", "withdraw"} /\ log.owner = m)
TakenOut(m) == shares[m] = 0 /\ LastOfVault(m) # 0 /\ logs[LastOfVault(m)].kind = "withdraw"
StillUntold ==
  untold \ ({<<"bpt", log.provider>> : log \in {l \in ToSet(logs) : l.kind = "balancer"}}
            \cup {<<"shares", m>> : m \in {n \in Multisigs : TakenOut(n)}})

IndexPositions ==
  /\ logs # <<>> /\ now < MaxTime
  /\ tables' = BlockIndexed(HandlePositions, tables) /\ untold' = StillUntold
  /\ logs' = <<>> /\ now' = now + 1 /\ price' \in Prices
  /\ UNCHANGED <<code, held, truth, holdingVars>>

\* A block without a log of interest.
Pass == /\ logs = <<>> /\ now < MaxTime
        /\ now' = now + 1 /\ price' \in Prices
        /\ UNCHANGED <<code, held, truth, logs, tables, venueVars>>

\* The process restarts: what was in memory is gone.
Restart == /\ tables.cache # {} /\ tables' = [tables EXCEPT !.cache = {}]
           /\ UNCHANGED <<now, price, code, held, truth, logs, venueVars>>

-----------------------------------------------------------------------------
(* The chain.                                                                *)

\* The services of the start: registered and deployed before.
DeployedTables ==
  LET deploy(t, m) == HandleCreateMultisigWithAgents(
                        HandleRegisterInstance(t, [id |-> Home[m], operator |-> "operator", agent |-> OptimusAgent]),
                        [id |-> Home[m], safe |-> m])
  IN FoldSet(LAMBDA m, t : deploy(t, m), NoPositionTables, Multisigs)

PositionInit ==
  /\ now = 1 /\ price \in Prices /\ code = Multisigs
  /\ held = [h \in Multisigs \X (Tokens \cup {"ETH"}) |-> 0]
  /\ truth = NoTruth /\ logs = <<>> /\ tables = DeployedTables
  /\ lp = [m \in Multisigs |-> 0] /\ bpt = lp /\ shares = lp /\ txs = 0 /\ untold = {}
  /\ nft \in [Nfts -> {[owner |-> None, liquidity |-> 0]} \cup [owner : Multisigs, liquidity : Amounts]]

\* A transaction emits some logs.
Emitted(emitted) ==
  /\ Room(Len(emitted)) /\ logs' = logs \o [i \in DOMAIN emitted |-> emitted[i] @@ [tx |-> txs + 1]]
  /\ txs' = txs + 1 /\ UNCHANGED <<now, price, code, held, truth, tables>>
Transact(emitted) == Emitted(emitted) /\ UNCHANGED untold

\* n of some tokens go from one address to another.
Movable(balances, from, to, n) ==
  /\ from # to /\ (from \in Multisigs => balances[from] >= n)
  /\ to \in Multisigs => balances[to] + n <= MaxHeld
Moved(balances, from, to, n) ==
  [a \in Multisigs |-> balances[a] + (IF a = to THEN n ELSE 0) - (IF a = from THEN n ELSE 0)]

V2Transfer(from, to) == [kind |-> "v2 transfer", from |-> from, to |-> to]

V2Join(m, n) ==
  /\ lp[m] + n <= MaxHeld /\ lp' = [lp EXCEPT ![m] = @ + n]
  /\ Transact(<<V2Transfer(None, m), [kind |-> "v2 mint", amount |-> n]>>)
  /\ UNCHANGED <<nft, bpt, shares>>

V2Leave(m, n, to) ==
  /\ lp[m] >= n /\ lp' = [lp EXCEPT ![m] = @ - n]
  /\ Transact(<<V2Transfer(m, "pool"), V2Transfer("pool", None),
                [kind |-> "v2 burn", sender |-> "router", to |-> to, amount |-> n]>>)
  /\ UNCHANGED <<nft, bpt, shares>>

V2Move(from, to, n) ==
  /\ Movable(lp, from, to, n) /\ lp' = Moved(lp, from, to, n)
  /\ Transact(<<V2Transfer(from, to)>>)
  /\ UNCHANGED <<nft, bpt, shares>>

Nft(n, from, to) == [kind |-> "nft", nft |-> n, from |-> from, to |-> to]
NftEvent(kind, n, amount) == [kind |-> kind, nft |-> n, amount |-> amount]

Mint(n, m, amount) ==
  /\ nft[n].owner = None /\ nft' = [nft EXCEPT ![n] = [owner |-> m, liquidity |-> amount]]
  /\ Transact(<<Nft(n, None, m), NftEvent("increase", n, amount)>>)
  /\ UNCHANGED <<lp, bpt, shares>>

Increase(n, amount) ==
  /\ Exists(n) /\ nft[n].liquidity + amount <= MaxHeld
  /\ nft' = [nft EXCEPT ![n].liquidity = @ + amount]
  /\ Transact(<<NftEvent("increase", n, amount)>>) /\ UNCHANGED <<lp, bpt, shares>>

Decrease(n, amount) ==
  /\ Exists(n) /\ nft[n].liquidity >= amount
  /\ nft' = [nft EXCEPT ![n].liquidity = @ - amount]
  /\ Transact(<<NftEvent("decrease", n, amount), NftEvent("collect", n, amount)>>)
  /\ UNCHANGED <<lp, bpt, shares>>

\* To another owner, or burnt when it is empty.
Send(n, to) ==
  /\ Exists(n) /\ to # nft[n].owner /\ (to = None => nft[n].liquidity = 0)
  /\ nft' = [nft EXCEPT ![n].owner = IF to = None THEN Burnt ELSE to]
  /\ Transact(<<Nft(n, nft[n].owner, to)>>) /\ UNCHANGED <<lp, bpt, shares>>

\* A change of the pool: what m adds or removes, or neither.
ChangePool(m, change, n) ==
  LET next == CASE change = "entry" -> bpt[m] + n [] change = "exit" -> bpt[m] - n [] OTHER -> bpt[m]
      deltas == CASE change = "entry" -> <<n, 0>> [] change = "exit" -> <<0, -n>>
                  [] change = "rebalance" -> <<n, -n>> [] OTHER -> <<0, 0>>
  IN /\ next \in 0 .. MaxHeld /\ bpt' = [bpt EXCEPT ![m] = next]
     /\ Transact(<<[kind |-> "balancer", provider |-> m, deltas |-> deltas]>>)
     /\ UNCHANGED <<lp, nft, shares>>

Vault(m, kind, n) ==
  LET next == IF kind = "deposit" THEN shares[m] + n ELSE shares[m] - n
  IN /\ next \in 0 .. MaxHeld /\ shares' = [shares EXCEPT ![m] = next]
     /\ Transact(<<[kind |-> kind, owner |-> m, amount |-> n]>>)
     /\ UNCHANGED <<lp, nft, bpt>>

\* A plain transfer of Balancer pool tokens or of Sturdy shares: no handler has its log.
Unseen(what, from, to) ==
  /\ untold' = untold \cup {<<what, m>> : m \in {from, to} \cap Multisigs}
  /\ UNCHANGED <<now, price, code, held, truth, logs, tables, lp, nft, txs>>

MovePoolTokens(from, to, n) ==
  /\ Movable(bpt, from, to, n) /\ bpt' = Moved(bpt, from, to, n)
  /\ Unseen("bpt", from, to) /\ UNCHANGED shares

MoveShares(from, to, n) ==
  /\ Movable(shares, from, to, n) /\ shares' = Moved(shares, from, to, n)
  /\ Unseen("shares", from, to) /\ UNCHANGED bpt

\* A swap of tokens, or from or to ETH.
Swap(m, integrator, slippage, eth) ==
  /\ Transact(<<[kind |-> "swap", receiver |-> m, integrator |-> integrator, slippage |-> slippage, eth |-> eth]>>)
  /\ UNCHANGED <<lp, nft, bpt, shares>>

\* The service is deployed again, with the same multisig.
Redeploy(m) ==
  /\ Emitted(<<[kind |-> "deploy", id |-> Home[m], safe |-> m]>>)
  /\ untold' = untold \cup {<<"list", m>>} /\ UNCHANGED <<lp, nft, bpt, shares>>

PositionOps ==
  \/ \E from, to \in Multisigs \cup Outsiders, n \in Amounts :
       \/ "v2" \in Venues /\ V2Move(from, to, n)
       \/ "balancer" \in Venues /\ MovePoolTokens(from, to, n)
       \/ "sturdy" \in Venues /\ MoveShares(from, to, n)
  \/ \E m \in Multisigs, n \in Amounts :
       \/ "v2" \in Venues /\ (V2Join(m, n) \/ \E to \in {m, "router"} : V2Leave(m, n, to))
       \/ /\ "balancer" \in Venues
          /\ \E change \in {"entry", "exit", "rebalance", "no-change"} : ChangePool(m, change, n)
       \/ "sturdy" \in Venues /\ \E kind \in {"deposit", "withdraw"} : Vault(m, kind, n)
  \/ /\ "cl" \in Venues
     /\ \E n \in Nfts :
          \/ \E amount \in Amounts : (\E m \in Multisigs : Mint(n, m, amount)) \/ Increase(n, amount) \/ Decrease(n, amount)
          \/ \E to \in Multisigs \cup Outsiders \cup {None} : Send(n, to)
  \/ /\ "swap" \in Venues
     /\ \E m \in Multisigs : \/ Swap(m, "other", 0, 0)
                            \/ \E slippage \in Slippages, eth \in {-1, 0, 1} : Swap(m, "valory", slippage, eth)
  \/ "deploy" \in Venues /\ \E m \in Multisigs : Redeploy(m)

PositionNext == PositionOps \/ IndexPositions \/ Pass \/ Restart

PositionSpec == PositionInit /\ [][PositionNext]_positionVars

-----------------------------------------------------------------------------
(* What is to hold once the block is indexed.                                *)

Rows(protocol, m) == {id \in DOMAIN tables.position :
                        tables.position[id].protocol = protocol /\ tables.position[id].owner = m}
Listed(m) == tables.service[m].listed

\* handleVeloV2Transfer, handleVeloV2Mint, refreshVeloV2Position (veloV2Pool.ts:47-136,
\* veloV2Shared.ts:231-405): the V2 position of a service is active while it holds pool
\* tokens, and is of all of them; no mint waits for its amounts.
V2FollowsBalance ==
  Indexed =>
    /\ tables.pending = <<>>
    /\ \A m \in Multisigs :
         LET id == GetVeloV2PositionId(m)
         IN IF id \in DOMAIN tables.position
            THEN /\ tables.position[id].active = (lp[m] > 0)
                 /\ tables.position[id].amount = lp[m]
            ELSE lp[m] = 0

\* handleNFTTransfer, handleIncreaseLiquidity, handleDecreaseLiquidity and the refresh
\* (veloNFTManager.ts:17-145, veloCLShared.ts:108-540): an active CL position is one its
\* service owns, with all of the NFT's liquidity.  (One that was closed or sent away stays
\* inactive, whatever becomes of the NFT.)
CLFollowsNft ==
  Indexed =>
    \A m \in Multisigs : \A id \in Rows("cl", m) :
      tables.position[id].active =>
        LET token == nft[tables.position[id].key]
        IN token.owner = m /\ token.liquidity > 0 /\ tables.position[id].amount = token.liquidity

\* handlePoolBalanceChanged (balancerVault.ts:30-89): the row of a service's last change of
\* the pool tells whether it still has pool tokens, and how many, unless it sent or got
\* some by a plain transfer since.
BalancerFollowsBalance ==
  Indexed =>
    \A m \in Multisigs : \A id \in Rows("balancer", m) :
      <<"bpt", m>> \notin untold
        /\ (\A other \in Rows("balancer", m) : tables.position[other].key <= tables.position[id].key) =>
        /\ tables.position[id].active = (bpt[m] > 0)
        /\ tables.position[id].amount = bpt[m]

\* refreshSturdyPosition (sturdyVault.ts:115-260): a service lists one active Sturdy position
\* at most; unless shares moved outside of the vault since it had none, only while it has
\* some, and while it has some one is active, listed or not.
SturdyFollowsShares ==
  Indexed =>
    \A m \in Multisigs :
      LET active == {id \in Rows("sturdy", m) : tables.position[id].active}
          open == {id \in active : Contains(Listed(m), Hex(id))}
      IN /\ Cardinality(open) <= 1
         /\ <<"shares", m>> \notin untold => (open # {} => shares[m] > 0) /\ (shares[m] > 0 => active # {})

\* No service lists a position twice, nor one of another, and it lists all of its own until
\* it is deployed again with the same multisig, which empties the list (serviceRegistry.ts:117).
ListedOnce ==
  Indexed =>
    \A m \in Multisigs : /\ IsInjective(Listed(m))
                         /\ \A i \in DOMAIN Listed(m) : Listed(m)[i][2] \in DOMAIN tables.position
                         /\ \A i \in DOMAIN Listed(m) : tables.position[Listed(m)[i][2]].owner = m
                         /\ <<"list", m>> \notin untold =>
                              \A id \in DOMAIN tables.position :
                                tables.position[id].owner = m => Contains(Listed(m), Hex(id))

\* updatePositionROI (roiCalculation.ts:144-177): what a position gained is booked when it
\* ends, from its last exit, entry and costs, unless a CL position was entered again.
GainBooked ==
  Indexed =>
    \A id \in DOMAIN tables.position :
      LET row == tables.position[id]
      IN ~row.active /\ row.exit > 0 /\ row.protocol # "cl" =>
           row.gross = row.exit /\ row.net = row.exit - row.entry - row.costs

Buckets(m) == IF m \in DOMAIN tables.buffer THEN tables.buffer[m].buckets ELSE NoBuckets
BucketsOf(m, id) == {i \in 1 .. 4 : Contains(Buckets(m)[i], id)}

\* associateSwapsWithPosition, addSwapToBuffer (helpers.ts:393-471, swapTracking.ts:133-176):
\* a swap waits in one bucket of its agent until a position takes it, or it is rotated
\* out, no sooner than three buckets later; the costs of an agent's positions are no more
\* than the slippage of the swaps they took.
SwapsChargedOnce ==
  Indexed =>
    \A m \in Multisigs :
      LET own == {id \in DOMAIN tables.swap : tables.swap[id].agent = m}
          taken == {id \in own : tables.swap[id].associated}
          charged == {id \in DOMAIN tables.position : tables.position[id].owner = m}
      IN /\ \A i \in 1 .. 4 : IsInjective(Buckets(m)[i]) /\ ToSet(Buckets(m)[i]) \subseteq own \ taken
         /\ \A id \in own \ taken :
              \/ Cardinality(BucketsOf(m, id)) = 1
              \/ /\ BucketsOf(m, id) = {}
                 /\ now \div BucketLength - tables.swap[id].at \div BucketLength > 3
         /\ FoldSet(LAMBDA id, sum : sum + tables.position[id].costs, 0, charged)
              <= FoldSet(LAMBDA id, sum : sum + Max({0, tables.swap[id].slippage}), 0, taken)

PositionsMatchHoldings ==
  V2FollowsBalance /\ CLFollowsNft /\ BalancerFollowsBalance /\ SturdyFollowsShares /\ ListedOnce /\ GainBooked
=============================================================================
