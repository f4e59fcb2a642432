----------------------------- MODULE FeeConversion -----------------------------
(***************************************************************************)
(* What a fee is worth in USD, at the block of its event:                  *)
(*   - in the marketplace subgraph (fee-utils.ts), on each of its networks; *)
(*   - in the marketplace squid (fee.ts, rpc.ts, over the shared price.ts), *)
(*     which replaces it on Base and serves Robinhood;                      *)
(*   - in the mech-fees squid (pricing.ts), of the same chains.             *)
(* A handler of graph-node calls the contracts at its block.  The squids    *)
(* handle a block when the chain has gone on, and an endpoint that has no   *)
(* state of that block left answers for the latest one (Rpc.at, which       *)
(* PoolReserves has in full: a read that fails is a batch that runs again). *)
(*                                                                         *)
(* USD are fractions <<n, d>>, exact: neither side's rounding to 34 digits  *)
(* is modelled.  Decimals are units: a whole token of 18 decimals is Whole  *)
(* raw ones, a USDC StableUnit, a feed answers in FeedUnit-ths of a dollar. *)
(***************************************************************************)
EXTENDS Integers, Sequences

CONSTANTS Rounds,          \* what latestRoundData may return: [answer, answered]
          Pools,           \* what a pool may hold: its tokens in order, <<token, balance>>
          FeeAmounts,
          Whole, StableUnit, FeedUnit,
          CreditRatio,     \* the ratio of NVM credits, in Whole-ths
          MaxBlock, MaxFees, \* bounds
          Reverted

FeeConversionAssumption ==
  /\ Rounds \subseteq [answer : Int, answered : BOOLEAN]
  /\ \A p \in Pools : p \in Seq({"OLAS", "QUOTE", "OTHER"} \X Nat)
  /\ FeeAmounts \subseteq Nat
  /\ {Whole, StableUnit, FeedUnit, CreditRatio, MaxBlock, MaxFees} \subseteq Nat \ {0}
  /\ Whole % StableUnit = 0

VARIABLES
  network, factory,   \* of the deployment, and of the mechs that charge
  archive,            \* whether the endpoint keeps the state of old blocks
  states,             \* of each block: what the feed and the pool's vault answer
  charges,            \* the fees of the events, oldest first: [block, amount]
  worth,              \* what the squid recorded for the first of them
  feeMemo             \* BlockMemo of its ChainlinkSource and of its BalancerPool

feeConversionVars == <<network, factory, archive, states, charges, worth, feeMemo>>

\* Fractions.
Zero == <<0, 1>>
Times(x, y) == <<x[1] * y[1], x[2] * y[2]>>
Over(x, y)  == <<x[1] * y[2], x[2] * y[1]>>
Same(x, y)  == x[1] * y[2] = y[1] * x[2]
AtMost(x, y) == x[1] * y[2] <= y[1] * x[2]

-----------------------------------------------------------------------------
(* The chains, and what is deployed on them.                                 *)

\* getFeeUnitFromMechFactory, getPaymentTypeFromFactory: the factories of a network.
FixedPrice == {"FixedPriceNative", "FixedPriceToken", "FixedPriceTokenUSDC"}
FactoriesOf(net) ==
  CASE net = "gnosis" -> {"FixedPriceNative", "FixedPriceToken", "NvmSubscriptionNative"}
    [] net = "base" -> FixedPrice \cup {"NvmSubscriptionNative", "NvmSubscriptionTokenUSDC"}
    [] net \in {"matic", "optimism"} -> FixedPrice \cup {"NvmSubscriptionTokenUSDC"}
    [] net \in {"mainnet", "arbitrum-one", "celo"} -> FixedPrice
    [] net = "robinhood" -> {"FixedPriceNative", "FixedPriceTokenUSDC"}

UnitOf(f) ==
  CASE f = "FixedPriceNative" -> "NATIVE" [] f = "FixedPriceToken" -> "TOKEN"
    [] f = "FixedPriceTokenUSDC" -> "USDC" [] OTHER -> "CREDITS"

getFeeUnitFromMechFactory(net, f) == IF f \in FactoriesOf(net) THEN UnitOf(f) ELSE "NATIVE"

SubgraphNetworks == {"gnosis", "base", "matic", "optimism", "mainnet", "arbitrum-one", "celo"}

\* CHAINS of the marketplace squid.
SquidChains ==
  [net \in {"robinhood", "base"} |->
     [units |-> {UnitOf(f) : f \in FactoriesOf(net)},
      feed |-> TRUE, nvmCredits |-> net = "base", olasPool |-> net = "base"]]

\* A unit that some mech charges in has a source, or the squid does not start.
assertChainConfig(chain) ==
  /\ "TOKEN" \in chain.units => chain.olasPool
  /\ "CREDITS" \in chain.units => chain.nvmCredits
  /\ "NATIVE" \in chain.units => chain.feed

\* CHAINS of the mech-fees squid: how OLAS is priced, and the native token.
OlasKind(net) ==
  CASE net \in {"gnosis", "base"} -> "balancer-v2 in USD"
    [] net \in {"matic", "optimism", "arbitrum-one"} -> "balancer-v2 in native"
    [] net = "mainnet" -> "uniswap-v2"
    [] net \in {"robinhood", "celo"} -> "none"
NativeIsUsd(net) == net = "gnosis"

-----------------------------------------------------------------------------
(* fee-utils.ts; `b` is the state of the event's block.                      *)

NativeFee(amount) == <<amount, Whole>>

\* convert<Network>NativeWeiToUsd: one to one on Gnosis, the feed's answer elsewhere.
ConvertByFeed(amount, b) ==
  IF b.feed = Reverted THEN Zero
  ELSE Over(Over(<<amount * b.feed.answer, 1>>, <<FeedUnit, 1>>), <<Whole, 1>>)
ConvertNativeWeiToUsd(net, amount, b) ==
  IF NativeIsUsd(net) THEN NativeFee(amount) ELSE ConvertByFeed(amount, b)

convertUsdcToUsd(amount) == <<amount, StableUnit>>

\* Credits are paid in xDAI, of 18 decimals, or in USDC; the ratio is of the same worth.
NvmRatio(net) == IF net = "gnosis" THEN CreditRatio * (Whole \div StableUnit) ELSE CreditRatio
NvmUnit(net)  == IF net = "gnosis" THEN Whole ELSE StableUnit
calculateNvmCreditsToUsd(net, credits) ==
  Over(Over(<<credits * NvmRatio(net), 1>>, <<Whole, 1>>), <<NvmUnit(net), 1>>)

\* getPoolTokenBalances: nothing of a token the pool does not hold.
Held(tokens, t) == {i \in DOMAIN tokens : tokens[i][1] = t}
BalanceOf(tokens, t) == IF Held(tokens, t) = {} THEN 0 ELSE tokens[CHOOSE i \in Held(tokens, t) : TRUE][2]
getPoolTokenBalances(b) ==
  IF b.vault = Reverted THEN <<0, 0>> ELSE <<BalanceOf(b.vault, "OLAS"), BalanceOf(b.vault, "QUOTE")>>

calculateOlasPriceFromPool(amount, balances, quoteUnit) ==
  Times(<<amount, Whole>>, Over(<<balances[2], quoteUnit>>, <<balances[1], Whole>>))

\* The pool's id is known once it is deployed.
BalancerBalances(b) == IF b.deployed THEN getPoolTokenBalances(b) ELSE <<0, 0>>

\* The reserves of a pair: the other token is the quote.
UniswapBalances(b) ==
  IF ~ b.deployed \/ b.vault = Reverted THEN <<0, 0>>
  ELSE IF b.vault[1][1] = "OLAS" THEN <<b.vault[1][2], b.vault[2][2]>>
  ELSE <<b.vault[2][2], b.vault[1][2]>>

\* calculateOlasPriceFromUniswapV2, calculateOlasPriceFromBalancerWeth: by way of WETH.
ThroughNative(amount, balances, b) ==
  IF b.feed = Reverted THEN Zero
  ELSE Times(calculateOlasPriceFromPool(amount, balances, Whole), <<b.feed.answer, FeedUnit>>)

calculateOlasInUsd(net, amount, b) ==
  LET balances == IF net = "mainnet" THEN UniswapBalances(b) ELSE BalancerBalances(b)
      unit == IF net = "gnosis" THEN Whole ELSE StableUnit
  IN
  IF net \in {"matic", "optimism", "celo"} \/ 0 \in {balances[1], balances[2]} THEN Zero
  ELSE IF net \in {"mainnet", "arbitrum-one"} THEN ThroughNative(amount, balances, b)
  ELSE calculateOlasPriceFromPool(amount, balances, unit)

\* The dispatcher: credits are worth nothing on the other networks.
convertFeeToUsd(net, amount, unit, b) ==
  CASE unit = "NATIVE" -> ConvertNativeWeiToUsd(net, amount, b)
    [] unit = "TOKEN" -> calculateOlasInUsd(net, amount, b)
    [] unit = "USDC" -> convertUsdcToUsd(amount)
    [] unit = "CREDITS" -> IF net \in {"gnosis", "base"} THEN calculateNvmCreditsToUsd(net, amount) ELSE Zero

-----------------------------------------------------------------------------
(* price.ts: the set of the outcomes of a read for block n, [value, memo];   *)
(* Reverted is the null of the code.                                         *)

\* The blocks Rpc.at may answer of: an endpoint with no state of n has the latest one.
AnswersOf(n) == IF archive THEN {n} ELSE {n, Len(states)}

Remembered(m, n) == n \in DOMAIN m
Remember(m, n, v) == [i \in DOMAIN m \cup {n} |-> IF i = n THEN v ELSE m[i]]

\* "A non-positive answer is not a price", nor is that of a round in progress.
Usable(round) == round # Reverted /\ round.answer > 0 /\ round.answered

\* ChainlinkSource.usdAt: only a usable answer is memoized.
usdAt(m, n) ==
  IF Remembered(m, n) THEN {[value |-> m[n], memo |-> m]}
  ELSE {LET round == states[at].feed IN
        IF Usable(round) THEN [value |-> round.answer, memo |-> Remember(m, n, round.answer)]
        ELSE [value |-> Reverted, memo |-> m] : at \in AnswersOf(n)}

\* BalancerPool.getPoolId is read at the latest block.
HasPoolId == states[Len(states)].deployed

\* BalancerPool.reservesAt.  The vault knows no pool that is not deployed.
reservesAt(m, n) ==
  IF Remembered(m, n) THEN {[value |-> m[n], memo |-> m]}
  ELSE IF ~ HasPoolId THEN {[value |-> Reverted, memo |-> m]}
  ELSE {LET tokens == IF states[at].deployed THEN states[at].vault ELSE Reverted IN
        [value |-> tokens, memo |-> IF tokens = Reverted THEN m ELSE Remember(m, n, tokens)]
          : at \in AnswersOf(n)}

\* poolPrice: quote tokens of an OLAS.
poolPrice(tokens, quoteUnit) ==
  IF tokens = Reverted \/ 0 \in {BalanceOf(tokens, "OLAS"), BalanceOf(tokens, "QUOTE")} THEN Reverted
  ELSE Over(<<BalanceOf(tokens, "QUOTE"), quoteUnit>>, <<BalanceOf(tokens, "OLAS"), Whole>>)

-----------------------------------------------------------------------------
(* fee.ts and rpc.ts of the marketplace squid.                               *)

nativeToUsd(amount, price) == Over(Over(<<amount * price, 1>>, <<FeedUnit, 1>>), <<Whole, 1>>)

\* balancerOlasPool and olasToUsd: a token that is missing is none of it.
olasToUsd(amount, tokens) ==
  LET olas == BalanceOf(tokens, "OLAS")
      stable == BalanceOf(tokens, "QUOTE")
  IN IF tokens = Reverted THEN Zero
     ELSE IF 0 \in {olas, stable} THEN Zero
     ELSE Times(<<amount, Whole>>, Over(<<stable, StableUnit>>, <<olas, Whole>>))

\* The outcomes of convertFeeToUsd, [usd, memo].
Converted(chain, amount, unit, n) ==
  CASE unit = "NATIVE" ->
         {[usd |-> IF p.value = Reverted THEN Zero ELSE nativeToUsd(amount, p.value),
           memo |-> [feeMemo EXCEPT !.feed = p.memo]] : p \in usdAt(feeMemo.feed, n)}
    [] unit = "TOKEN" /\ chain.olasPool ->
         {[usd |-> olasToUsd(amount, r.value), memo |-> [feeMemo EXCEPT !.pool = r.memo]]
            : r \in reservesAt(feeMemo.pool, n)}
    [] unit = "USDC" -> {[usd |-> <<amount, StableUnit>>, memo |-> feeMemo]}
    [] unit = "CREDITS" /\ chain.nvmCredits ->
         {[usd |-> Over(Over(<<amount * CreditRatio, 1>>, <<Whole, 1>>), <<StableUnit, 1>>),
           memo |-> feeMemo]}
    [] OTHER -> {[usd |-> Zero, memo |-> feeMemo]}

-----------------------------------------------------------------------------
(* pricing.ts of the mech-fees squid, of a block whose state `b` it can read. *)

MechFeesNative(net, amount, b) ==
  IF NativeIsUsd(net) THEN NativeFee(amount)
  ELSE IF Usable(b.feed) THEN nativeToUsd(amount, b.feed.answer) ELSE Reverted

\* olasToUsd: through the native token the amount is cut to whole wei of it.
MechFeesOlas(net, amount, b) ==
  LET tokens == IF b.deployed THEN b.vault ELSE Reverted
      perOlas == poolPrice(tokens, IF net = "base" THEN StableUnit ELSE Whole)
      inQuote == Times(<<amount, Whole>>, perOlas)
  IN
  IF OlasKind(net) = "none" \/ perOlas = Reverted THEN Zero
  ELSE IF OlasKind(net) = "balancer-v2 in USD" THEN inQuote
  ELSE IF Usable(b.feed) THEN nativeToUsd((inQuote[1] * Whole) \div inQuote[2], b.feed.answer)
  ELSE Zero

-----------------------------------------------------------------------------
(* What a conversion depends on: the rest of a block's state is the same.    *)

Unit == getFeeUnitFromMechFactory(network, factory)
ReadsFeed(net, f) ==
  \/ UnitOf(f) = "NATIVE" /\ ~ NativeIsUsd(net)
  \/ UnitOf(f) = "TOKEN" /\ OlasKind(net) \in {"balancer-v2 in native", "uniswap-v2"}
ReadsPool(net, f) == UnitOf(f) = "TOKEN" /\ OlasKind(net) # "none"

\* A pair holds two tokens, one of them OLAS.
PoolsOf(net) ==
  IF OlasKind(net) # "uniswap-v2" THEN Pools
  ELSE {p \in Pools : Len(p) = 2 /\ {p[1][1], p[2][1]} = {"OLAS", "QUOTE"}}

\* What a block may leave, after one in which the pool was deployed or not.
BlockStates(net, f, deployed) ==
  {s \in [feed : IF ReadsFeed(net, f) THEN Rounds \cup {Reverted} ELSE {Reverted},
          deployed : IF ReadsPool(net, f) THEN BOOLEAN ELSE {FALSE},
          vault : IF ReadsPool(net, f) THEN PoolsOf(net) \cup {Reverted} ELSE {Reverted}] :
     /\ deployed => s.deployed
     /\ ~ s.deployed => s.vault = Reverted}

FeeConversionInit ==
  /\ network \in SubgraphNetworks \cup {"robinhood"} /\ factory \in FactoriesOf(network)
  /\ archive \in BOOLEAN
  /\ network \in DOMAIN SquidChains => assertChainConfig(SquidChains[network])
  /\ network \notin DOMAIN SquidChains => archive
  /\ \E s \in BlockStates(network, factory, FALSE) : states = <<s>>
  /\ charges = <<>> /\ worth = <<>> /\ feeMemo = [feed |-> <<>>, pool |-> <<>>]

\* The chain goes on.
Mine ==
  /\ Len(states) < MaxBlock
  /\ \E s \in BlockStates(network, factory, states[Len(states)].deployed) : states' = Append(states, s)
  /\ UNCHANGED <<network, factory, archive, charges, worth, feeMemo>>

\* An event of the latest block has a fee: a rate that is set, a request or a delivery.
Charge ==
  /\ Len(charges) < MaxFees
  /\ \E amount \in FeeAmounts : charges' = Append(charges, [block |-> Len(states), amount |-> amount])
  /\ UNCHANGED <<network, factory, archive, states, worth, feeMemo>>

\* The squid handles the next of them.
Convert ==
  /\ network \in DOMAIN SquidChains /\ Len(worth) < Len(charges)
  /\ LET charge == charges[Len(worth) + 1] IN
     \E o \in Converted(SquidChains[network], charge.amount, Unit, charge.block) :
       worth' = Append(worth, o.usd) /\ feeMemo' = o.memo
  /\ UNCHANGED <<network, factory, archive, states, charges>>

FeeConversionNext == Mine \/ Charge \/ Convert

-----------------------------------------------------------------------------
(* Properties. *)

BySubgraph(i) == convertFeeToUsd(network, charges[i].amount, Unit, states[charges[i].block])

\* "Values a consumer sees are then identical to the subgraph's" (fee.ts:8-9), with an
\* endpoint that keeps old blocks; but for the answers of a feed the squid takes for
\* none, a negative one and that of a round in progress (price.ts:122-145).
SameAsSubgraph ==
  network = "base" /\ archive =>
    \A i \in DOMAIN worth :
      LET round == states[charges[i].block].feed IN
      IF Unit = "NATIVE" /\ round # Reverted /\ ~ Usable(round) THEN worth[i] = Zero
      ELSE Same(worth[i], BySubgraph(i))

\* "A batch of N events at one block reads the feed once" (price.ts:64-66): whatever the
\* endpoint answers meanwhile, what two fees of a block are worth is of one price.
OnePricePerBlock ==
  \A i, j \in DOMAIN worth :
    charges[i].block = charges[j].block /\ 0 \notin {worth[i][1], worth[j][1]} =>
      Same(Times(worth[i], <<charges[j].amount, 1>>), Times(worth[j], <<charges[i].amount, 1>>))

\* "So a config slip fails startup instead of silently pricing fees at $0"
\* (constants.ts:277-279): where the chain answers, a fee of a mech is worth something.
NoSilentZero ==
  archive =>
    \A i \in DOMAIN worth :
      LET b == states[charges[i].block] IN
      /\ charges[i].amount > 0
      /\ Unit = "NATIVE" => Usable(b.feed)
      /\ Unit = "TOKEN" => 0 \notin {BalancerBalances(b)[1], BalancerBalances(b)[2]}
      => worth[i][1] > 0

\* "Amount -> USD per payment model, at the event's block, exactly as the subgraph
\* mappings do it" (mech-fees/src/pricing.ts:1-2): the two squids' subgraphs and the
\* mech-fees squid price a fee alike where both have a source, to a wei of the token OLAS
\* is quoted in.
MechFeesAlike ==
  network \in SubgraphNetworks \ {"matic", "optimism"} =>
    \A i \in DOMAIN charges :
      LET b == states[charges[i].block]
          amount == charges[i].amount
          fee == MechFeesOlas(network, amount, b)
      IN
      /\ Unit = "NATIVE" /\ (NativeIsUsd(network) \/ Usable(b.feed)) =>
           Same(MechFeesNative(network, amount, b), BySubgraph(i))
      /\ Unit = "TOKEN" /\ ~ ReadsFeed(network, factory) => Same(fee, BySubgraph(i))
      /\ Unit = "TOKEN" /\ ReadsFeed(network, factory) /\ Usable(b.feed) =>
           /\ AtMost(fee, BySubgraph(i))
           /\ AtMost(BySubgraph(i), <<fee[1] * FeedUnit * Whole + b.feed.answer * fee[2],
                                      fee[2] * FeedUnit * Whole>>)

FeesConverted == SameAsSubgraph /\ OnePricePerBlock /\ NoSilentZero /\ MechFeesAlike
=============================================================================
