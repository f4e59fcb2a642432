------------------------------ MODULE AgentPrices ------------------------------
(***************************************************************************)
(* The prices of the babydegen-mode subgraph (priceDiscovery.ts,            *)
(* priceAdapters.ts, tokenConfig.ts): what getTokenPriceUSD answers, block  *)
(* after block, from the pools or from the row it cached.                   *)
(*                                                                         *)
(* Prices are fractions.  A pool is what it holds of its two tokens, in     *)
(* their smallest units; a concentrated one quotes the ratio of the two.    *)
(* The twelve decimals that the ether-like tokens have and the dollars have *)
(* not are one factor Step.  No token has two sources, so the averages of   *)
(* getPriceFromSources are left out.                                        *)
(***************************************************************************)
EXTENDS Integers, SequencesExt

CONSTANTS Tokens,          \* the tokens that are read
          PoolStates,      \* pool |-> the pairs of amounts it may hold, <<0, 0>> for a call that reverts
          Step, Ceiling,
          MinPrice, MaxPrice,  \* of a token that is no dollar
          CacheDuration, MaxTime

VARIABLES
  now,
  pools,    \* the pools of each block so far
  rows,     \* the Token rows: price, confidence, time
  updates,  \* PriceUpdate by token and time
  read      \* the last answer in the block

priceVars == <<now, pools, rows, updates, read>>

-----------------------------------------------------------------------------
(* Fractions; one without a denominator is none.                            *)

Zero == <<0, 1>>
One == <<1, 1>>
Times(a, b) == <<a[1] * b[1], a[2] * b[2]>>
Over(a, b) == IF b[1] = 0 THEN Zero ELSE <<a[1] * b[2], a[2] * b[1]>>
AtMost(a, b) == a[1] * b[2] <= b[1] * a[2]
Same(a, b) == AtMost(a, b) /\ AtMost(b, a)
Positive(a) == a[1] > 0

-----------------------------------------------------------------------------
(* The configuration.                                                        *)

Dollars == {"USDC", "USDT", "oUSDT"}
CriticalStablecoins == {"USDC", "USDT", "oUSDT"}

\* The decimals of a token, in steps.
Decimals(token) == IF token \in Dollars THEN 0 ELSE 1
Units(n) == IF n = 0 THEN One ELSE <<Step, 1>>

Source(type, pool, pair, confidence) == <<[type |-> type, pool |-> pool, pair |-> pair, confidence |-> confidence]>>

\* Without a pool of its own a token has no source.
PriceSources(token) ==
  CASE token \in {"ETH", "WETH"} -> Source("cl", <<"WETH", "USDC">>, "USDC", 95)
    [] token = "MODE" -> Source("cl", <<"WETH", "MODE">>, "WETH", 90)
    [] token = "oUSDT" -> Source("cl", <<"oUSDT", "USDC">>, "USDC", 95)
    [] token = "ezETH" -> Source("v2", <<"ezETH", "WETH">>, "WETH", 90)
    [] token = "STONE" -> Source("v2", <<"WETH", "STONE">>, "WETH", 90)
    [] token = "USDT" -> Source("v2", <<"USDC", "USDT">>, "USDC", 95)
    [] token = "OLAS" -> Source("balancer", <<"OLAS", "USDC">>, "USDC", 95)
    [] OTHER -> <<>>

GetTokenConfig(token) == token \in {"ETH", "WETH", "MODE", "OLAS", "ezETH", "uniBTC", "STONE", "USDC", "USDT", "oUSDT"}

-----------------------------------------------------------------------------
(* The adapters.  The token of ETH is WETH's, which no pool has as ETH.      *)

Held(pool) == Last(pools)[pool]
Quote(pool) == <<Held(pool)[2], Held(pool)[1]>>
Reverted(pool) == Held(pool) = <<0, 0>>

\* sqrtPriceToToken0Price: the same factor whichever token has more decimals.
SqrtPriceToToken0Price(pool) ==
  LET quote == Times(Quote(pool), Units(Decimals(pool[1]) - Decimals(pool[2])))
  IN IF ~Positive(quote) \/ ~AtMost(quote, <<Ceiling, 1>>) THEN Zero ELSE quote
SqrtPriceToToken1Price(pool) == Over(One, SqrtPriceToToken0Price(pool))

PriceInPool(token, pool) ==
  CASE token = pool[1] -> SqrtPriceToToken0Price(pool)
    [] token = pool[2] -> SqrtPriceToToken1Price(pool)
    [] OTHER -> Zero

\* getPairTokenPrice: a dollar is a dollar, WETH is priced by its pool, unchecked.
GetPairTokenPrice(pair) ==
  IF pair = "WETH" /\ ~Reverted(<<"WETH", "USDC">>) THEN PriceInPool("WETH", <<"WETH", "USDC">>)
  ELSE IF pair = "WETH" THEN Zero ELSE One

GetVelodromePrice(token, pool, pair) ==
  IF Reverted(pool) THEN Zero ELSE Times(PriceInPool(token, pool), GetPairTokenPrice(pair))

\* A difference of decimals is taken off or put on.
AdjustedFor(raw, difference) ==
  CASE difference > 0 -> Over(raw, <<Step, 1>>)
    [] difference < 0 -> Times(raw, <<Step, 1>>)
    [] OTHER -> raw

GetVelodromeV2Price(token, pool, pair) ==
  LET held == Held(pool)
      own == IF token = pool[1] THEN 1 ELSE 2
      raw == <<held[3 - own], held[own]>>
      difference == Decimals(pair) - Decimals(token)
  IN IF held[own] = 0 THEN Zero ELSE Times(AdjustedFor(raw, difference), GetPairTokenPrice(pair))

GetBalancerPrice(token, pool, pair) ==
  LET human(i) == Over(<<Held(pool)[i], 1>>, Units(Decimals(pool[i])))
      own == IF token = pool[1] THEN 1 ELSE 2
  IN IF Held(pool)[own] = 0 THEN Zero ELSE Times(Over(human(3 - own), human(own)), GetPairTokenPrice(pair))

IsValidPriceResult(price, token) ==
  /\ Positive(price)
  /\ IF token \in {"USDC", "USDT"} THEN AtMost(<<19, 20>>, price) /\ AtMost(price, <<21, 20>>)
     ELSE AtMost(MinPrice, price) /\ AtMost(price, MaxPrice)

\* ETH is no token of the pool it is configured with.
GetPriceFromSource(token, source) ==
  LET price == CASE source.type = "cl" -> GetVelodromePrice(token, source.pool, source.pair)
                 [] source.type = "v2" -> GetVelodromeV2Price(token, source.pool, source.pair)
                 [] source.type = "balancer" -> GetBalancerPrice(token, source.pool, source.pair)
  IN IF IsValidPriceResult(price, token) THEN [price |-> price, confidence |-> source.confidence]
     ELSE [price |-> Zero, confidence |-> 0]

GetPriceFromSources(token) ==
  IF PriceSources(token) = <<>> THEN [price |-> Zero, confidence |-> 0]
  ELSE GetPriceFromSource(token, Head(PriceSources(token)))

-----------------------------------------------------------------------------
(* getTokenPriceUSD.                                                         *)

InitializeToken(token) ==
  IF token \in DOMAIN rows THEN rows[token] ELSE [price |-> Zero, confidence |-> 0, at |-> 0]

IsCached(row) == now - row.at < CacheDuration /\ row.confidence > 50

Saved(f, k, v) == (k :> v) @@ f

\* A token without sources gets no update record.
PriceSaved(token, price, confidence) ==
  /\ rows' = Saved(rows, token, [price |-> price, confidence |-> confidence, at |-> now])
  /\ updates' = IF PriceSources(token) = <<>> THEN updates ELSE Saved(updates, <<token, now>>, price)
  /\ read' = [token |-> token, price |-> price]

Answered(token, price) == /\ rows' = Saved(rows, token, InitializeToken(token))
                          /\ read' = [token |-> token, price |-> price] /\ UNCHANGED updates

\* Mutant: without a source the last price is the answer.
LastPriceKept(token) ==
  LET row == InitializeToken(token)
      result == GetPriceFromSources(token)
  IN CASE ~GetTokenConfig(token) -> read' = [token |-> token, price |-> Zero] /\ UNCHANGED <<rows, updates>>
       [] GetTokenConfig(token) /\ IsCached(row) -> Answered(token, row.price)
       [] GetTokenConfig(token) /\ ~IsCached(row) ->
            IF Positive(result.price) /\ result.confidence > 50
            THEN PriceSaved(token, result.price, result.confidence)
            ELSE IF token \in CriticalStablecoins THEN PriceSaved(token, One, 95)
            ELSE Answered(token, row.price)

\* A dollar has a price of its own when no source has one, others none.
GetTokenPriceUSD(token) ==
  LET row == InitializeToken(token)
      result == GetPriceFromSources(token)
  IN CASE ~GetTokenConfig(token) -> read' = [token |-> token, price |-> Zero] /\ UNCHANGED <<rows, updates>>
       [] GetTokenConfig(token) /\ IsCached(row) -> Answered(token, row.price)
       [] GetTokenConfig(token) /\ ~IsCached(row) ->
            IF Positive(result.price) /\ result.confidence > 50
            THEN PriceSaved(token, result.price, result.confidence)
            ELSE IF token \in CriticalStablecoins THEN PriceSaved(token, One, 95)
            ELSE Answered(token, Zero)

-----------------------------------------------------------------------------

PricesInit ==
  /\ now = 1 /\ rows = <<>> /\ updates = <<>> /\ read = <<>>
  /\ pools \in {<<state>> : state \in {f \in [DOMAIN PoolStates -> UNION {PoolStates[p] : p \in DOMAIN PoolStates}] :
                                        \A p \in DOMAIN PoolStates : f[p] \in PoolStates[p]}}

Read(token) == GetTokenPriceUSD(token) /\ UNCHANGED <<now, pools>>

\* In the next block one pool at most is another.
NextBlock ==
  /\ now < MaxTime /\ now' = now + 1
  /\ \E pool \in DOMAIN PoolStates : \E state \in PoolStates[pool] :
       pools' = Append(pools, [Last(pools) EXCEPT ![pool] = state])
  /\ read' = <<>> /\ UNCHANGED <<rows, updates>>

PricesNext == NextBlock \/ \E token \in Tokens : Read(token)

PricesSpec == PricesInit /\ [][PricesNext]_priceVars

-----------------------------------------------------------------------------

\* What one token is worth in USD by the pools of a block: of human amounts, one pool or
\* two, or zero where it is not to be used.
HumanRatio(token, pool, at) ==
  LET own == IF token = pool[1] THEN 1 ELSE 2
      amount(i) == IF Decimals(pool[i]) = 1 THEN <<pools[at][pool][i], Step>> ELSE <<pools[at][pool][i], 1>>
  IN Over(amount(3 - own), amount(own))
Worth(token, at) ==
  LET source == PriceSources(token)[1]
      usd == IF source.pair = "WETH" THEN HumanRatio("WETH", <<"WETH", "USDC">>, at) ELSE One
  IN IF PriceSources(token) = <<>> \/ token = "ETH" THEN Zero ELSE Times(HumanRatio(token, source.pool, at), usd)

\* The ratio that a concentrated pool of the token or of its pair quotes is above the
\* ceiling there is for it.
AboveCeiling(token, at) ==
  \E pool \in {PriceSources(token)[1].pool, <<"WETH", "USDC">>} \cap DOMAIN PoolStates :
    /\ pool = <<"WETH", "USDC">> \/ PriceSources(token)[1].type = "cl"
    /\ ~AtMost(HumanRatio(pool[1], pool, at), <<Ceiling, 1>>)

\* getTokenPriceUSD, isValidPriceResult and the adapters (priceDiscovery.ts:22-104, 326-358,
\* priceAdapters.ts:20-386): an answer is the worth of the token, in its bounds, in one of
\* the blocks of the cache's duration; one for a dollar whose worth was outside of them or
\* above the ceiling in one of these; or zero, for another token, only when there is no
\* such worth now or a pool quotes more than the ceiling.  What was recorded for a block is that block's worth.
AnswersAreWorth ==
  /\ read # <<>> =>
       LET token == read.token
           recent == Max({1, now - CacheDuration + 1}) .. now
           Unusable(at) == ~IsValidPriceResult(Worth(token, at), token)
       IN \/ \E at \in recent : ~Unusable(at) /\ Same(read.price, Worth(token, at))
          \/ token \in CriticalStablecoins /\ read.price = One
             /\ \E at \in recent : Unusable(at) \/ AboveCeiling(token, at)
          \/ /\ read.price = Zero /\ token \notin CriticalStablecoins
             /\ Unusable(now) \/ AboveCeiling(token, now)
  /\ \A k \in DOMAIN updates : \/ Same(updates[k], Worth(k[1], k[2]))
                               \/ k[1] \in CriticalStablecoins /\ updates[k] = One
=============================================================================
