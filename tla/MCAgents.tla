------------------------------- MODULE MCAgents -------------------------------
(***************************************************************************)
(* TLC instances of the babydegen-mode subgraph: of AgentFunds, on the     *)
(* registry, on tokens and on ETH; of AgentPositions, one venue at a time; *)
(* of AgentSnapshots, which this module extends; and of AgentPrices.  A    *)
(* behaviour is of one of `Parts`; what is not of it stays where it starts.*)
(***************************************************************************)
EXTENDS AgentSnapshots

CONSTANTS m1, m2, m3, o1, o2, e, c, Parts

VARIABLES part, pools, rows, updates, read

pricingVars == <<pools, rows, updates, read>>

MCHome == [m \in {m1, m2} |-> IF m = m1 THEN 1 ELSE 3]
MCMoves == {<<e, m1>>, <<m1, e>>, <<e, m2>>}
MCSlippages == {2, -1}

-----------------------------------------------------------------------------
\* A service with two multisigs and one that is left out, of two operators.
HomeOfThree == [m \in {m1, m2, m3} |-> IF m = m2 THEN 2 ELSE 1]
Registry == INSTANCE AgentFunds
              WITH Ids <- {1, 2}, ExcludedIds <- {2}, Operators <- {o1, o2}, Multisigs <- {m1, m2, m3},
                   Home <- HomeOfThree, AgentIds <- {OptimusAgent, 9}, Outsiders <- {}, Contracts <- {},
                   Moves <- {<<o1, m1>>}, Tokens <- {}, Prices <- {2}, MaxTime <- 4, MaxLogs <- 2

\* Two multisigs of one operator; what moves between them, to and from addresses that may
\* become contracts, and OLAS of the sender that is left out.
HomeOfTwo == [m \in {m1, m3} |-> 1]
OnTokens == INSTANCE AgentFunds
              WITH Ids <- {1}, ExcludedIds <- {}, Operators <- {o1}, Multisigs <- {m1, m3},
                   Home <- HomeOfTwo, AgentIds <- {OptimusAgent}, Outsiders <- {e, c, ExcludedOlasSender},
                   Contracts <- {c}, Tokens <- {"USDC", "OLAS"},
                   Moves <- {<<c, m1>>, <<m1, c>>, <<m1, m3>>, <<o1, m1>>, <<ExcludedOlasSender, m1>>},
                   Prices <- {1}, MaxTime <- 4, MaxLogs <- 2
OnEther == INSTANCE AgentFunds
             WITH Ids <- {1}, ExcludedIds <- {}, Operators <- {o1}, Multisigs <- {m1, m3},
                  Home <- HomeOfTwo, AgentIds <- {OptimusAgent}, Outsiders <- {e, c},
                  Contracts <- {c}, Tokens <- {},
                  Moves <- {<<c, m1>>, <<m1, o1>>, <<m1, m3>>, <<o1, m1>>},
                  Prices <- {1, 2}, MaxTime <- 4, MaxLogs <- 2

InVeloV2   == INSTANCE AgentPositions
                WITH Venues <- {"v2", "deploy"}, Prices <- {0, 1}, MaxTime <- 3, MaxLogs <- 3, MaxHeld <- 2
InVeloCL   == INSTANCE AgentPositions
                WITH Venues <- {"cl", "deploy"}, Outsiders <- {e}, MaxTime <- 4, MaxLogs <- 2
InBalancer == INSTANCE AgentPositions
                WITH Venues <- {"balancer", "swap"}, Multisigs <- {m1},
                     Slippages <- {2}, MaxTime <- 7, MaxLogs <- 1
InSturdy   == INSTANCE AgentPositions
                WITH Venues <- {"sturdy", "swap", "deploy"}, Multisigs <- {m1},
                     MaxTime <- 6, MaxLogs <- 1, MaxHeld <- 2

\* What a snapshot refreshes, at a price that changes: tokens and the positions in Velodrome;
\* those whose pool tokens, or whose shares, also move unseen.
OfVelo     == INSTANCE AgentSnapshots
                WITH Venues <- {"v2", "cl", "deploy"}, Multisigs <- {m1}, Outsiders <- {e}, Prices <- {1, 2},
                     Tokens <- {"WETH"}, Moves <- {<<e, m1>>}, MaxTime <- 3, MaxLogs <- 3
OfBalancer == INSTANCE AgentSnapshots
                WITH Venues <- {"balancer", "deploy"}, Multisigs <- {m1}, Outsiders <- {e}, Prices <- {1, 2},
                     Tokens <- {}, Moves <- {}, MaxTime <- 3, MaxLogs <- 2
OfSturdy   == INSTANCE AgentSnapshots
                WITH Venues <- {"sturdy", "deploy"}, Multisigs <- {m1}, Outsiders <- {e}, Prices <- {1, 2},
                     Tokens <- {}, Moves <- {}, MaxTime <- 3, MaxLogs <- 2, MaxHeld <- 2

\* The pools of the tokens that are priced in WETH, and of those beside it.
InWeth    == INSTANCE AgentPrices
               WITH Tokens <- {"WETH", "MODE", "STONE", "ETH"},
                    PoolStates <- (<<"WETH", "USDC">> :> {<<0, 0>>, <<10, 2>>, <<10, 3>>})
                                  @@ (<<"WETH", "MODE">> :> {<<1, 200>>, <<1, 2000>>})
                                  @@ (<<"WETH", "STONE">> :> {<<10, 10>>}),
                    Step <- 10, Ceiling <- 1000, MinPrice <- <<1, 100>>, MaxPrice <- <<1000, 1>>,
                    CacheDuration <- 2, MaxTime <- 3
InDollars == INSTANCE AgentPrices
               WITH Tokens <- {"USDT", "oUSDT", "OLAS", "uniBTC", "AERO"},
                    PoolStates <- (<<"USDC", "USDT">> :> {<<100, 100>>, <<100, 110>>})
                                  @@ (<<"oUSDT", "USDC">> :> {<<0, 0>>, <<100, 150>>})
                                  @@ (<<"OLAS", "USDC">> :> {<<0, 0>>, <<10, 1>>, <<20, 1>>}),
                    Step <- 10, Ceiling <- 1000, MinPrice <- <<1, 100>>, MaxPrice <- <<1000, 1>>,
                    CacheDuration <- 2, MaxTime <- 3

-----------------------------------------------------------------------------
\* What a part does not use.
NoVenues == lp = <<>> /\ bpt = <<>> /\ shares = <<>> /\ nft = <<>> /\ txs = 0 /\ untold = {}
NoPricing == pools = <<>> /\ rows = <<>> /\ updates = <<>> /\ read = <<>>
NoAgents == price = 1 /\ code = {} /\ held = <<>> /\ truth = <<>> /\ logs = <<>> /\ tables = <<>>

MCInit ==
  /\ part \in Parts
  /\ \/ part = "registry" /\ Registry!FundInit /\ NoVenues /\ NoPricing
     \/ part = "tokens" /\ OnTokens!FundInit /\ NoVenues /\ NoPricing
     \/ part = "ether" /\ OnEther!FundInit /\ NoVenues /\ NoPricing
     \/ part = "v2" /\ InVeloV2!PositionInit /\ NoPricing
     \/ part = "cl" /\ InVeloCL!PositionInit /\ NoPricing
     \/ part = "balancer" /\ InBalancer!PositionInit /\ NoPricing
     \/ part = "sturdy" /\ InSturdy!PositionInit /\ NoPricing
     \/ part = "snapshots" /\ SnapshotInit /\ NoPricing
     \/ part = "velo snapshots" /\ OfVelo!SnapshotInit /\ NoPricing
     \/ part = "balancer snapshots" /\ OfBalancer!SnapshotInit /\ NoPricing
     \/ part = "sturdy snapshots" /\ OfSturdy!SnapshotInit /\ NoPricing
     \/ part = "weth" /\ InWeth!PricesInit /\ NoAgents /\ NoVenues
     \/ part = "dollars" /\ InDollars!PricesInit /\ NoAgents /\ NoVenues

MCNext ==
  \/ part = "registry" /\ Registry!FundNext /\ UNCHANGED <<part, venueVars, pricingVars>>
  \/ part = "tokens" /\ OnTokens!FundNext /\ UNCHANGED <<part, venueVars, pricingVars>>
  \/ part = "ether" /\ OnEther!FundNext /\ UNCHANGED <<part, venueVars, pricingVars>>
  \/ part = "v2" /\ InVeloV2!PositionNext /\ UNCHANGED <<part, pricingVars>>
  \/ part = "cl" /\ InVeloCL!PositionNext /\ UNCHANGED <<part, pricingVars>>
  \/ part = "balancer" /\ InBalancer!PositionNext /\ UNCHANGED <<part, pricingVars>>
  \/ part = "sturdy" /\ InSturdy!PositionNext /\ UNCHANGED <<part, pricingVars>>
  \/ part = "snapshots" /\ SnapshotNext /\ UNCHANGED <<part, pricingVars>>
  \/ part = "velo snapshots" /\ OfVelo!SnapshotNext /\ UNCHANGED <<part, pricingVars>>
  \/ part = "balancer snapshots" /\ OfBalancer!SnapshotNext /\ UNCHANGED <<part, pricingVars>>
  \/ part = "sturdy snapshots" /\ OfSturdy!SnapshotNext /\ UNCHANGED <<part, pricingVars>>
  \/ /\ \/ part = "weth" /\ InWeth!PricesNext
        \/ part = "dollars" /\ InDollars!PricesNext
     /\ UNCHANGED <<part, price, code, held, truth, logs, tables, venueVars>>

MCSpec == MCInit /\ [][MCNext]_<<part, positionVars, pricingVars>>

-----------------------------------------------------------------------------
\* handleRegisterInstance, handleCreateMultisigWithAgents, handleERC20Transfer,
\* handleSafeReceived, handleSafeEthTransfer (serviceRegistry.ts, tokenBalances.ts,
\* safe.ts): the services are those of the registry, each with the operator of now; its
\* funding is what moved between it and its sources; its tokens are those it holds,
\* and no ETH it got is missing.
FundsFollowChain ==
  /\ part = "registry" => Registry!ServicesFollowRegistry /\ Registry!FundingFollowsSources
  /\ part = "tokens" => OnTokens!FundingFollowsSources /\ OnTokens!TokensAsHeld
  /\ part = "ether" => OnEther!FundingFollowsSources /\ OnEther!EthNeverUnderstated

\* The handlers of the venues (veloV2Pool.ts, veloNFTManager.ts, balancerVault.ts,
\* sturdyVault.ts): a position is active and has the amounts that its service holds
\* there, to whomever V2 pool tokens or an NFT move, and but for Balancer pool tokens and
\* Sturdy shares that moved by a plain transfer, which no handler sees; it is listed, once,
\* until a deployment with the same multisig empties the list; and it books its gain; and
\* (associateSwapsWithPosition, addSwapToBuffer, helpers.ts:393-471, swapTracking.ts:133-176)
\* a swap is in one bucket until one position takes it or it is rotated out, and the
\* costs of the positions are no more than the slippage they took.
PositionsMatchHolding ==
  /\ part = "v2" => InVeloV2!PositionsMatchHoldings
  /\ part = "cl" => InVeloCL!PositionsMatchHoldings
  /\ part = "balancer" => InBalancer!PositionsMatchHoldings /\ InBalancer!SwapsChargedOnce
  /\ part = "sturdy" => InSturdy!PositionsMatchHoldings /\ InSturdy!SwapsChargedOnce
  /\ part = "velo snapshots" => OfVelo!PositionsMatchHoldings
  /\ part = "balancer snapshots" => OfBalancer!PositionsMatchHoldings
  /\ part = "sturdy snapshots" => OfSturdy!PositionsMatchHoldings

\* checkServicesForSnapshot, calculatePortfolioMetrics, calculateGlobalMetrics
\* (portfolioScheduler.ts:69-166, helpers.ts:94-339, globalMetrics.ts:552-713): a service
\* has one snapshot a day, worth what it holds in that block, and a day has the metrics
\* of its first snapshots and of the days before it.
SnapshotsTell ==
  /\ [](part = "snapshots" => DaysRecorded)
  /\ [][/\ part = "snapshots" => SnapshotIsWorth
        /\ part = "velo snapshots" => OfVelo!SnapshotIsWorth
        /\ part = "balancer snapshots" => OfBalancer!SnapshotIsWorth
        /\ part = "sturdy snapshots" => OfSturdy!SnapshotIsWorth]_positionVars

\* getTokenPriceUSD (priceDiscovery.ts:22-104): an answer is what the token was worth in its
\* pools within the duration of the cache, or a dollar for a dollar, or nothing.
AnswersAreWorth ==
  /\ part = "weth" => InWeth!AnswersAreWorth
  /\ part = "dollars" => InDollars!AnswersAreWorth
=============================================================================
