------------------------------ MODULE MCStreams ------------------------------
(***************************************************************************)
(* TLC instances of the models of how a squid gets its data: of            *)
(* SpawnStream, the babydegen squid's stream of logs; of PoolReserves, the *)
(* liquidity squid's reads of the node; and of MechFees, whose amounts are *)
(* worth what such reads answer, or nothing.  A behaviour is of one of     *)
(* `Squids`; of babydegen, it either has a shorter chain or no restart.    *)
(***************************************************************************)
EXTENDS SpawnStream, MechFees

CONSTANTS m1, o1, o2, burn, NoEndpoint, Squids

VARIABLES squid,
          \* The variables of PoolReserves.
          dex, endpoint, chain, minted, forks, batch, handled, rows, seen, work, memo, decimals

poolVars == <<dex, endpoint, chain, minted, forks, batch, handled, rows, seen, work, memo, decimals>>

Id == 1
MCServiceIds == {Id}
MCSafe == [s \in MCServiceIds |-> m1]
MCStreamBlocks ==
  {<<Registered(Id, o1)>>, <<Registered(Id, o2), SafeEvent(o2)>>,
   <<SafeEvent(m1), Transfer(m1), Deployed(Id), SafeEvent(m1), Transfer(m1)>>,
   <<Registered(Id, o2), SafeEvent(o2), Deployed(Id), SafeEvent(o1)>>,
   <<Transfer(m1), SafeEvent(o1), SafeEvent(o2)>>}

Short  == INSTANCE SpawnStream WITH MaxHeight <- 3
Steady == INSTANCE SpawnStream WITH MaxRestarts <- 0

Pool == INSTANCE PoolReserves
          WITH Contents <- {<<"join", "join">>, <<"join", "swap">>, <<"swap", "exit">>, <<"swap">>, <<"move">>},
               Endpoints <- {<<"archive", NoEndpoint>>, <<"pruned", NoEndpoint>>, <<"down", "pruned">>,
                             <<"flaky", "archive">>, <<"down", "flaky">>},
               Feed <- <<0, 2, 3>>, SwapFee <- <<1, 2, 2>>,
               MaxBlock <- 3, MaxForks <- 1, Staleness <- 2, BlocksPerDay <- 2

ASSUME Pool!ReservesAssumption

FeeChain(feed, olas, nvm, trackers) ==
  [feed |-> feed, olas |-> olas, nvm |-> nvm, trackers |-> trackers]

\* Gnosis, Base, Celo and a chain with an OLAS pool quoted in the native token.
Chains == {FeeChain(FALSE, "stable", "native", {"native", "nvm"}),
           FeeChain(TRUE, "native", "usdc", {"nvm", "token-usdc"}),
           FeeChain(TRUE, "none", NoneF, {"native", "token-olas"}),
           FeeChain(TRUE, "native", "usdc", {"token-olas"})}

\* What is not of the behaviour's squid stays where it starts.
MCInit ==
  /\ squid \in Squids /\ Init /\ Pool!Init
  /\ squid # "liquidity" => dex = "balancer-v2" /\ endpoint = <<"archive", NoEndpoint>>
  /\ FeeInit /\ (squid # "mech-fees" => feeChain = CHOOSE c \in Chains : TRUE)

MCNext ==
  \/ squid = "babydegen short" /\ Short!Next /\ UNCHANGED <<squid, poolVars, feeVars>>
  \/ squid = "babydegen steady" /\ Steady!Next /\ UNCHANGED <<squid, poolVars, feeVars>>
  \/ squid = "liquidity" /\ Pool!Next /\ UNCHANGED <<squid, vars, feeVars>>
  \/ squid = "mech-fees" /\ FeeNext /\ UNCHANGED <<squid, vars, poolVars>>

\* main runs again after each cut, and the processors after each failure.
MCSpec ==
  /\ MCInit /\ [][MCNext]_<<squid, vars, poolVars, feeVars>>
  /\ WF_vars(squid \notin {"liquidity", "mech-fees"} /\ Run)
  /\ WF_poolVars(squid = "liquidity" /\ Pool!Index)

-----------------------------------------------------------------------------
\* handleVaultSwap and handleLpTransfer (liquidity/src/handlers.ts:143-160, 240-272):
\* since the last join or exit whose refetch was of its own block, the reserves are
\* those of the chain, and every swap is in the fees of one day, whatever was retried
\* or rewound.  refreshNativePrice (88-106): with an endpoint that serves every block, the
\* price of a pool is one the feed gave less than Staleness ago, or the last it gave.
PoolExact == Pool!TypeOK /\ Pool!ReservesLive /\ Pool!FeesAddUp /\ Pool!PriceFresh

\* "A primary that is down, rather than merely non-archival, would otherwise defeat the
\* fallback at this step and retry the batch forever" (_shared/src/rpc.ts:137-139):
\* while one endpoint answers for the latest state every block of the pool is written
\* in the end; and a babydegen run that ends with a cut does not go on cutting at
\* the same block (babydegen/src/main.ts:97-101).
KeepUp == Follows /\ Pool!KeepsUp

\* "Blocks only move forward so old keys are dead" (_shared/src/rpc.ts:191).
OldKeysAreDead == Pool!OldKeysAreDead
=============================================================================
