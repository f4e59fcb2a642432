---------------------------- MODULE MCMarketplace ----------------------------
(***************************************************************************)
(* TLC instances of Marketplace.  A behaviour is of one of `Instances`:    *)
(*   main      the constants of the cfg;                                   *)
(*   rates     two mechs of one service, created and repriced at any time; *)
(*   registry  services that get agents and multisigs at any time;         *)
(*   subgraph  every call, handled by the subgraph as well;                *)
(*   legacy    LegacyMechs, two mechs, one service and one that may come;  *)
(*   fees      FeeConversion, on every network and factory.                *)
(* All but the last two have the same variables.                           *)
(***************************************************************************)
EXTENDS MarketplaceGraph, TLC

CONSTANTS s1, s2, m1, m2, m3, m4, safe, eoa, r1, Instances, Reverted

VARIABLES instance,
          mech, merged, setups, legacyTx, legacyCalls, disturbed,  \* of LegacyMechs
          network, factory, archive, states, charges, worth, feeMemo   \* of FeeConversion

\* Two services; the third mech is a stranger, or the second of the first one's service.
ThreeMechs == m1 :> s1 @@ m2 :> s2 @@ m3 :> s1
FourMechs  == ThreeMechs @@ m4 :> s2

\* The multisig of a service.
OneMultisig == safe :> s2

FoundedLegacy == s1 :> safe
SenderOfLegacy == 1 :> safe @@ 2 :> eoa

KarmaChanges == {-1, 1}

RatesRun == INSTANCE Marketplace
              WITH Strangers <- {m2}, Founded <- {m1}, Ids <- {r1}, Rates <- {1, 2},
                   Prices <- {1}, Accounts <- {safe}, MaxCalls <- 4,
                   Calls <- {"createMech", "rate", "request", "delivery", "foreign"}
RegistryRun == INSTANCE Marketplace
                 WITH Agents <- {7, 8}, Strangers <- {m1, m3}, Founded <- {m2}, Prices <- {1},
                      Registered <- {s2}, MaxCalls <- 3,
                      Calls <- {"registry", "request", "signed"}

SubgraphRun == INSTANCE MarketplaceGraph
                 WITH Mechs <- {m1, m2, m3, m4}, ServiceOf <- FourMechs, Founded <- {m1},
                      Strangers <- {m2}, Unlisted <- {m4}, Ids <- {r1}, MaxCalls <- 3,
                      Calls <- {"createMech", "rate", "registry", "request", "delivery",
                                "signed", "direct", "foreign"}

LegacyRun == INSTANCE LegacyMechs
               WITH Agents <- {7, 8}, Multisigs <- {safe}, Owners <- {safe, eoa},
                    Ids <- {1, 2}, SenderOf <- SenderOfLegacy, Titled <- {1},
                    Founded <- FoundedLegacy, MaxSetup <- 3, MaxCalls <- 3, MaxTxs <- 2,
                    tx <- legacyTx, calls <- legacyCalls

ASSUME LegacyRun!LegacyAssumption

\* A round with an answer, one still in progress, one before the first, a negative one.
FeedRounds ==
  {[answer |-> a, answered |-> TRUE] : a \in {5, 0, -2}} \cup {[answer |-> 3, answered |-> FALSE]}

\* The two tokens in either order, one of them drained, and one or the other missing.
PoolTokens ==
  { << <<"OLAS", 3>>, <<"QUOTE", 5>> >>, << <<"QUOTE", 7>>, <<"OLAS", 2>> >>,
    << <<"QUOTE", 0>>, <<"OLAS", 2>> >>,
    << <<"OTHER", 3>>, <<"QUOTE", 5>> >>, << <<"OLAS", 3>>, <<"OTHER", 5>> >> }

FeesRun == INSTANCE FeeConversion
             WITH Rounds <- FeedRounds, Pools <- PoolTokens, FeeAmounts <- {1, 3}, Whole <- 4,
                  StableUnit <- 2, FeedUnit <- 3, CreditRatio <- 3, MaxBlock <- 2, MaxFees <- 2

ASSUME FeesRun!FeeConversionAssumption

legacyMCVars == <<mech, merged, setups, legacyTx, legacyCalls, disturbed>>
feeMCVars == <<network, factory, archive, states, charges, worth, feeMemo>>

\* No chain: the instance is another.
NoChain ==
  /\ network = "none" /\ factory = "none" /\ archive = FALSE
  /\ states = <<>> /\ charges = <<>> /\ worth = <<>> /\ feeMemo = <<>>

MCInit ==
  /\ instance \in Instances
  /\ \/ instance = "main" /\ Init
     \/ instance = "rates" /\ RatesRun!Init
     \/ instance = "registry" /\ RegistryRun!Init
     \/ instance = "subgraph" /\ SubgraphRun!Init
     \/ instance \in {"legacy", "fees"} /\ Init
  /\ GInit /\ LegacyRun!LegacyInit
  /\ IF instance = "fees" THEN FeesRun!FeeConversionInit ELSE NoChain

MCNext ==
  \/ /\ \/ instance = "main" /\ Next /\ UNCHANGED gVars
        \/ instance = "rates" /\ RatesRun!Next /\ UNCHANGED gVars
        \/ instance = "registry" /\ RegistryRun!Next /\ UNCHANGED gVars
        \/ instance = "subgraph" /\ SubgraphRun!GNext
     /\ UNCHANGED <<legacyMCVars, feeMCVars>>
  \/ instance = "legacy" /\ LegacyRun!LegacyNext /\ UNCHANGED <<vars, gVars, feeMCVars>>
  \/ instance = "fees" /\ FeesRun!FeeConversionNext /\ UNCHANGED <<vars, gVars, legacyMCVars>>

MCSpec ==
  MCInit /\ [][MCNext /\ UNCHANGED instance]_<<vars, gVars, legacyMCVars, feeMCVars, instance>>

-----------------------------------------------------------------------------
\* "The squid must give every consumer the numbers it gets today"
\* (squids/marketplace/MIGRATION.md:84): between transactions the tables of the
\* squid and of the subgraph are the same, though the one parks in memory what the
\* other writes, and hears every contract where the other follows data sources; and
\* "values a consumer sees are then identical to the subgraph's" (fee.ts:8-9): a fee is
\* converted to the same USD, one price for a block, and never to nothing for want of
\* a source.
SquidReplacesSubgraph ==
  /\ instance = "subgraph" =>
       SubgraphRun!TypeOK /\ SubgraphRun!SquidAgreesWithSubgraph /\ SubgraphRun!FilesAskedFor
  /\ instance = "fees" => FeesRun!FeesConverted

\* Both subgraphs count the requests and the deliveries of the legacy mechs as the
\* logs do, and an agent's transaction once (agent-mech.ts:285-296, 434-441); the one
\* keeps the first delivery of a request, the other all of them; and "the Marketplace
\* subgraph merges both" (subgraphs/mech/README.md:7): but for multisigs that changed
\* their service, and agents of services with the id of a mech's
\* (mech/src/registryL2.ts:78), both attribute them to the same services.
LegacyMerged == instance = "legacy" => LegacyRun!LegacyMerged
=============================================================================
