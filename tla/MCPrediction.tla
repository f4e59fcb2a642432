---------------------------- MODULE MCPrediction ----------------------------
(***************************************************************************)
(* TLC instances of the models of the two indexers of traders' statistics: *)
(* PredictMarket (the Polymarket squid: an agent with a wallet, a market   *)
(* of each kind, the V2 one migrated from the first) and OmenMarkets (the  *)
(* Omen subgraph).  A behaviour is of one of `Indexers`.                   *)
(***************************************************************************)
EXTENDS PredictMarket

CONSTANTS c1, c2, c3, s1, i1, g1, a1, a2, k1, k2, NoRow, Indexers

VARIABLES indexer,
          \* The variables of OmenMarkets.
          omenPlan, now, chain, services, omenQuestions, conditions, omenMarkets, agents,
          omenParticipants, daily, omenGlobal, redeemed, answers, resubmitted

omenVars == <<omenPlan, now, chain, services, omenQuestions, conditions, omenMarkets, agents,
              omenParticipants, daily, omenGlobal, redeemed, answers, resubmitted>>

MCMarkets == c1 :> "uma" @@ c2 :> "binary" @@ c3 :> "negrisk"
MCLegacyOf == c1 :> None @@ c2 :> c1 @@ c3 :> None
MCFills == {[buy |-> TRUE, collateral |-> 1, shares |-> 3, fee |-> 1],
            [buy |-> FALSE, collateral |-> 1, shares |-> 2, fee |-> 2]}

Plan(fills, claims_, conditions_, days, ready) ==
  [fills |-> fills, claims |-> claims_, markets |-> conditions_, days |-> days, ready |-> ready,
   first |-> <<s1, i1, g1>>]
MCPlans == {Plan(2, 1, {c1, c2}, {1, 2}, TRUE), Plan(3, 2, {c1}, {1}, TRUE),
            Plan(2, 2, {c2}, {1, 2}, TRUE), Plan(1, 1, {c1, c2}, {1}, FALSE),
            Plan(1, 0, {c3}, {1}, FALSE)}

OmenPlans == {[pairs |-> {<<a1, k1>>}, trades |-> 3, answers |-> 3],
              [pairs |-> {<<a1, k1>>, <<a2, k1>>}, trades |-> 2, answers |-> 2],
              [pairs |-> {<<a1, k1>>, <<a1, k2>>}, trades |-> 2, answers |-> 2]}

Omen == INSTANCE OmenMarkets
          WITH Agents <- {a1, a2}, Markets <- {k1, k2}, Plans <- OmenPlans,
               BuysOf <- {[amount |-> 2, fee |-> 1, tokens |-> 3]},
               SellsOf <- {[amount |-> 1, fee |-> 0, tokens |-> 1]},
               Scale <- 4, DayLength <- 2, Timeout <- 2, MaxTime <- 3,
               plan <- omenPlan, questions <- omenQuestions, markets <- omenMarkets,
               participants <- omenParticipants, global <- omenGlobal

\* What is not of the behaviour's indexer stays where it starts.
MCInit ==
  /\ indexer \in Indexers /\ Init /\ Omen!Init
  /\ indexer = "omen" => plan = CHOOSE p \in Plans : TRUE
  /\ indexer = "polymarket" => omenPlan = CHOOSE p \in OmenPlans : TRUE

MCNext ==
  \/ indexer = "polymarket" /\ Next /\ UNCHANGED <<indexer, omenVars>>
  \/ indexer = "omen" /\ Omen!Next /\ UNCHANGED <<indexer, vars>>

MCSpec == MCInit /\ [][MCNext]_<<indexer, vars, omenVars>>

-----------------------------------------------------------------------------
\* The tables that keep totals - of an agent, of its positions, of its days, of all
\* agents - agree with each other and with the bets and claims, through
\* settlements, changed answers and redemptions (predict-polymarket/src/logic.ts:85-366;
\* predict-omen/src/realitio.ts:76-328, utils.ts:151-222).  A position settles once, for the
\* bets it had when its market resolved (predict-polymarket/src/logic.ts:195).  No claim of an agent that took
\* part in the market before the result is dropped (predict-polymarket/src/logic.ts:313-
\* 324), and what is redeemed is the payout expected at the last settlement, when that
\* counted all bets (predict-omen/src/conditional-tokens.ts:74-78).
StatisticsAddUp ==
  /\ TypeOK /\ TotalsAddUp /\ Omen!TypeOK /\ Omen!TotalsAddUp
  /\ SettledForEarlierBets /\ ClaimsBooked /\ Omen!RedeemedAsExpected

\* While no answer is given twice in a row, a day's profit, cost and Brier score are
\* those of the markets it lists ("always reverses the exact amount", realitio.ts:149-
\* 151), and an answer is final when "answerFinalizedTimestamp <= now"
\* (realitio.ts:57-63, 342-345, 359-361).
AnswersAttributed == Omen!DaysAttributed /\ Omen!FinalityAgrees

\* "After every settlement, participant.totalTradedSettled/totalFeesSettled equal the
\* cost basis attributed to a daily stat" (predict-omen/src/realitio.ts:149-151).
SettlementReversed == Omen!SettlementReversed
=============================================================================
