---------------------------- MODULE OmenMarkets ----------------------------
(***************************************************************************)
(* The predict-omen subgraph (subgraphs/predict-omen/src): bets of trader   *)
(* agents on binary markets, settled at each answer of Reality.eth and      *)
(* settled again when the answer changes, and the payouts they redeem.      *)
(*                                                                         *)
(* A row that does not exist yet is NoRow; a daily statistic that does not  *)
(* is one of zeros, which getDailyProfitStatistic would create.  Amounts    *)
(* are small integers.  Reality.eth and the conditional tokens are          *)
(* external: which events they emit, in which order.                        *)
(***************************************************************************)
EXTENDS Integers, Sequences, FiniteSets, FiniteSetsExt, SequencesExt

CONSTANTS Agents,           \* Safes of trader services
          Markets,          \* FPMMs, one question each
          Plans,            \* [pairs, trades, answers]: the <<agent, market>> that bet, and bounds
          BuysOf,           \* [amount, fee, tokens] of a buy
          SellsOf,          \* and of a sell
          Scale,            \* PROBABILITY_SCALE
          DayLength,        \* steps of the clock in a day
          Timeout,          \* of a question
          MaxTime,          \* bound
          NoRow

Invalid == 2
Answers == {0, 1, Invalid}

VARIABLES
  plan,         \* who bets where, how much happens
  now,          \* the clock
  chain,        \* market |-> its question on Reality.eth: [stage, answer, finalAt]
  services,     \* TraderService rows, by their Safe
  questions,    \* market |-> its Question: "none", "asked", "linked" to its FPMM
  conditions,   \* ConditionPreparation rows
  markets,      \* market |-> FixedProductMarketMakerCreation
  agents,       \* agent |-> TraderAgent
  participants, \* <<agent, market>> |-> MarketParticipant with its Bets
  daily,        \* agent |-> day |-> DailyProfitStatistic
  global,
  redeemed,     \* <<agent, market>> that redeemed their tokens
  answers,      \* number of answers
  resubmitted   \* whether an answer was given twice in a row

vars == <<plan, now, chain, services, questions, conditions, markets, agents, participants,
          daily, global, redeemed, answers, resubmitted>>

Pairs == Agents \X Markets
\* getDayTimestamp
Day(time) == time \div DayLength
Days == 0 .. Day(MaxTime)

\* The counters of TraderAgent, MarketParticipant and Global.
Totals == [bets |-> 0, traded |-> 0, fees |-> 0, payout |-> 0,
           tradedSettled |-> 0, feesSettled |-> 0, expected |-> 0]
NewAgent == Totals @@ [active |-> FALSE]
NewGlobal == Totals @@ [agents |-> 0, activeAgents |-> 0]
NewParticipant == Totals @@ [tokens |-> [o \in 0 .. 1 |-> 0], brierSum |-> 0, brierCount |-> 0,
                             settled |-> FALSE, log |-> <<>>]
NoActivity == [bets |-> 0, traded |-> 0, fees |-> 0, payout |-> 0, tradedSettled |-> 0, feesSettled |-> 0,
               profit |-> 0, markets |-> {}, brierSum |-> 0, brierCount |-> 0]

\* A row with amounts added to some of its fields.
Plus(row, amounts) == [f \in DOMAIN row |-> IF f \in DOMAIN amounts THEN row[f] + amounts[f] ELSE row[f]]
Minus(row, amounts) == Plus(row, [f \in DOMAIN amounts |-> - amounts[f]])

Trades == global.bets
HasRow(a, m) == participants[<<a, m>>] # NoRow
AgentsOf(m) == {a \in Agents : HasRow(a, m)}

-----------------------------------------------------------------------------
(* Settlement.                                                               *)

Positive(balance) == IF balance > 0 THEN balance ELSE 0

\* What the outcome tokens pay: each side of an invalid market half, rounded on its own.
Expected(tokens, answer) ==
  IF answer = Invalid THEN Positive(tokens[0]) \div 2 + Positive(tokens[1]) \div 2
  ELSE Positive(tokens[answer])

\* computeImpliedProbability
ImpliedProbability(amount, tokens) == IF tokens = 0 THEN 0 ELSE (amount * Scale) \div tokens

\* actualForOutcome, brierContribution
Actual(outcome, answer) ==
  IF answer = Invalid THEN Scale \div 2 ELSE IF outcome = answer THEN Scale ELSE 0
BrierContribution(bet, answer) ==
  LET diff == bet.probability - Actual(bet.outcome, answer) IN (diff * diff) \div Scale

\* The bets that count: buys with a price.
Scored(p) == {i \in DOMAIN p.log : p.log[i].probability > 0 /\ p.log[i].amount > 0}

\* A participant settled by an answer, for the first time or again.
Settled(p, answer) ==
  [p EXCEPT !.expected = Expected(p.tokens, answer),
            !.tradedSettled = p.traded, !.feesSettled = p.fees, !.settled = TRUE,
            !.brierSum = MapThenSumSet(LAMBDA i : BrierContribution(p.log[i], answer), Scored(p)),
            !.brierCount = Cardinality(Scored(p)),
            !.log = [i \in DOMAIN p.log |-> [p.log[i] EXCEPT !.counted = TRUE]]]

\* What a settled participant has in the daily statistic of the settlement.
Share(p) == [profit |-> p.expected - p.tradedSettled - p.feesSettled,
             tradedSettled |-> p.tradedSettled, feesSettled |-> p.feesSettled,
             brierSum |-> p.brierSum, brierCount |-> p.brierCount]

\* What an answer adds to the agent's and the global totals.
Gain(p, answer) ==
  LET q == Settled(p, answer) IN
  [tradedSettled |-> q.tradedSettled - p.tradedSettled, feesSettled |-> q.feesSettled - p.feesSettled,
   expected |-> q.expected - p.expected]

\* The time in whose daily statistic an answer looks for the earlier settlement
\* (previousAnswerTimestamp).
SettledOn(m) == markets[m].answeredAt

\* addProfitParticipant, removeProfitParticipant
Credited(stats, p, m) == [stats EXCEPT ![Day(now)] = [Plus(@, Share(p)) EXCEPT !.markets = @ \cup {m}]]
Reversed(stats, p, m) == [stats EXCEPT ![Day(SettledOn(m))] = [Minus(@, Share(p)) EXCEPT !.markets = @ \ {m}]]

\* The participants an answer settles: those not settled and, if the answer changed, all.
Resettled(m, answer) ==
  {a \in AgentsOf(m) : participants[<<a, m>>].settled
                       => markets[m].answer # NoRow /\ markets[m].answer # answer}

-----------------------------------------------------------------------------
Init ==
  /\ plan \in Plans
  /\ now = DayLength - 1 /\ chain = [m \in Markets |-> [stage |-> "none", answer |-> NoRow, finalAt |-> 0]]
  /\ services = {} /\ questions = [m \in Markets |-> "none"] /\ conditions = {}
  /\ markets = [m \in Markets |-> NoRow] /\ agents = [a \in Agents |-> NoRow]
  /\ participants = [p \in Pairs |-> NoRow]
  /\ daily = [a \in Agents |-> [d \in Days |-> NoActivity]]
  /\ global = NewGlobal
  /\ redeemed = {} /\ answers = 0 /\ resubmitted = FALSE

Finalities == Nat \cup {NoRow}

TypeOK ==
  /\ now \in 0 .. MaxTime /\ services \subseteq Agents /\ conditions \subseteq Markets /\ redeemed \subseteq Pairs
  /\ \A m \in Markets :
       /\ chain[m].stage \in {"none", "open", "answered", "arbitration", "decided", "final"}
       /\ questions[m] \in {"none", "asked", "linked"}
       /\ markets[m] # NoRow => /\ markets[m].answer \in Answers \cup {NoRow}
                                /\ {markets[m].answeredAt, markets[m].finalizedAt} \subseteq Finalities
  /\ \A p \in Pairs : participants[p] # NoRow =>
       /\ agents[p[1]] # NoRow /\ markets[p[2]] # NoRow
       /\ {participants[p].bets, participants[p].fees, participants[p].payout,
           participants[p].expected, participants[p].brierSum} \subseteq Nat
  /\ \A a \in Agents : \A d \in Days : daily[a][d].markets \subseteq Markets

\* handleRegisterInstance
RegisterInstance(a) ==
  /\ a \notin services /\ services' = services \cup {a}
  /\ UNCHANGED <<plan, now, chain, questions, conditions, markets, agents, participants,
                 daily, global, redeemed, answers, resubmitted>>

\* handleCreateMultisigWithAgents
CreateMultisig(a) ==
  /\ a \in services /\ agents[a] = NoRow
  /\ agents' = [agents EXCEPT ![a] = NewAgent]
  /\ global' = Plus(global, [agents |-> 1])
  /\ UNCHANGED <<plan, now, chain, services, questions, conditions, markets, participants,
                 daily, redeemed, answers, resubmitted>>

\* handleLogNewQuestion, of a creator of CREATOR_ADDRESSES
LogNewQuestion(m) ==
  /\ chain[m].stage = "none"
  /\ chain' = [chain EXCEPT ![m].stage = "open"]
  /\ questions' = [questions EXCEPT ![m] = "asked"]
  /\ UNCHANGED <<plan, now, services, conditions, markets, agents, participants,
                 daily, global, redeemed, answers, resubmitted>>

\* handleConditionPreparation
PrepareCondition(m) ==
  /\ questions[m] # "none" /\ m \notin conditions
  /\ conditions' = conditions \cup {m}
  /\ UNCHANGED <<plan, now, chain, services, questions, markets, agents, participants,
                 daily, global, redeemed, answers, resubmitted>>

\* handleFixedProductMarketMakerCreation, of a market that is not blacklisted
CreateMarket(m) ==
  /\ m \in conditions /\ markets[m] = NoRow
  /\ markets' = [markets EXCEPT ![m] = [answer |-> NoRow, answeredAt |-> NoRow, finalizedAt |-> NoRow]]
  /\ questions' = [questions EXCEPT ![m] = "linked"]
  /\ UNCHANGED <<plan, now, chain, services, conditions, agents, participants,
                 daily, global, redeemed, answers, resubmitted>>

\* Whether a trade is an agent's first.
Joined(a) == IF agents[a].active THEN 0 ELSE 1

\* processTradeActivity, with the Bet and the daily statistic of handleBuy and handleSell;
\* a sell has a negative amount and negative tokens.
Trade(a, m, outcome, amount, fee, tokens) ==
  LET row == IF HasRow(a, m) THEN participants[<<a, m>>] ELSE NewParticipant
      volume == [bets |-> 1, traded |-> amount, fees |-> fee]
      bet == [outcome |-> outcome, amount |-> amount, counted |-> FALSE,
              probability |-> IF tokens > 0 THEN ImpliedProbability(amount, tokens)
                                            ELSE ImpliedProbability(- amount, - tokens)]
  IN
  /\ markets[m] # NoRow /\ agents[a] # NoRow
  /\ daily' = [daily EXCEPT ![a][Day(now)] = Plus(@, volume)]
  /\ global' = Plus(Plus(global, volume), [activeAgents |-> Joined(a)])
  /\ agents' = [agents EXCEPT ![a] = [Plus(@, volume) EXCEPT !.active = TRUE]]
  /\ participants' = [participants EXCEPT ![<<a, m>>] =
                        [Plus(row, volume) EXCEPT !.log = Append(@, bet), !.tokens[outcome] = @ + tokens]]

\* Agents bet until the answer is final.
Bet ==
  \E pair \in plan.pairs, outcome \in 0 .. 1 :
    LET a == pair[1]  m == pair[2] IN
    /\ Trades < plan.trades /\ chain[m].stage \notin {"none", "decided", "final"}
    /\ \/ \E b \in BuysOf : Trade(a, m, outcome, b.amount, b.fee, b.tokens)
       \/ \E b \in SellsOf : Trade(a, m, outcome, - b.amount, b.fee, - b.tokens)
    /\ UNCHANGED <<plan, now, chain, services, questions, conditions, markets, redeemed, answers, resubmitted>>

\* The loop over the participants, for those it settles.
SettleParticipants(m, answer, settled) ==
  LET row(a) == participants[<<a, m>>]
      settle(a) == Settled(row(a), answer)
      freed(a) == IF row(a).settled THEN Reversed(daily[a], row(a), m) ELSE daily[a]
  IN
  /\ participants' = [p \in Pairs |-> IF p[2] = m /\ p[1] \in settled THEN settle(p[1]) ELSE participants[p]]
  /\ agents' = [a \in Agents |-> IF a \in settled THEN Plus(agents[a], Gain(row(a), answer)) ELSE agents[a]]
  /\ daily' = [a \in Agents |-> IF a \in settled THEN Credited(freed(a), settle(a), m) ELSE daily[a]]

\* What all of them gained.
GlobalDeltas(m, answer, settled) ==
  [field \in {"tradedSettled", "feesSettled", "expected"} |->
     MapThenSumSet(LAMBDA a : Gain(participants[<<a, m>>], answer)[field], settled)]

\* handleLogNewAnswer
HandleAnswer(m, answer) ==
  LET settled == Resettled(m, answer) IN
  IF questions[m] # "linked"
  THEN UNCHANGED <<markets, agents, participants, daily, global>>
  ELSE /\ markets' = [markets EXCEPT ![m] =
                        [answer |-> answer, answeredAt |-> now, finalizedAt |-> now + Timeout]]
       /\ SettleParticipants(m, answer, settled)
       /\ global' = Plus(global, GlobalDeltas(m, answer, settled))

\* An answer: of anyone, with a higher bond, or of the arbitrator.
LogNewAnswer(m, answer) ==
  /\ answers < plan.answers /\ answers' = answers + 1
  /\ chain[m].stage \in {"open", "answered", "arbitration"}
  /\ chain' = [chain EXCEPT ![m] = [stage |-> IF @.stage = "arbitration" THEN "decided" ELSE "answered",
                                    answer |-> answer, finalAt |-> now + Timeout]]
  /\ resubmitted' = (resubmitted \/ chain[m].answer = answer)
  /\ HandleAnswer(m, answer)
  /\ UNCHANGED <<plan, now, services, questions, conditions, redeemed>>

\* handleLogFinalize
Finalized(row) == [row EXCEPT !.finalizedAt = now]

\* Mutant: a request leaves the scheduled time.
FrozenNever(row) == row

\* handleLogNotifyOfArbitrationRequest
Frozen(row) == [row EXCEPT !.finalizedAt = NoRow]

\* The log after the arbitrator's answer, in the same transaction.
LogFinalize(m) ==
  /\ chain[m].stage = "decided"
  /\ chain' = [chain EXCEPT ![m].stage = "final", ![m].finalAt = now]
  /\ markets' = IF questions[m] = "linked" THEN [markets EXCEPT ![m] = Finalized(@)] ELSE markets
  /\ UNCHANGED <<plan, now, services, questions, conditions, agents, participants,
                 daily, global, redeemed, answers, resubmitted>>

\* An answered question can be brought before the arbitrator.
RequestArbitration(m) ==
  /\ chain[m].stage = "answered" /\ answers < plan.answers
  /\ chain' = [chain EXCEPT ![m].stage = "arbitration"]
  /\ markets' = IF questions[m] = "linked" THEN [markets EXCEPT ![m] = Frozen(@)] ELSE markets
  /\ UNCHANGED <<plan, now, services, questions, conditions, agents, participants,
                 daily, global, redeemed, answers, resubmitted>>

\* handlePayoutRedemption: all outcome tokens are redeemed at once.
Redeem(a, m) ==
  /\ chain[m].stage = "final" /\ <<a, m>> \notin redeemed
  /\ redeemed' = redeemed \cup {<<a, m>>}
  /\ m \in conditions /\ questions[m] = "linked" /\ HasRow(a, m)
  /\ LET paid == [payout |-> Expected(participants[<<a, m>>].tokens, chain[m].answer)] IN
     /\ agents' = [agents EXCEPT ![a] = Plus(@, paid)]
     /\ participants' = [participants EXCEPT ![<<a, m>>] = Plus(@, paid)]
     /\ global' = Plus(global, paid)
     /\ daily' = [daily EXCEPT ![a][Day(now)] = Plus(@, paid)]
  /\ UNCHANGED <<plan, now, chain, services, questions, conditions, markets, answers, resubmitted>>

\* Time passes; an answer that stood for Timeout becomes final.
Tick ==
  /\ now < MaxTime /\ now' = now + 1
  /\ \A m \in Markets : chain[m].stage # "decided"
  /\ chain' = [m \in Markets |-> IF chain[m].stage = "answered" /\ chain[m].finalAt <= now'
                                 THEN [chain[m] EXCEPT !.stage = "final"] ELSE chain[m]]
  /\ UNCHANGED <<plan, services, questions, conditions, markets, agents, participants,
                 daily, global, redeemed, answers, resubmitted>>

Next ==
  \/ \E a \in {p[1] : p \in plan.pairs} : RegisterInstance(a) \/ CreateMultisig(a)
  \/ \E m \in {p[2] : p \in plan.pairs} : \/ LogNewQuestion(m) \/ PrepareCondition(m) \/ CreateMarket(m)
                        \/ LogFinalize(m) \/ RequestArbitration(m)
                        \/ \E answer \in Answers : LogNewAnswer(m, answer)
                        \/ \E a \in Agents : Redeem(a, m)
  \/ Bet \/ Tick

Spec == Init /\ [][Next]_vars

-----------------------------------------------------------------------------
Rows(a) == {m \in Markets : HasRow(a, m)}
SumOver(f(_), S) == MapThenSumSet(f, S)

\* Every total of an agent is the sum over its markets and over its days, the global ones over the
\* agents, through settlements, changed answers and redemptions (realitio.ts:76-328, utils.ts:151-222,
\* conditional-tokens.ts:66-88); profit is what the settlements left.
TotalsAddUp ==
  /\ \A a \in Agents : agents[a] # NoRow =>
       /\ \A f \in DOMAIN Totals : agents[a][f] = SumOver(LAMBDA m : participants[<<a, m>>][f], Rows(a))
       /\ \A f \in DOMAIN Totals \ {"expected"} : agents[a][f] = SumOver(LAMBDA d : daily[a][d][f], Days)
       /\ SumOver(LAMBDA d : daily[a][d].profit, Days)
            = agents[a].expected - agents[a].tradedSettled - agents[a].feesSettled
  /\ LET known == {a \in Agents : agents[a] # NoRow} IN
     /\ \A f \in DOMAIN Totals : global[f] = SumOver(LAMBDA a : agents[a][f], known)
     /\ global.agents = Cardinality(known)
     /\ global.activeAgents = Cardinality({a \in known : agents[a].active})

\* "after every settlement, `participant.totalTradedSettled`/`totalFeesSettled` equal the cost basis
\* attributed to a daily stat" (realitio.ts:149-151): a day's profit, cost and Brier score are those of the
\* markets it lists.
SettlementReversed ==
  \A a \in Agents : \A d \in Days : \A f \in DOMAIN Share(NewParticipant) :
    daily[a][d][f] = SumOver(LAMBDA m : Share(participants[<<a, m>>])[f], daily[a][d].markets)

\* It does while no answer is given twice in a row (realitio.ts:140-173).
DaysAttributed == ~ resubmitted => SettlementReversed

\* "The answer is final once answerFinalizedTimestamp <= now" (schema.graphql), through new answers and
\* arbitration (realitio.ts:57-63, 342-345, 359-361).
FinalityAgrees ==
  \A m \in Markets : markets[m] # NoRow /\ markets[m].answer # NoRow /\ chain[m].stage # "decided" =>
    (chain[m].stage = "final" <=> markets[m].finalizedAt # NoRow /\ markets[m].finalizedAt <= now)

\* What an agent redeems is the payout expected at the last settlement, when that counted all its bets
\* (realitio.ts:116-130, 234-249, conditional-tokens.ts:74-78).
RedeemedAsExpected ==
  \A pair \in redeemed : LET p == participants[pair] IN
    p.settled /\ (\A i \in DOMAIN p.log : p.log[i].counted) => p.payout = p.expected
=============================================================================
