----------------------------- MODULE PredictMarket -----------------------------
(***************************************************************************)
(* The handlers of the predict-polymarket squid                            *)
(* (squids/predict-polymarket/src/handlers.ts, logic.ts): the bets of the   *)
(* trader agents, the settlement of their positions when a market resolves  *)
(* and the payouts they claim, each kept in four tables that must agree.    *)
(*                                                                         *)
(* A market is its condition: "uma" and "negrisk" ones are of the Conditional *)
(* Tokens, "binary" ones of Protocol V2.  Rows are changed in place: the     *)
(* cache is the one of EntityCache, and the settlement's queries flush it    *)
(* first.                                                                    *)
(***************************************************************************)
EXTENDS Integers, Sequences, FiniteSets, SequencesExt

CONSTANTS Services, Instances, Multisigs, Wallets,
          Markets,      \* condition :> its kind
          Older,        \* those prepared before START_BLOCK
          Unreadable,   \* those whose getCollectionId reverts
          LegacyOf,     \* the market a V2 market was migrated from, or None
          Fills,        \* [buy, collateral, shares, fee] of an order's fill
          MaxDays,
          Plans,        \* bounds: how many fills and claims, in which markets and days, whether the agents and the
                        \* markets are there already or come and change meanwhile
          None

ASSUME PredictAssumption ==
  /\ Unreadable \subseteq DOMAIN Markets /\ Older \subseteq DOMAIN Markets
  /\ \A c \in DOMAIN Markets : Markets[c] \in {"uma", "negrisk", "binary"}
  /\ LegacyOf \in [DOMAIN Markets -> DOMAIN Markets \cup {None}]
  /\ \A f \in Fills : f.buy \in BOOLEAN /\ {f.collateral, f.shares, f.fee} \subseteq Nat
  /\ MaxDays \in Nat \ {0}
  /\ \A p \in Plans : {p.fills, p.claims} \subseteq Nat /\ p.ready \in BOOLEAN
                     /\ p.markets \subseteq DOMAIN Markets /\ p.days \subseteq 1 .. MaxDays
                     /\ p.first \in Services \X Instances \X Multisigs
  /\ None \notin Services \cup Multisigs \cup DOMAIN Markets

Conditions == DOMAIN Markets
Outcomes == {0, 1}
Legacy == {c \in Conditions : Markets[c] # "binary"}
Days == 1 .. MaxDays

VARIABLES
  \* Tables.  multisigOf: None for a service without a row, "" without a multisig.
  instanceOf, multisigOf, traders, wallets,
  bridge, tokens, texts, questions, resolutions, participated,
  participants, bets, claims, dailies, global,
  \* The chain: the payouts of each condition that resolved, and the day.
  payouts, today,
  plan,
  claimed   \* what agents claimed, for the properties

identities == <<plan, instanceOf, multisigOf, wallets>>
markets == <<bridge, tokens, texts>>
vars == <<identities, traders, markets, questions, resolutions, participated, participants, bets,
          claims, dailies, global, payouts, today, claimed>>

Account == [bets : Nat, traded : Int, settled : Int, payout : Nat, expected : Nat]
NoAccount == [bets |-> 0, traded |-> 0, settled |-> 0, payout |-> 0, expected |-> 0]
NewDaily == [bets |-> 0, traded |-> 0, payout |-> 0, settled |-> 0, profit |-> 0, scored |-> 0,
             markets |-> {}]

TypeOK ==
  /\ instanceOf \in [Instances -> Services \cup {None}]
  /\ multisigOf \in [Services -> Multisigs \cup {None, ""}]
  /\ traders \in [Multisigs -> {None} \cup [account : Account, active : BOOLEAN]]
  /\ wallets \in [Wallets -> Multisigs \cup {None}]
  /\ bridge \subseteq Conditions /\ tokens \subseteq Conditions \X Outcomes
  /\ texts \in [Conditions -> {None, "v1", "rules", ""}]
  /\ questions \in [Conditions -> Conditions \cup {None}]
  /\ participated \subseteq Conditions
  /\ DOMAIN participants \subseteq Multisigs \X Conditions
  /\ \A id \in DOMAIN participants :
       /\ participants[id].account \in Account
       /\ participants[id].question \in Conditions \cup {None}
       /\ participants[id].shares \in [Outcomes -> Int]
       /\ participants[id].closed \in BOOLEAN
  /\ dailies \in [Multisigs -> [Days -> [bets : Nat, traded : Int, payout : Nat, settled : Int,
                                         profit : Int, scored : Nat, markets : SUBSET Conditions]]]
  /\ global \in [account : Account, traders : Nat, active : Nat, markets : Nat]
  /\ today \in Days

\* What the logs of enrolled agents and open markets leave in the tables.
Init ==
  LET firstService == plan.first[1]
      firstInstance == plan.first[2]
      firstSafe == plan.first[3]
      open == {c \in Legacy : plan.ready} \ Older
  IN
  /\ plan \in Plans
  /\ instanceOf = [i \in Instances |-> IF plan.ready /\ i = firstInstance THEN firstService ELSE None]
  /\ multisigOf = [s \in Services |-> IF plan.ready /\ s = firstService THEN firstSafe ELSE None]
  /\ traders = [g \in Multisigs |->
       IF plan.ready /\ g = firstSafe THEN [account |-> NoAccount, active |-> FALSE] ELSE None]
  /\ wallets = [w \in Wallets |-> IF plan.ready THEN firstSafe ELSE None]
  /\ bridge = open /\ tokens = (open \ Unreadable) \X Outcomes
  /\ texts = [c \in Conditions |-> IF c \in open THEN "v1" ELSE None]
  /\ questions = [c \in Conditions |-> IF c \in open THEN c ELSE None]
  /\ resolutions = [c \in Conditions |-> None]
  /\ participated = {} /\ participants = <<>> /\ bets = <<>> /\ claims = <<>>
  /\ dailies = [g \in Multisigs |-> [d \in Days |-> NewDaily]]
  /\ global = [account |-> NoAccount, active |-> 0, markets |-> 0,
               traders |-> IF plan.ready THEN 1 ELSE 0]
  /\ payouts = [c \in Conditions |-> None] /\ today = 1 /\ claimed = <<>>

\* A log is of the day of the last one or of a later one.
Later == {d \in plan.days : d >= today}

-----------------------------------------------------------------------------
(* Who the agents are.  Each action is a log and its handler; what a contract *)
(* guarantees of its logs is the guard.                                       *)

\* An instance may register with another service later.
HandleRegisterInstance ==
  \E i \in Instances, s \in Services :
    /\ ~ plan.ready /\ instanceOf[i] # s
    /\ instanceOf' = [instanceOf EXCEPT ![i] = s]
    /\ multisigOf' = IF multisigOf[s] = None THEN [multisigOf EXCEPT ![s] = ""] ELSE multisigOf
    /\ UNCHANGED <<plan, traders, wallets, markets, questions, resolutions, participated, participants,
                   bets, claims, dailies, global, payouts, today, claimed>>

\* A service of traders gets a multisig, a new one or that which it has.
HandleCreateMultisigWithAgents ==
  \E s \in Services, g \in Multisigs :
    /\ \A t \in Services \ {s} : multisigOf[t] # g
    /\ multisigOf[s] # None /\ ~ plan.ready
    /\ multisigOf' = [multisigOf EXCEPT ![s] = g]
    /\ IF traders[g] # None THEN UNCHANGED <<traders, global>>
       ELSE /\ traders' = [traders EXCEPT ![g] = [account |-> NoAccount, active |-> FALSE]]
            /\ global' = [global EXCEPT !.traders = @ + 1]
    /\ UNCHANGED <<plan, instanceOf, wallets, markets, questions, resolutions, participated, participants,
                   bets, claims, dailies, payouts, today, claimed>>

HandleWalletDeployed ==
  \E w \in Wallets, i \in Instances :
    /\ wallets[w] = None /\ instanceOf[i] # None
    /\ multisigOf[instanceOf[i]] \notin {None, ""}
    /\ wallets' = [wallets EXCEPT ![w] = multisigOf[instanceOf[i]]]
    /\ UNCHANGED <<plan, instanceOf, multisigOf, traders, markets, questions, resolutions, participated,
                   participants, bets, claims, dailies, global, payouts, today, claimed>>

\* resolveMakerAgent
AgentOf(maker) ==
  IF maker \in Multisigs THEN IF traders[maker] = None THEN None ELSE maker ELSE wallets[maker]

-----------------------------------------------------------------------------
(* Markets.                                                                   *)

HandleConditionPreparation ==
  \E c \in (plan.markets \cap Legacy) \ (bridge \cup Older) :
    /\ bridge' = bridge \cup {c}
    /\ tokens' = IF c \in Unreadable THEN tokens ELSE tokens \cup ({c} \X Outcomes)
    /\ UNCHANGED <<identities, traders, texts, questions, resolutions, participated, participants,
                   bets, claims, dailies, global, payouts, today, claimed>>

HandleTokenRegistered ==
  \E c \in plan.markets \cap Legacy \cap (bridge \cup Older) :
    /\ <<c, 0>> \notin tokens
    /\ tokens' = tokens \cup ({c} \X Outcomes)
    /\ UNCHANGED <<identities, traders, bridge, texts, questions, resolutions, participated,
                   participants, bets, claims, dailies, global, payouts, today, claimed>>

\* QuestionInitialized, unless its text names no two outcomes, and QuestionPrepared.
HandleQuestion ==
  \E c \in plan.markets \cap Legacy \cap bridge :
    /\ questions[c] = None /\ payouts[c] = None
    /\ texts' = [texts EXCEPT ![c] = "v1"]
    /\ questions' = [questions EXCEPT ![c] = c]
    /\ UNCHANGED <<identities, traders, bridge, tokens, resolutions, participated, participants,
                   bets, claims, dailies, global, payouts, today, claimed>>

HandleRequestRegistered ==
  \E c \in plan.markets \ Legacy :
    /\ ~ plan.ready /\ texts[c] # "rules"
    /\ texts' = [texts EXCEPT ![c] = "rules"]
    /\ UNCHANGED <<identities, traders, bridge, tokens, questions, resolutions, participated,
                   participants, bets, claims, dailies, global, payouts, today, claimed>>

\* ensureBinaryQuestion: the row of its text is its own or the migrated market's.
EnsureQuestion(c) ==
  LET legacy == LegacyOf[c]
      text == IF texts[c] # None \/ legacy = None \/ questions[legacy] = None THEN c
              ELSE questions[legacy]
  IN
  IF Markets[c] # "binary" \/ questions[c] # None THEN UNCHANGED <<questions, texts>>
  ELSE /\ questions' = [questions EXCEPT ![c] = text]
       /\ texts' = IF texts[text] = None THEN [texts EXCEPT ![text] = ""] ELSE texts

-----------------------------------------------------------------------------
(* Bets.                                                                      *)

\* recordBet: sells are negative.
Amount(f) ==
  IF f.buy THEN f.collateral + f.fee
  ELSE -(f.collateral - (IF f.fee < f.collateral THEN f.fee ELSE f.collateral))
Shares(f) == IF f.buy THEN f.shares ELSE -f.shares

Traded(account, amount) == [account EXCEPT !.bets = @ + 1, !.traded = @ + amount]

\* The participant's link to the question is set when the row is created.
Participant(id) ==
  IF id \in DOMAIN participants THEN participants[id]
  ELSE [account |-> NoAccount, closed |-> FALSE, shares |-> [o \in Outcomes |-> 0],
        question |-> IF questions'[id[2]] = None THEN None ELSE id[2]]

Put(table, id, row) == [i \in DOMAIN table \cup {id} |-> IF i = id THEN row ELSE table[i]]

\* recordBet and processTradeActivity.
Record(g, c, o, f, d) ==
  LET id == <<g, c>>
      old == Participant(id)
      new == id \notin DOMAIN participants
  IN
  /\ dailies' = [dailies EXCEPT ![g][d].bets = @ + 1, ![g][d].traded = @ + Amount(f)]
  /\ bets' = Append(bets, [of |-> id, day |-> d, amount |-> Amount(f), outcome |-> o,
                           shares |-> Shares(f), counted |-> FALSE,
                           scores |-> f.buy /\ f.shares # 0 /\ Amount(f) # 0,
                           late |-> payouts[c] # None])
  /\ participants' = Put(participants, id,
       [old EXCEPT !.account = Traded(@, Amount(f)), !.shares[o] = @ + Shares(f)])
  /\ traders' = [traders EXCEPT ![g] = [account |-> Traded(@.account, Amount(f)), active |-> TRUE]]
  /\ participated' = participated \cup (IF new THEN {c} ELSE {})
  /\ global' = [global EXCEPT
       !.account = Traded(@, Amount(f)),
       !.active = IF traders[g].active THEN @ ELSE @ + 1,
       !.markets = IF new /\ c \notin participated THEN @ + 1 ELSE @]

\* handleOrderFill and handlePositionFill.  Anyone may trade a market that resolved.
HandleFill ==
  \E maker \in Multisigs \cup Wallets, c \in plan.markets, o \in Outcomes, f \in Fills :
    \E d \in Later :
      /\ AgentOf(maker) # None /\ Len(bets) < plan.fills
      /\ Markets[c] = "binary" \/ <<c, o>> \in tokens
      /\ EnsureQuestion(c)
      /\ Record(AgentOf(maker), c, o, f, d)
      /\ today' = d
      /\ UNCHANGED <<identities, bridge, tokens, resolutions, claims, payouts, claimed>>

-----------------------------------------------------------------------------
(* Settlement.                                                                *)

\* The winner of a vector of payouts, -1 if there is none.
Winner(vector) ==
  CASE vector[1] > vector[2] -> 0
    [] vector[1] < vector[2] -> 1
    [] OTHER -> -1

Positive(n) == IF n > 0 THEN n ELSE 0

Expected(shares, vector) ==
  IF Winner(vector) # -1 THEN Positive(shares[Winner(vector)])
  ELSE (Positive(shares[0]) * vector[1]) \div (vector[1] + vector[2])
       + (Positive(shares[1]) * vector[2]) \div (vector[1] + vector[2])

\* participantsByQuestion, without those that were settled.
ToSettle(c) ==
  {id \in DOMAIN participants : participants[id].question = c /\ ~ participants[id].closed}

\* processMarketResolution looks for the question and for an earlier resolution.
Unresolved(c) == questions[c] # None /\ resolutions[c] = None

SumOver(S, value(_)) == MapThenSumSet(value, S)

\* Mutant: what is due to a loser is left out.
SettledWinners(account, due, expected) ==
  IF expected = 0 THEN account ELSE [account EXCEPT !.settled = @ + due, !.expected = @ + expected]

Settled(account, due, expected) ==
  [account EXCEPT !.settled = @ + due, !.expected = @ + expected]

Settle(c, vector, d) ==
  LET ids == ToSettle(c)
      due(id) == participants[id].account.traded - participants[id].account.settled
      expected(id) == Expected(participants[id].shares, vector)
      ofAgent(g) == {id \in ids : id[1] = g}
      betsOf(S) == {b \in DOMAIN bets : bets[b].of \in S}
  IN
  /\ resolutions' = [resolutions EXCEPT ![c] = Winner(vector)]
  /\ participants' = [id \in DOMAIN participants |->
       IF id \notin ids THEN participants[id]
       ELSE [participants[id] EXCEPT !.closed = TRUE,
               !.account = [@ EXCEPT !.settled = @ + due(id), !.expected = expected(id)]]]
  /\ traders' = [g \in Multisigs |->
       IF ofAgent(g) = {} THEN traders[g]
       ELSE [traders[g] EXCEPT !.account =
               Settled(@, SumOver(ofAgent(g), due), SumOver(ofAgent(g), expected))]]
  /\ bets' = [b \in DOMAIN bets |-> IF bets[b].of \in ids THEN [bets[b] EXCEPT !.counted = TRUE]
                                    ELSE bets[b]]
  /\ dailies' = [g \in Multisigs |-> IF ofAgent(g) = {} THEN dailies[g]
       ELSE [dailies[g] EXCEPT ![d] =
              [@ EXCEPT !.profit = @ + SumOver(ofAgent(g), expected) - SumOver(ofAgent(g), due),
                        !.settled = @ + SumOver(ofAgent(g), due),
                        !.scored = @ + Cardinality({b \in betsOf(ofAgent(g)) : bets[b].scores}),
                        !.markets = @ \cup {c}]]]
  /\ global' = [global EXCEPT !.account = Settled(@, SumOver(ids, due), SumOver(ids, expected))]

\* QuestionResolved, OutcomeReported or ConditionResolved.  UMA reports the
\* questions of two contracts, and an administrator may report one again.
HandleResolution ==
  \E c \in plan.markets, vector \in {<<2, 0>>, <<0, 2>>, <<1, 1>>}, d \in Later :
    /\ c \in bridge \cup Older \/ Markets[c] = "binary"
    /\ IF payouts[c] = None THEN Markets[c] # "negrisk" \/ vector # <<1, 1>>
       ELSE Markets[c] = "uma" /\ vector = payouts[c]
    /\ payouts' = [payouts EXCEPT ![c] = vector]
    /\ today' = d
    /\ IF Unresolved(c) /\ (c \in bridge \/ Markets[c] = "binary") THEN Settle(c, vector, d)
       ELSE UNCHANGED <<traders, resolutions, participants, bets, dailies, global>>
    /\ UNCHANGED <<identities, markets, questions, participated, claims, claimed>>

-----------------------------------------------------------------------------
(* Claims.                                                                    *)

Paid(account, amount) == [account EXCEPT !.payout = @ + amount]

\* The redeemer of a market of Conditional Tokens must be the Safe itself; that of a
\* V2 market may be its wallet, if the result is recorded.
Claimant(account, c) ==
  CASE Markets[c] = "binary" -> IF resolutions[c] = None THEN None ELSE AgentOf(account)
    [] account \in Multisigs -> AgentOf(account)
    [] OTHER -> None

\* processRedemption
Book(g, c, d) ==
  /\ claims' = Append(claims, [of |-> <<g, c>>, day |-> d])
  /\ traders' = [traders EXCEPT ![g].account = Paid(@, 1)]
  /\ participants' = [participants EXCEPT ![<<g, c>>].account = Paid(@, 1)]
  /\ global' = [global EXCEPT !.account = Paid(@, 1)]
  /\ dailies' = [dailies EXCEPT ![g][d].payout = @ + 1]

\* PayoutRedemption, PositionsRedeemed or PositionRedeemed of one token.  A claim made
\* through an adapter is logged by the Conditional Tokens for the adapter as well,
\* which is no agent; a V2 one not made by the Router is ignored.
HandleRedemption ==
  \E account \in Multisigs \cup Wallets, c \in plan.markets, router \in BOOLEAN :
    \E d \in Later :
      LET g == Claimant(account, c) IN
      /\ payouts[c] # None /\ AgentOf(account) # None /\ Len(claimed) < plan.claims
      /\ Markets[c] = "binary" \/ router
      /\ today' = d
      /\ IF router /\ g # None /\ questions[c] # None /\ <<g, c>> \in DOMAIN participants
         THEN Book(g, c, d) ELSE UNCHANGED <<claims, traders, participants, global, dailies>>
      /\ claimed' = IF router /\ (account \in Multisigs \/ Markets[c] = "binary")
                    THEN Append(claimed, <<AgentOf(account), c>>) ELSE claimed
      /\ UNCHANGED <<identities, markets, questions, resolutions, participated, bets, payouts>>

-----------------------------------------------------------------------------
Next == \/ HandleRegisterInstance \/ HandleCreateMultisigWithAgents \/ HandleWalletDeployed
        \/ HandleConditionPreparation \/ HandleTokenRegistered \/ HandleQuestion
        \/ HandleRequestRegistered \/ HandleFill \/ HandleResolution \/ HandleRedemption

Spec == Init /\ [][Next]_vars

-----------------------------------------------------------------------------
\* The four tables that keep totals agree with each other and with the bets and the
\* claims (recordBet, processTradeActivity, processMarketResolution,
\* processRedemption): the global row with the agents, an agent with its positions
\* and with its days, a position with its bets.
TotalsAddUp ==
  LET accounts == [g \in Multisigs |-> IF traders[g] = None THEN NoAccount ELSE traders[g].account]
      of(g) == {id \in DOMAIN participants : id[1] = g}
      betsOf(id) == {b \in DOMAIN bets : bets[b].of = id}
      onDays(g, field) == SumOver(Days, LAMBDA d : dailies[g][d][field])
      agrees(field) ==
        /\ global.account[field] = SumOver(Multisigs, LAMBDA g : accounts[g][field])
        /\ \A g \in Multisigs :
             accounts[g][field] = SumOver(of(g), LAMBDA id : participants[id].account[field])
  IN
  /\ \A field \in {"bets", "traded", "settled", "payout", "expected"} : agrees(field)
  /\ \A g \in Multisigs :
       /\ \A field \in {"bets", "traded", "settled", "payout"} :
            accounts[g][field] = onDays(g, field)
       /\ onDays(g, "profit") = accounts[g].expected - accounts[g].settled
       /\ onDays(g, "scored") =
            Cardinality({b \in DOMAIN bets : /\ bets[b].of[1] = g /\ bets[b].counted
                                             /\ bets[b].scores})
  /\ \A id \in DOMAIN participants :
       /\ participants[id].account.traded = SumOver(betsOf(id), LAMBDA b : bets[b].amount)
       /\ participants[id].account.payout = Cardinality({i \in DOMAIN claims : claims[i].of = id})
  /\ global.markets = Cardinality({id[2] : id \in DOMAIN participants})

\* processMarketResolution ("All profit/loss is attributed to the resolution day",
\* logic.ts:195): a position settles once, for the bets it had when its market resolved and
\* at what they are worth, whatever is traded or reported later; a bet after
\* that is in no profit.
SettledForEarlierBets ==
  \A id \in DOMAIN participants :
    LET row == participants[id]
        before == {b \in DOMAIN bets : bets[b].of = id /\ ~ bets[b].late}
        held == [o \in Outcomes |->
                   SumOver({b \in before : bets[b].outcome = o}, LAMBDA b : bets[b].shares)]
    IN
    /\ row.closed => /\ row.account.settled = SumOver(before, LAMBDA b : bets[b].amount)
                     /\ row.account.expected = Expected(held, payouts[id[2]])
    /\ ~ row.closed /\ row.question # None /\ payouts[id[2]] # None => before = {}
    /\ \A b \in DOMAIN bets : bets[b].of = id => (bets[b].counted <=> row.closed /\ b \in before)

\* processRedemption drops a claim it cannot place (logic.ts:313-324): none of an agent that took
\* part in the market before the result, whichever contract, and for a V2
\* market whichever of the agent's accounts, made it.
ClaimsBooked ==
  \A g \in Multisigs, c \in Conditions :
    (/\ questions[c] # None
     /\ \E b \in DOMAIN bets : bets[b].of = <<g, c>> /\ ~ bets[b].late) =>
      Cardinality({i \in DOMAIN claims : claims[i].of = <<g, c>>})
        = Cardinality({i \in DOMAIN claimed : claimed[i] = <<g, c>>})

=============================================================================
