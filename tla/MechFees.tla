------------------------------- MODULE MechFees -------------------------------
(***************************************************************************)
(* The mech-fees squid (squids/mech-fees/src): the fees mechs earn, collect *)
(* and the protocol drains, of the balance trackers of one chain, in raw    *)
(* units and in USD at the block of the event.                              *)
(*                                                                         *)
(* A price is what the shared sources return (the reads are in              *)
(* PoolReserves): a number, or nothing where the chain could not answer.    *)
(***************************************************************************)
EXTENDS Integers, Sequences, FiniteSets, Sums

CONSTANTS FeeMechs,       \* the mechs
          BurnAddress,
          FeeChains,      \* configurations: [feed, olas, nvm, trackers]
          FeeAmounts,     \* amounts of an event, in raw units of the token
          FeePrices,      \* prices of the native token and of OLAS
          NvmRatio,       \* credits of a token unit
          MaxFeeEvents, FeeDays,   \* bounds
          NoneF

Models == {"native", "nvm", "token-olas", "token-usdc"}

ASSUME MechFeesAssumption ==
  /\ FeeChains \subseteq [feed : BOOLEAN, olas : {"none", "stable", "native"},
                          nvm : {NoneF, "native", "usdc"}, trackers : SUBSET Models]
  /\ FeeAmounts \subseteq Nat /\ FeePrices \subseteq Nat /\ NvmRatio \in Nat \ {0}
  /\ MaxFeeEvents \in Nat /\ FeeDays \in Nat \ {0} /\ NoneF \notin Nat

VARIABLES
  feeChain,                 \* the chain of this deployment
  owed,                     \* on chain: what a tracker owes a mech
  collected,                \* on chain: what a tracker has for the drainer
  feeDay, feeEvents,        \* the day and the number of events
  feeGlobal,                \* Global
  mechTotals,               \* Mech
  mechModel,                \* MechModel, by <<mech, model>>
  dailyTotals,              \* DailyTotals, by day
  mechDaily,                \* MechDaily, by <<mech, day>>
  drainTotals,              \* DrainTotals
  transactions,             \* sums of MechTransaction, by <<mech, model, type>>
  dropped                   \* for the properties: raw amounts of events that were skipped

feeTables == <<feeGlobal, mechTotals, mechModel, dailyTotals, mechDaily, drainTotals, transactions>>
feeVars == <<feeChain, owed, collected, feeDay, feeEvents, feeTables, dropped>>

Types == {"FEE_IN", "FEE_OUT"}

\* The columns of the tables, all numbers, and a row with nothing in it yet.
SumFields    == {"inUsd", "outUsd", "inRaw", "outRaw"}
DayFields    == {"inUsd", "outUsd"}
AmountFields == {"usd", "raw"}
GlobalFields == DayFields \cup {"drainedUsd", "burnedRaw", "burnedUsd"}
Empty(fields) == [f \in fields |-> 0]

FeeInit ==
  /\ feeChain \in FeeChains
  /\ owed = [x \in FeeMechs \X Models |-> 0] /\ collected = [k \in Models |-> 0]
  /\ feeDay = 1 /\ feeEvents = 0
  /\ feeGlobal = Empty(GlobalFields) /\ mechTotals = <<>> /\ mechModel = <<>> /\ dailyTotals = <<>>
  /\ mechDaily = <<>> /\ drainTotals = <<>> /\ transactions = <<>>
  /\ dropped = [x \in FeeMechs \X Models |-> 0]

\* A table whose ids are some of a set.
Table(table, ids, fields) ==
  DOMAIN table \subseteq ids /\ table \in [DOMAIN table -> [fields -> Nat]]

FeeTypeOK ==
  /\ feeChain \in FeeChains /\ feeDay \in 1 .. FeeDays /\ feeEvents \in 0 .. MaxFeeEvents
  /\ owed \in [FeeMechs \X Models -> Nat] /\ collected \in [Models -> Nat]
  /\ dropped \in [FeeMechs \X Models -> Int]
  /\ feeGlobal \in [GlobalFields -> Nat]
  /\ Table(mechTotals, FeeMechs, SumFields) /\ Table(mechModel, FeeMechs \X Models, SumFields)
  /\ Table(dailyTotals, 1 .. FeeDays, DayFields)
  /\ Table(mechDaily, FeeMechs \X (1 .. FeeDays), SumFields)
  /\ Table(drainTotals, Models, AmountFields)
  /\ Table(transactions, FeeMechs \X Models \X Types, AmountFields)

-----------------------------------------------------------------------------
(* Rows.                                                                     *)

\* A row gets amounts, created empty if need be.
AddTo(table, id, amounts, fields) ==
  LET old == IF id \in DOMAIN table THEN table[id] ELSE Empty(fields) IN
  [i \in DOMAIN table \cup {id} |->
     IF i = id THEN [f \in fields |-> old[f] + amounts[f]] ELSE table[i]]

\* The amounts of an event by its type.
FeeParts(type, usd, raw) ==
  [inUsd  |-> IF type = "FEE_IN" THEN usd ELSE 0, inRaw  |-> IF type = "FEE_IN" THEN raw ELSE 0,
   outUsd |-> IF type = "FEE_IN" THEN 0 ELSE usd, outRaw |-> IF type = "FEE_IN" THEN 0 ELSE raw]

MechDailyAdds(usd, raw) == usd > 0 \/ raw > 0

\* recordFeeIn, recordFeeOut: the same rows in the same order.
Record(type, model, mech, raw, usd) ==
  LET sums == FeeParts(type, usd, raw) IN
  /\ feeGlobal' = [feeGlobal EXCEPT !.inUsd = @ + sums.inUsd, !.outUsd = @ + sums.outUsd]
  /\ mechTotals' = AddTo(mechTotals, mech, sums, SumFields)
  /\ mechModel' = AddTo(mechModel, <<mech, model>>, sums, SumFields)
  /\ dailyTotals' = IF usd > 0 THEN AddTo(dailyTotals, feeDay', sums, DayFields) ELSE dailyTotals
  /\ mechDaily' = IF MechDailyAdds(usd, raw) THEN AddTo(mechDaily, <<mech, feeDay'>>, sums, SumFields)
                  ELSE mechDaily
  /\ transactions' = AddTo(transactions, <<mech, model, type>>, [usd |-> usd, raw |-> raw],
                           AmountFields)

-----------------------------------------------------------------------------
(* pricing.ts: the set of what an amount can come to, NoneF for no price, in *)
(* the worth of a credit: NvmRatio of them are a dollar.                     *)

\* nativeToUsd: one to one where there is no feed.
NativeToUsd(amount) ==
  IF feeChain.feed THEN {NoneF} \cup {amount * NvmRatio * p : p \in FeePrices} ELSE {amount * NvmRatio}

\* olasToUsd: nothing without a pool or an answer of it; the quote token may be the
\* native one, whose price may be missing too.
OlasToUsd(amount) ==
  CASE feeChain.olas = "none" -> {0}
    [] feeChain.olas = "stable" -> {0} \cup {amount * NvmRatio * p : p \in FeePrices}
    [] feeChain.olas = "native" -> {0} \cup {amount * NvmRatio * p : p \in FeePrices}
                                   \cup (IF feeChain.feed THEN {} ELSE {NoneF})

\* usdcToUsd
UsdcToUsd(amount) == amount * NvmRatio

\* nvmCreditsToUsd and nvmTokenToCredits
NvmCreditsToUsd(credits) == IF feeChain.nvm = NoneF THEN {NoneF} ELSE {credits}
NvmTokenToCredits(amount) == amount * NvmRatio

OrZero(usds) == {IF u = NoneF THEN 0 ELSE u : u \in usds}

\* priceFeeIn: NoneF skips the event.  A chain with an nvm tracker has its ratio, or the
\* handler throws and the batch with it.
PriceFeeIn(model, amount) ==
  CASE model = "native" -> NativeToUsd(amount)
    [] model = "token-usdc" -> IF amount = 0 THEN {NoneF} ELSE {UsdcToUsd(amount)}
    [] model = "nvm" -> NvmCreditsToUsd(amount) \ {NoneF}
    [] model = "token-olas" -> OrZero(OlasToUsd(amount))

-----------------------------------------------------------------------------
(* The logs of the trackers.                                                 *)

FeeLog(d) ==
  /\ feeEvents < MaxFeeEvents /\ feeEvents' = feeEvents + 1
  /\ d \in feeDay .. FeeDays /\ feeDay' = d

HandleMechBalanceAdjusted ==
  \E m \in FeeMechs, k \in feeChain.trackers, amount \in FeeAmounts, d \in 1 .. FeeDays :
    \E usd \in PriceFeeIn(k, amount) :
      /\ FeeLog(d)
      /\ owed' = [owed EXCEPT ![<<m, k>>] = @ + amount]
      /\ collected' = [collected EXCEPT ![k] = @ + 1]
      /\ IF usd = NoneF
         THEN /\ dropped' = [dropped EXCEPT ![<<m, k>>] = @ - amount]
              /\ UNCHANGED <<feeGlobal, mechTotals, mechModel, dailyTotals, mechDaily, transactions>>
         ELSE /\ Record("FEE_IN", k, m, amount, usd)
              /\ UNCHANGED dropped
      /\ UNCHANGED <<feeChain, drainTotals>>

\* Mutant: what an nvm tracker paid is taken for credits.
RawCollectedTokens(model, amount) == amount

\* The raw amount of a withdrawal: tokens, or the credits they stand for.
RawCollected(model, amount) == IF model = "nvm" THEN NvmTokenToCredits(amount) ELSE amount

\* What a withdrawal is worth; an nvm tracker pays in the native token or in USDC.
PriceFeeOut(model, amount) ==
  IF model = "nvm"
  THEN IF feeChain.nvm = "native" THEN NativeToUsd(amount) ELSE {UsdcToUsd(amount)}
  ELSE PriceFeeIn(model, amount)

\* A mech collects what it is owed, nvm credits in whole tokens.
HandleWithdraw ==
  \E m \in FeeMechs, k \in feeChain.trackers, d \in 1 .. FeeDays :
    LET amount == IF k = "nvm" THEN owed[<<m, k>>] \div NvmRatio ELSE owed[<<m, k>>]
        raw == RawCollected(k, amount)
    IN
    /\ amount > 0
    /\ \E usd \in PriceFeeOut(k, amount) :
         /\ FeeLog(d)
         /\ owed' = [owed EXCEPT ![<<m, k>>] = IF k = "nvm" THEN @ - amount * NvmRatio ELSE 0]
         /\ IF usd = NoneF
            THEN /\ dropped' = [dropped EXCEPT ![<<m, k>>] = @ + raw]
                 /\ UNCHANGED <<feeGlobal, mechTotals, mechModel, dailyTotals, mechDaily, transactions>>
            ELSE /\ Record("FEE_OUT", k, m, raw, usd)
                 /\ UNCHANGED dropped
         /\ UNCHANGED <<feeChain, collected, drainTotals>>

\* The OLAS tracker burns what it drains: a withdrawal to the burn address is not of a mech.
HandleBurnWithdraw ==
  \E d \in 1 .. FeeDays :
    /\ BurnAddress # NoneF /\ "token-olas" \in feeChain.trackers /\ collected["token-olas"] > 0
    /\ FeeLog(d)
    /\ UNCHANGED <<feeChain, owed, collected, feeTables, dropped>>

Burned(model, amount) == IF model = "token-olas" THEN amount ELSE 0

HandleDrained ==
  \E k \in feeChain.trackers, d \in 1 .. FeeDays :
    LET amount == collected[k]
        usds == CASE k = "native" -> OrZero(NativeToUsd(amount))
                  [] k = "token-usdc" -> {UsdcToUsd(amount)}
                  [] k = "nvm" -> OrZero(NvmCreditsToUsd(amount))
                  [] k = "token-olas" -> OrZero(OlasToUsd(amount))
    IN
    /\ amount > 0 /\ FeeLog(d)
    /\ \E usd \in usds :
         /\ drainTotals' = AddTo(drainTotals, k, [raw |-> amount, usd |-> usd], AmountFields)
         /\ feeGlobal' = [feeGlobal EXCEPT !.drainedUsd = @ + usd,
                                           !.burnedRaw = @ + Burned(k, amount),
                                           !.burnedUsd = @ + Burned(k, usd)]
    /\ collected' = [collected EXCEPT ![k] = 0]
    /\ UNCHANGED <<feeChain, owed, mechTotals, mechModel, dailyTotals, mechDaily, transactions, dropped>>

FeeNext == HandleMechBalanceAdjusted \/ HandleWithdraw \/ HandleBurnWithdraw \/ HandleDrained
FeeSpec == FeeInit /\ [][FeeNext]_feeVars

-----------------------------------------------------------------------------
(* Properties. *)

\* A row, or an empty one where there is none; a column; the ids of a mech's rows.
Row(table, id, fields) == IF id \in DOMAIN table THEN table[id] ELSE Empty(fields)
Column(table, f) == [x \in DOMAIN table |-> table[x][f]]
OfMech(table, m) == {x \in DOMAIN table : x[1] = m}

\* What a mech earned and collected is the sum over its models, and over its days.
MechSums ==
  \A m \in FeeMechs, f \in SumFields :
    /\ Row(mechTotals, m, SumFields)[f] = Total(Column(mechModel, f), OfMech(mechModel, m))
    /\ Row(mechTotals, m, SumFields)[f] = Total(Column(mechDaily, f), OfMech(mechDaily, m))

\* The globals are the sums over the mechs, and over the days.
GlobalSums ==
  \A f \in DayFields :
    /\ feeGlobal[f] = Total(Column(mechTotals, f), DOMAIN mechTotals)
    /\ feeGlobal[f] = Total(Column(dailyTotals, f), DOMAIN dailyTotals)

\* What the protocol drained is the sum over the models, and what it burned the OLAS of it.
DrainSums ==
  LET olas == Row(drainTotals, "token-olas", AmountFields) IN
  /\ feeGlobal.drainedUsd = Total(Column(drainTotals, "usd"), DOMAIN drainTotals)
  /\ feeGlobal.burnedUsd = olas.usd /\ feeGlobal.burnedRaw = olas.raw

\* What a mech earned and did not collect, by the tables, is what the tracker owes it, but
\* for the events that were skipped for want of a price; credits and tokens do not mix.
OwedIsEarnedNotCollected ==
  \A m \in FeeMechs, k \in Models :
    LET row == Row(mechModel, <<m, k>>, SumFields) IN
    row.inRaw - row.outRaw = owed[<<m, k>>] + dropped[<<m, k>>]

\* recordFeeIn, recordFeeOut and handleDrained (mech-fees/src/handlers.ts:101-216, 299-351):
\* one event goes into five tables, some of them only when it is worth something; for each
\* mech they add up to the same, in raw units and in USD, the globals are the sums, and
\* (priceFeeIn and handleWithdraw, 226-296) the difference is what the tracker owes.
FeesAgree == FeeTypeOK /\ MechSums /\ GlobalSums /\ DrainSums /\ OwedIsEarnedNotCollected
=============================================================================
