---------------------------- MODULE AgentSnapshots ----------------------------
(***************************************************************************)
(* The daily snapshots of the babydegen-mode subgraph: the scheduler        *)
(* (portfolioScheduler.ts), the refresh that precedes a snapshot            *)
(* (helpers.ts) and the metrics of the population (globalMetrics.ts), over  *)
(* AgentPositions.                                                         *)
(*                                                                         *)
(* The block handler runs after the handlers of the block's logs, in every  *)
(* PollEvery-th block.  Of the nine medians of a day two are modelled, of   *)
(* the profit in percent and of the funding: the realized ones are taken    *)
(* the same way and the others are multiples of these.  A median is kept    *)
(* twice as large, an average as a sum and a count.                         *)
(***************************************************************************)
EXTENDS AgentPositions

CONSTANTS DayLength, PollEvery, SmaDays

\* AgentPortfolioSnapshot by multisig and time, DailyPopulationMetric by day.
NoSnapshotTables == DeployedTables @@ [snapshot |-> <<>>, metric |-> <<>>]

GetDayTimestamp(at) == at \div DayLength
Today == GetDayTimestamp(now)

-----------------------------------------------------------------------------
(* What is refreshed before a snapshot.                                      *)

\* Mutant: the amounts are those that the logs left.
AmountsOfLogs(t, m) == t

\* Each active row by its protocol, as it is when its turn comes.
RefreshPosition(t, id) ==
  LET row == t.position[id]
  IN CASE ~row.active -> t
       [] row.active /\ row.protocol = "v2" -> RefreshVeloV2Position(t, row.owner, FALSE)
       [] row.active /\ row.protocol = "cl" -> RefreshVeloCLPosition(t, row.key, FALSE)
       [] row.active /\ row.protocol = "balancer" -> RefreshBalancerPosition(t, row.owner, row.key, FALSE)
       [] row.active /\ row.protocol = "sturdy" ->
            RefreshSturdyPosition(t, row.owner, row.key, 0, TRUE, FALSE)

ListedRows(t, m) == FlattenSeq([i \in DOMAIN t.service[m].listed |-> SetToSeq(Loaded(t, t.service[m].listed[i]))])

RefreshAllPositionAmounts(t, m) ==
  IF IsService(t, m) THEN FoldLeft(RefreshPosition, t, ListedRows(t, m)) ELSE t

RefreshTokenBalanceUSDValues(t, m) ==
  IF ~IsService(t, m) THEN t
  ELSE [t EXCEPT !.balance = [h \in DOMAIN @ |->
          LET row == t.balance[h]
          IN IF h[1] = m /\ row.amount > 0 THEN [row EXCEPT !.usd = row.amount * GetTokenPriceUSD(h[2])] ELSE row]]

\* The worth of what a row records, which for Sturdy leaves out what the vault earned.
RefreshActivePositionUSDValues(t, m) ==
  IF ~IsService(t, m) THEN t
  ELSE [t EXCEPT !.position = [id \in DOMAIN @ |->
          LET row == t.position[id]
          IN IF Contains(ListedRows(t, m), id) /\ row.active /\ row.amount > 0
             THEN WorthNow(row, row.amount) ELSE row]]

RefreshAllUSDValues(t, m) == RefreshActivePositionUSDValues(RefreshTokenBalanceUSDValues(t, m), m)

ShareOf(initial, final) == IF initial > 0 THEN ((final - initial) * 100) \div initial ELSE 0

CreatePortfolioSnapshot(t, m) ==
  LET p == t.portfolio[m]
  IN [t EXCEPT !.snapshot = Saved(@, <<m, now>>,
                              [initial |-> p.initial, final |-> p.final, positions |-> p.positions,
                               uninvested |-> p.uninvested, withdrawn |-> p.withdrawn,
                               unrealised |-> ShareOf(p.initial, p.final)]),
               !.portfolio[m].snapshot = now]

\* calculatePortfolioMetrics with takeSnapshot.
SnapshotTaken(t, m) ==
  IF ~IsService(t, m) THEN t
  ELSE LET u == RefreshAllUSDValues(RefreshAllPositionAmounts(EnsureAgentPortfolio(t, m), m), m)
       IN CreatePortfolioSnapshot(CalculatePortfolioMetrics(u, m), m)

-----------------------------------------------------------------------------
(* The metrics of the population.                                            *)

SumOfSeq(s) == FoldLeft(LAMBDA sum, n : sum + n, 0, s)

\* Twice the median.
CalculateMedian(values) ==
  LET sorted == SortSeq(values, <)
      n == Len(values)
  IN IF n = 0 THEN 0
     ELSE IF n % 2 = 0 THEN sorted[n \div 2] + sorted[n \div 2 + 1] ELSE 2 * sorted[(n + 1) \div 2]

Calculate7DaysSMA(values) ==
  IF Len(values) > SmaDays THEN [sum |-> 0, of |-> 0] ELSE [sum |-> SumOfSeq(values), of |-> Len(values)]

Pushed(history, value) ==
  LET longer == Append(history, value) IN IF Len(longer) > SmaDays THEN Tail(longer) ELSE longer

ShouldExcludeFromProjectedROI(row) == row.initial < 1 /\ row.final = 0

\* The services whose last snapshot is of today.
GetAllAgentSnapshotsForDay(t) ==
  SelectSeq(t.scheduled, LAMBDA m :
    m \in DOMAIN t.portfolio /\ t.portfolio[m].snapshot > 0 /\ GetDayTimestamp(t.portfolio[m].snapshot) = Today)

Funded(t, ms) == SelectSeq(ms, LAMBDA m : m \in DOMAIN t.funding)
FundsOf(t, ms) == [i \in DOMAIN Funded(t, ms) |-> NetUsd(t, Funded(t, ms)[i])]

CalculateTotalFundedAUM(t) == SumOfSeq(FundsOf(t, t.scheduled))
CalculateMedianAUM(t, ms) == CalculateMedian(FundsOf(t, ms))

CalculateAverageAgentDaysActive(t) ==
  LET ms == Funded(t, t.scheduled)
  IN [sum |-> SumOfSeq([i \in DOMAIN ms |-> now - t.funding[ms[i]].first]), of |-> Len(ms)]

NoHistory == [unrealised |-> <<>>, aum |-> <<>>]
GetPreviousHistory(t) == IF Today - 1 \in DOMAIN t.metric THEN t.metric[Today - 1].history ELSE NoHistory

\* Mutant: a later snapshot of the day writes the metrics again.
DailyPopulationMetricRewritten(t, row) == [t EXCEPT !.metric = Saved(@, Today, row)]

\* The metrics of a day are written once.
UpdateDailyPopulationMetric(t, row) ==
  IF Today \in DOMAIN t.metric THEN t ELSE [t EXCEPT !.metric = Saved(@, Today, row)]

MediansOf(t, ms) ==
  LET rows == [i \in DOMAIN ms |-> t.snapshot[<<ms[i], t.portfolio[ms[i]].snapshot>>]]
      kept == SelectSeq(rows, LAMBDA row : ~ShouldExcludeFromProjectedROI(row))
  IN [unrealised |-> CalculateMedian([i \in DOMAIN kept |-> kept[i].unrealised]),
      aum |-> CalculateMedianAUM(t, ms)]

UpdatedHistory(t, median) == [f \in DOMAIN median |-> Pushed(GetPreviousHistory(t)[f], median[f])]

PopulationRow(t, ms, median, history) ==
  [median |-> median, history |-> history,
   sma |-> [f \in DOMAIN median |-> Calculate7DaysSMA(history[f])],
   total |-> CalculateTotalFundedAUM(t), days |-> CalculateAverageAgentDaysActive(t),
   agents |-> Len(ms), at |-> now]

CalculateGlobalMetrics(t) ==
  LET ms == GetAllAgentSnapshotsForDay(t)
      median == MediansOf(t, ms)
  IN IF ms = <<>> THEN t
     ELSE UpdateDailyPopulationMetric(t, PopulationRow(t, ms, median, UpdatedHistory(t, median)))

-----------------------------------------------------------------------------
(* The scheduler.                                                            *)

IsSnapshotDue(t, m) ==
  /\ m \in DOMAIN t.portfolio
  /\ t.portfolio[m].snapshot = 0 \/ Today > GetDayTimestamp(t.portfolio[m].snapshot)

CheckServicesForSnapshot(t) ==
  LET due == SelectSeq(t.scheduled, LAMBDA m : IsSnapshotDue(t, m))
      taken == FoldLeft(SnapshotTaken, t, due)
  IN IF due = <<>> THEN t ELSE CalculateGlobalMetrics(taken)

HandleBlock(t) == IF now % PollEvery = 0 THEN CheckServicesForSnapshot(t) ELSE t

IndexBlock ==
  /\ now < MaxTime
  /\ tables' = HandleBlock(BlockIndexed(HandlePositions, tables)) /\ untold' = StillUntold
  /\ logs' = <<>> /\ now' = now + 1 /\ price' \in Prices
  /\ UNCHANGED <<code, held, truth, holdingVars>>

SnapshotInit ==
  /\ now = 1 /\ price \in Prices /\ code = Multisigs
  /\ held = [h \in Multisigs \X (Tokens \cup {"ETH"}) |-> 0]
  /\ truth = [NoTruth EXCEPT !.operatorOf = [m \in Multisigs |-> "operator"]]
  /\ logs = <<>> /\ tables = NoSnapshotTables
  /\ lp = [m \in Multisigs |-> 0] /\ bpt = lp /\ shares = lp /\ txs = 0 /\ untold = {}
  /\ nft = [n \in Nfts |-> [owner |-> None, liquidity |-> 0]]

SnapshotOps ==
  \/ PositionOps
  \/ /\ \E move \in Moves, token \in Tokens, n \in Amounts : MoveToken(move[1], move[2], token, n)
     /\ UNCHANGED venueVars

SnapshotNext == SnapshotOps \/ IndexBlock

SnapshotSpec == SnapshotInit /\ [][SnapshotNext]_positionVars

-----------------------------------------------------------------------------

SnapshotsOf(day) == {k \in DOMAIN tables.snapshot : GetDayTimestamp(k[2]) = day}
FirstOf(day) == {k \in SnapshotsOf(day) : \A other \in SnapshotsOf(day) : k[2] <= other[2]}

\* The days before one, back to one that is not recorded, SmaDays at most.
Window(day) == {d \in (day - SmaDays + 1) .. day : d .. day \subseteq DOMAIN tables.metric}

\* checkServicesForSnapshot and calculateGlobalMetrics (portfolioScheduler.ts:69-166,
\* globalMetrics.ts:91-331, 552-713): a service has one snapshot a day, a day has its
\* metrics if it has a snapshot, from those of its first poll with one, and its history
\* is what the metrics of the last days without a gap say.
DaysRecorded ==
  /\ \A k, other \in DOMAIN tables.snapshot :
       k[1] = other[1] /\ GetDayTimestamp(k[2]) = GetDayTimestamp(other[2]) => k = other
  /\ DOMAIN tables.metric = {GetDayTimestamp(k[2]) : k \in DOMAIN tables.snapshot}
  /\ \A day \in DOMAIN tables.metric :
       LET metric == tables.metric[day]
           rows == {tables.snapshot[k] : k \in FirstOf(day)}
           first == Min(Window(day))
       IN /\ metric.agents = Cardinality(FirstOf(day)) /\ \A k \in FirstOf(day) : k[2] = metric.at
          /\ \A f \in {"unrealised", "aum"} :
               /\ metric.history[f] = [i \in 1 .. Cardinality(Window(day)) |-> tables.metric[first + i - 1].median[f]]
               /\ metric.sma[f].of = Cardinality(Window(day))
          /\ metric.median.aum \in 2 * Min({row.initial : row \in rows} \cup {0})
                                     .. 2 * Max({row.initial : row \in rows} \cup {0})

\* What a position of m is of, by the chain: all of its pool tokens or of the NFT's
\* liquidity.  A Sturdy row has the shares of its service or, when shares moved outside
\* of the vault or the list was emptied, what was put in less what was taken out, while
\* that is more than nothing.
OfItsOwn(m, row) == row.amount > 0 /\ {<<"shares", m>>, <<"list", m>>} \cap untold' # {}
HeldIn(m, row) ==
  CASE row.protocol = "v2" -> lp[m]
    [] row.protocol = "cl" -> nft[row.key].liquidity
    [] row.protocol = "balancer" -> bpt[m]
    [] row.protocol = "sturdy" -> IF OfItsOwn(m, row) THEN row.amount ELSE shares[m]

ActiveRows(m) == {id \in ToSet(ListedRows(tables', m)) : tables'.position[id].active}
Counted(m, protocol) == {id \in ActiveRows(m) : tables'.position[id].protocol = protocol}
Ended(id) == id \in DOMAIN tables'.position /\ ~tables'.position[id].active

\* No holding is without an active row in the list: as long as the list has not been
\* emptied, but for a closed or returned NFT and for tokens that no venue has told of.
AllCounted(m) ==
  <<"list", m>> \notin untold' =>
    /\ lp[m] > 0 => Counted(m, "v2") # {}
    /\ \A n \in Nfts : nft[n].owner = m /\ nft[n].liquidity > 0 =>
         GetVeloCLPositionId(m, n) \in Counted(m, "cl") \/ Ended(GetVeloCLPositionId(m, n))
    /\ bpt[m] > 0 /\ <<"bpt", m>> \notin untold' => Counted(m, "balancer") # {}
    /\ shares[m] > 0 /\ <<"shares", m>> \notin untold' => Counted(m, "sturdy") # {}

\* calculatePortfolioMetrics with takeSnapshot, refreshAllPositionAmounts, refreshAllUSDValues
\* (helpers.ts:94-339, 541-716): in a snapshot every active position that the service lists
\* is worth what the multisig holds of it in that block, at its price, however long ago
\* a log last told of it; so are its tokens; nothing it holds is missing, but what a
\* deployment with the same multisig took off the list (serviceRegistry.ts:117) and what
\* AllCounted excepts.  Each Balancer row has the whole balance of pool tokens.
SnapshotIsWorth ==
  \A k \in DOMAIN tables'.snapshot \ DOMAIN tables.snapshot :
    LET row == tables'.snapshot[k]
        m == k[1]
        positions == FoldSet(LAMBDA id, sum : sum + HeldIn(m, tables'.position[id]) * price, 0, ActiveRows(m))
        uninvested == FoldSet(LAMBDA token, sum : sum + held[<<m, token>>] * GetTokenPriceUSD(token),
                              0, Tokens \cap WhitelistedTokens)
    IN /\ k[2] = now /\ AllCounted(m)
       /\ row.positions = positions /\ row.uninvested = uninvested
       /\ row.final = positions + uninvested + truth.withdrawn[m]
       /\ row.initial = truth.in[m]
=============================================================================
