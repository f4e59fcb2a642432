---------------------------- MODULE StakingRewards ----------------------------
(***************************************************************************)
(* The staking squid (squids/staking/src/handlers.ts, dispatch.ts) and the *)
(* staking subgraph it was ported from (subgraphs/staking/src), reading the *)
(* logs of the same staking contracts: what is staked, the rewards of each *)
(* service by epoch and the daily totals.                                   *)
(*                                                                         *)
(* A log and its handlers are one action; the guard is what the contracts   *)
(* guarantee.  Batches and forks are in EntityCache.                        *)
(***************************************************************************)
EXTENDS Integers, Sequences, FiniteSets, SequencesExt, Sums

CONSTANTS Stakers,       \* the services
          Deployments,   \* sets of contracts, as staking contract :> [olas, indexed, deposit]
          Reward,        \* what a checkpoint grants
          MaxEpoch, MaxStakes, StakingDays,  \* bounds
          None

\* The rows of a service.
ServiceRow(proxies) ==
  [staked : Int, stake : Nat, olas : BOOLEAN, earned : Nat, claimed : Nat, epochs : Nat,
   latest : proxies \cup {None}]
SubgraphRow == [staked : Int, earned : Nat]

ASSUME StakingAssumption ==
  /\ \A deployed \in Deployments : \A p \in DOMAIN deployed :
       /\ deployed[p].olas \in BOOLEAN /\ deployed[p].indexed \in BOOLEAN
       /\ deployed[p].deposit \in Nat
       /\ p # None /\ None \notin ServiceRow(DOMAIN deployed)
  /\ {Reward, MaxEpoch, MaxStakes, StakingDays} \subseteq Nat \ {0}
  /\ IsFiniteSet(Stakers) /\ None \notin SubgraphRow /\ \A S \in SUBSET Stakers : S # None

Epochs == 1 .. MaxEpoch
StakeDays == 1 .. StakingDays

VARIABLES
  \* The contracts (a row of StakingContract each, which never changes): those that
  \* exist, where each service is staked, its reward there, the epoch of each, the day,
  \* and how often services were staked.
  Contracts, created, stakedIn, pending, epoch, stakeDay, stakes,
  \* Tables of the squid: StakingContract (those it knows), Service,
  \* ActiveServiceEpoch, ServiceRewardsHistory, Global, the daily snapshots and the
  \* sums of RewardUpdate.
  known, service, active, history, total, snapshot, updates,
  \* Tables of the subgraph.
  sgService, sgTotal, sgSnapshot,
  \* For the properties: what each stake was taken for, rewards lost by a forced
  \* unstake, since when a service is in a contract's timeline and whether it
  \* staked elsewhere since, the services and the median at the last checkpoint.
  taken, forfeited, since, left, counted

chainVars == <<Contracts, created, stakedIn, pending, epoch, stakeDay, stakes>>
squidVars == <<known, service, active, history, total, snapshot, updates>>
subgraphVars == <<sgService, sgTotal, sgSnapshot>>
ghostVars == <<taken, forfeited, since, left, counted>>
stakingVars == <<chainVars, squidVars, subgraphVars, ghostVars>>

Proxies == DOMAIN Contracts

NewService == [staked |-> 0, stake |-> 0, olas |-> FALSE, earned |-> 0, claimed |-> 0, epochs |-> 0,
               latest |-> None]
NoTotal == [in |-> 0, out |-> 0, current |-> 0, rewards |-> 0, claimed |-> 0, lastDay |-> 0]
NoCount == [services |-> 0, median |-> 0]

StakingTypeOK ==
  /\ service \in [Stakers -> {None} \cup ServiceRow(Proxies)]
  /\ active \in [Proxies -> [Epochs \cup {MaxEpoch + 1} -> {None} \cup SUBSET Stakers]]
  /\ DOMAIN history \subseteq Stakers \X Proxies \X (Epochs \cup {MaxEpoch + 1})
  /\ total \in [in : Nat, out : Nat, current : Nat, rewards : Nat, claimed : Nat,
                lastDay : {0} \cup StakeDays]
  /\ DOMAIN snapshot \subseteq StakeDays
  /\ sgTotal \in [in : Nat, out : Nat, current : Nat, rewards : Nat, lastDay : {0} \cup StakeDays]

StakingInit ==
  /\ Contracts \in Deployments
  /\ created = {} /\ stakedIn = [s \in Stakers |-> None] /\ pending = [s \in Stakers |-> 0]
  /\ epoch = [p \in Proxies |-> 1] /\ stakeDay = 1 /\ stakes = 0
  /\ known = {} /\ service = [s \in Stakers |-> None]
  /\ active = [p \in Proxies |-> [e \in Epochs \cup {MaxEpoch + 1} |-> None]]
  /\ history = <<>> /\ total = NoTotal /\ snapshot = <<>>
  /\ updates = [claimable |-> 0, claimed |-> 0]
  /\ sgService = [s \in Stakers |-> None] /\ sgSnapshot = <<>>
  /\ sgTotal = [in |-> 0, out |-> 0, current |-> 0, rewards |-> 0, lastDay |-> 0]
  /\ taken = [s \in Stakers |-> 0] /\ forfeited = [s \in Stakers |-> 0]
  /\ since = [s \in Stakers |-> [p \in Proxies |-> 0]]
  /\ left = [s \in Stakers |-> [p \in Proxies |-> FALSE]]
  /\ counted = NoCount

Put(table, id, row) == [i \in DOMAIN table \cup {id} |-> IF i = id THEN row ELSE table[i]]

\* A log is of the same day as the last or of a later one.
AtDay(d) == d \in stakeDay .. StakingDays /\ stakeDay' = d

-----------------------------------------------------------------------------
(* The squid.                                                                *)

\* median
Median(values) ==
  LET sorted == SortSeq(values, LAMBDA a, b : a < b)
      n == Len(values)
  IN
  IF n = 0 THEN 0
  ELSE IF n % 2 = 1 THEN sorted[n \div 2 + 1] ELSE (sorted[n \div 2] + sorted[n \div 2 + 1]) \div 2

\* getOrCreateServiceRewardsHistory: a new row is an epoch the service took part in.
HistoryRow(id) ==
  IF id \in DOMAIN history THEN history[id] ELSE [reward |-> 0, checkpointed |-> FALSE]
Participated(ids, rows) ==
  [s \in Stakers |-> IF rows[s] = None THEN None
     ELSE [rows[s] EXCEPT !.epochs = @ + Cardinality({id \in ids \ DOMAIN history : id[1] = s})]]

\* getOrCreateDailySnapshot: a new day starts with the counts of the last one that
\* had a checkpoint.
FilledFrom(d) ==
  IF total.lastDay = 0 THEN NoCount
  ELSE [services |-> snapshot[total.lastDay].services, median |-> snapshot[total.lastDay].median]

Snapshot(d, sums) ==
  LET counts == IF d \in DOMAIN snapshot
                THEN [services |-> snapshot[d].services, median |-> snapshot[d].median]
                ELSE FilledFrom(d)
  IN [rewards |-> sums.rewards, claimed |-> sums.claimed,
      services |-> counts.services, median |-> counts.median]

\* recordRewardsClaimed, after the totals of the unstake it comes with.
Claimed(sums, amount, d) ==
  LET new == [sums EXCEPT !.claimed = @ + amount] IN
  /\ total' = new
  \* A snapshot that exists keeps the rewards it had.
  /\ snapshot' = Put(snapshot, d,
       IF d \in DOMAIN snapshot THEN [snapshot[d] EXCEPT !.claimed = new.claimed]
       ELSE Snapshot(d, new))
  /\ updates' = [updates EXCEPT !.claimed = @ + amount]

\* dispatch: the logs of other emitters, and of contracts whose events differ, are
\* skipped.
Ours(p) == p \in known /\ Contracts[p].indexed

Skip == UNCHANGED squidVars

\* handleServiceStaked; the amount is what lockedOlas read.
SquidStaked(s, p, amount) ==
  LET old == IF service[s] = None THEN NewService ELSE service[s]
      id == <<s, p, epoch[p]>>
      row == [old EXCEPT !.staked = @ + amount, !.stake = amount, !.latest = p,
                         !.olas = @ \/ Contracts[p].olas]
  IN
  /\ service' = Participated({id}, [service EXCEPT ![s] = row])
  /\ active' = [active EXCEPT ![p][epoch[p]] = (IF @ = None THEN {} ELSE @) \cup {s}]
  /\ history' = Put(history, id, HistoryRow(id))
  /\ total' = [total EXCEPT !.in = @ + amount, !.current = @ + amount]
  /\ UNCHANGED <<known, snapshot, updates>>

\* Mutant: a service that unstaked is left out.
TimelineStaked(p, e, rewarded) == {s \in active[p][e] \ rewarded : service[s].latest = p}

\* The services without a reward whose timeline goes on: those that did not stake in
\* another contract.
Timeline(p, e, rewarded) == {s \in active[p][e] \ rewarded : service[s].latest \in {None, p}}

\* The tracker of the next epoch takes over every service.
Carried(p, e, rewarded) == active[p][e]

\* Mutant: only the services staked now count.
CountedStaked(rows) == {s \in Stakers : rows[s] # None /\ rows[s].staked > 0}

\* The services of a snapshot: those that ever staked for OLAS.
Counted(rows) == {s \in Stakers : rows[s] # None /\ rows[s].olas}

SquidCheckpoint(p, rewarded, d) ==
  LET e == epoch[p]
      idle == IF active[p][e] = None THEN {} ELSE Timeline(p, e, rewarded)
      ids == {<<s, p, e>> : s \in rewarded \cup idle}
      amount == Reward * Cardinality(rewarded)
      new == [total EXCEPT !.rewards = @ + amount, !.lastDay = d]
      rows == [s \in Stakers |-> IF s \in rewarded /\ Contracts[p].olas
                                 THEN [service[s] EXCEPT !.earned = @ + Reward] ELSE service[s]]
      ofOlas == SetToSeq(Counted(rows))
  IN
  /\ service' = Participated(ids, rows)
  /\ history' = [id \in DOMAIN history \cup ids |->
       IF id \notin ids THEN history[id]
       ELSE [reward |-> IF id[1] \in rewarded THEN Reward ELSE 0, checkpointed |-> TRUE]]
  /\ active' = IF active[p][e] = None THEN active
               ELSE [active EXCEPT ![p][e + 1] =
                       (IF @ = None THEN {} ELSE @) \cup Carried(p, e, rewarded)]
  /\ IF ~ Contracts[p].olas THEN UNCHANGED <<total, snapshot, updates>>
     ELSE /\ total' = new
          /\ snapshot' = Put(snapshot, d,
               [rewards |-> new.rewards, claimed |-> new.claimed, services |-> Len(ofOlas),
                median |-> Median([i \in DOMAIN ofOlas |-> rows[ofOlas[i]].earned])])
          /\ updates' = [updates EXCEPT !.claimable = @ + amount]
  /\ UNCHANGED known

\* handleRewardClaimed
SquidClaimed(s, p, amount, d) ==
  IF ~ Contracts[p].olas THEN Skip
  ELSE /\ service' = [service EXCEPT ![s].claimed = @ + amount]
       /\ Claimed(total, amount, d)
       /\ UNCHANGED <<known, active, history>>

Paid(p, forced) == Contracts[p].olas /\ ~ forced

\* What an unstake returns: what the stake locked, remembered by the row.
Returned(s, p) == service[s].stake

\* handleServiceUnstaked
SquidUnstaked(s, p, forced, amount, d) ==
  LET id == <<s, p, epoch[p]>>
      stake == Returned(s, p)
      paid == IF Paid(p, forced) THEN amount ELSE 0
      sums == [total EXCEPT !.out = @ + stake, !.current = @ - stake]
  IN
  /\ service' = Participated({id}, [service EXCEPT
       ![s].latest = None, ![s].claimed = @ + paid, ![s].staked = @ - stake, ![s].stake = 0])
  /\ history' = Put(history, id, [HistoryRow(id) EXCEPT !.reward = amount])
  /\ IF Paid(p, forced) THEN Claimed(sums, amount, d)
     ELSE total' = sums /\ UNCHANGED <<snapshot, updates>>
  /\ UNCHANGED <<known, active>>

-----------------------------------------------------------------------------
(* The subgraph: every contract counts, at the deposit it asks for.          *)

SubgraphStaked(s, p) ==
  LET amount == Contracts[p].deposit
      old == IF sgService[s] = None THEN [staked |-> 0, earned |-> 0] ELSE sgService[s]
  IN
  /\ sgService' = [sgService EXCEPT ![s] = [old EXCEPT !.staked = @ + amount]]
  /\ sgTotal' = [sgTotal EXCEPT !.in = @ + amount, !.current = @ + amount]
  /\ UNCHANGED sgSnapshot

SubgraphUnstaked(s, p) ==
  LET amount == Contracts[p].deposit IN
  /\ sgService' = IF sgService[s] = None THEN sgService
                  ELSE [sgService EXCEPT ![s].staked = @ - amount]
  /\ sgTotal' = [sgTotal EXCEPT !.out = @ + amount, !.current = @ - amount]
  /\ UNCHANGED sgSnapshot

\* handleCheckpoint and upsertCumulativeDailyStakingGlobal.
SubgraphCheckpoint(rewarded, d) ==
  LET rows == [s \in Stakers |-> IF s \in rewarded /\ sgService[s] # None
                                 THEN [sgService[s] EXCEPT !.earned = @ + Reward] ELSE sgService[s]]
      all == SetToSeq({s \in Stakers : rows[s] # None})
      rewards == sgTotal.rewards + Reward * Cardinality(rewarded)
  IN
  /\ sgService' = rows
  /\ sgTotal' = [sgTotal EXCEPT !.rewards = rewards, !.lastDay = d]
  /\ sgSnapshot' = Put(sgSnapshot, d,
       [rewards |-> rewards, services |-> Len(all),
        median |-> Median([i \in DOMAIN all |-> rows[all[i]].earned])])

-----------------------------------------------------------------------------
(* The logs.                                                                 *)

HandleInstanceCreated ==
  \E p \in Proxies \ created :
    /\ created' = created \cup {p} /\ known' = known \cup {p}
    /\ UNCHANGED <<Contracts, stakedIn, pending, epoch, stakeDay, stakes, service, active, history, total,
                   snapshot, updates, subgraphVars, ghostVars>>

\* A service locks the deposit of the contract or more; the amount is the deposit, too,
\* when the tables of the registries cannot be read.
Locked(p, more) == IF Contracts[p].olas THEN Contracts[p].deposit + more ELSE 0

ServiceStaked(s, p, amount, d) ==
  /\ AtDay(d) /\ stakedIn[s] = None
  /\ stakedIn' = [stakedIn EXCEPT ![s] = p]
  /\ IF Ours(p) THEN SquidStaked(s, p, amount) ELSE Skip
  /\ SubgraphStaked(s, p)
  /\ taken' = [taken EXCEPT ![s] = IF Ours(p) THEN amount ELSE 0]
  /\ since' = [since EXCEPT ![s][p] = IF @ = 0 \/ left[s][p] THEN epoch[p] ELSE @]
  /\ left' = [left EXCEPT ![s] = [q \in Proxies |-> IF q = p THEN FALSE
                                                    ELSE left[s][q] \/ Ours(p)]]
  /\ UNCHANGED <<Contracts, created, pending, epoch, forfeited, counted>>

HandleServiceStaked ==
  /\ stakes < MaxStakes /\ stakes' = stakes + 1
  /\ \E s \in Stakers, p \in created, more \in {0, 1}, d \in StakeDays :
       (more = 0 \/ Contracts[p].olas) /\ ServiceStaked(s, p, Locked(p, more), d)

EpochEnded(p, rewarded, d) ==
  /\ AtDay(d) /\ epoch[p] <= MaxEpoch
  /\ epoch' = [epoch EXCEPT ![p] = @ + 1]
  /\ pending' = [s \in Stakers |-> IF s \in rewarded THEN pending[s] + Reward ELSE pending[s]]
  /\ IF Ours(p) THEN SquidCheckpoint(p, rewarded, d) ELSE Skip
  /\ SubgraphCheckpoint(rewarded, d)
  /\ counted' = IF Ours(p) /\ Contracts[p].olas
                THEN [services |-> snapshot'[d].services, median |-> snapshot'[d].median]
                ELSE counted
  /\ UNCHANGED <<Contracts, created, stakedIn, stakes, taken, forfeited, since, left>>

HandleCheckpoint ==
  \E p \in created, d \in StakeDays : \E rewarded \in SUBSET {s \in Stakers : stakedIn[s] = p} :
    EpochEnded(p, rewarded, d)

RewardClaimed(s, p, d) ==
  /\ AtDay(d) /\ stakedIn[s] = p /\ pending[s] > 0
  /\ pending' = [pending EXCEPT ![s] = 0]
  /\ IF Ours(p) THEN SquidClaimed(s, p, pending[s], d) ELSE Skip
  /\ UNCHANGED <<Contracts, created, stakedIn, epoch, stakes, subgraphVars, ghostVars>>

HandleRewardClaimed ==
  \E s \in Stakers, p \in created, d \in StakeDays : RewardClaimed(s, p, d)

ServiceUnstaked(s, p, forced, d) ==
  /\ AtDay(d) /\ stakedIn[s] = p /\ epoch[p] <= MaxEpoch
  /\ stakedIn' = [stakedIn EXCEPT ![s] = None]
  /\ pending' = [pending EXCEPT ![s] = 0]
  /\ IF Ours(p) THEN SquidUnstaked(s, p, forced, pending[s], d) ELSE Skip
  /\ SubgraphUnstaked(s, p)
  /\ taken' = [taken EXCEPT ![s] = 0]
  /\ forfeited' = IF forced /\ Contracts[p].olas /\ Ours(p)
                  THEN [forfeited EXCEPT ![s] = @ + pending[s]] ELSE forfeited
  /\ UNCHANGED <<Contracts, created, epoch, stakes, since, left, counted>>

HandleServiceUnstaked ==
  \E s \in Stakers, p \in created, forced \in BOOLEAN, d \in StakeDays :
    ServiceUnstaked(s, p, forced, d)

StakingNext ==
  \/ HandleInstanceCreated \/ HandleServiceStaked \/ HandleCheckpoint
  \/ HandleRewardClaimed \/ HandleServiceUnstaked

StakingSpec == StakingInit /\ [][StakingNext]_stakingVars

-----------------------------------------------------------------------------
Serviced == {s \in Stakers : service[s] # None}
EarnedBy(table)  == [s \in Stakers |-> IF table[s] = None THEN 0 ELSE table[s].earned]
ClaimedBy(table) == [s \in Stakers |-> IF table[s] = None THEN 0 ELSE table[s].claimed]

\* handleServiceStaked and handleServiceUnstaked (handlers.ts:172-225, 343-395): what is
\* staked now, in total and by service, is what the stakes that were not undone were taken for,
\* whatever they were followed by; and the totals are the sums of the services'.
StakesAddUp ==
  /\ total.current = Total(taken, Stakers)
  /\ total.current = total.in - total.out
  /\ \A s \in Serviced : service[s].staked = taken[s]

\* The epochs of a service, and those that ended in a contract that counts.
EpochsOf(s) == {id \in DOMAIN history : id[1] = s}
Ended(s)    == {id \in EpochsOf(s) : Contracts[id[2]].olas /\ history[id].checkpointed}
RewardsIn   == [id \in DOMAIN history |-> history[id].reward]

\* What a service is to be paid.
Pays(p) == p # None /\ Contracts[p].olas /\ Ours(p)
Due(s)  == IF Pays(stakedIn[s]) THEN pending[s] ELSE 0

\* handleCheckpoint, handleRewardClaimed and handleServiceUnstaked: the rewards of a
\* service are those of its epochs that ended, whatever an unstake wrote there before;
\* what it earned was paid, is to be paid or was lost by a forced unstake.
RewardsAddUp ==
  /\ \A s \in Serviced :
       /\ service[s].earned = Total(RewardsIn, Ended(s))
       /\ service[s].earned = service[s].claimed + Due(s) + forfeited[s]
       /\ service[s].epochs = Cardinality(EpochsOf(s))
  /\ total.rewards = Total(EarnedBy(service), Stakers)
  /\ total.claimed = Total(ClaimedBy(service), Stakers)
  /\ updates = [claimable |-> total.rewards, claimed |-> total.claimed]

\* "Pearl needs a continuous epoch timeline, including zero-reward epochs after
\* unstaking" (handlers.ts:272-275): from its first stake in a contract to its first in another,
\* a service has a row of each epoch of the contract that ended.
TimelineContinuous ==
  \A s \in Stakers, p \in Proxies :
    Ours(p) /\ since[s][p] # 0 /\ ~ left[s][p] =>
      \A e \in since[s][p] .. epoch[p] - 1 :
        <<s, p, e>> \in DOMAIN history /\ history[<<s, p, e>>].checkpointed

\* getOrCreateDailySnapshot: the last snapshot has the totals, and the counts of the last
\* checkpoint, however many days without one are between them.
SnapshotsFollow ==
  LET last == CHOOSE d \in DOMAIN snapshot : \A e \in DOMAIN snapshot : e <= d IN
  DOMAIN snapshot # {} =>
    /\ snapshot[last].rewards = total.rewards /\ snapshot[last].claimed = total.claimed
    /\ [services |-> snapshot[last].services, median |-> snapshot[last].median] = counted

\* handleServiceStaked, handleCheckpoint, handleRewardClaimed, handleServiceUnstaked
\* (staking/src/handlers.ts:163-395): what is staked is what the stakes that were not
\* undone were taken for; rewards are those of the epochs that ended, each paid, to be
\* paid or lost by a forced unstake; the totals are the sums of the services', and the
\* last daily snapshot has them and the counts of the last checkpoint, however many days
\* are between.  "Pearl needs a continuous epoch timeline, including zero-reward epochs
\* after unstaking" (staking/src/handlers.ts:272-275).
StakesAndHistoryAddUp ==
  StakingTypeOK /\ StakesAddUp /\ RewardsAddUp /\ TimelineContinuous /\ SnapshotsFollow

\* The squid is a port of the subgraph: where every contract is for OLAS and is
\* indexed, and no service locks more than the deposit, they agree.
AgreesWithSubgraph ==
  (/\ \A p \in Proxies : Contracts[p].olas /\ Contracts[p].indexed
   /\ total.in = sgTotal.in) =>
    /\ total.current = sgTotal.current /\ total.rewards = sgTotal.rewards
    /\ total.lastDay = sgTotal.lastDay
    /\ \A s \in Stakers : /\ (service[s] = None) <=> (sgService[s] = None)
                          /\ service[s] # None => service[s].earned = sgService[s].earned
    /\ \A d \in DOMAIN sgSnapshot : /\ snapshot[d].services = sgSnapshot[d].services
                                    /\ snapshot[d].median = sgSnapshot[d].median

\* "stop only once the service stakes in a different contract" (handlers.ts:274-275):
\* the timeline of a service that staked elsewhere has no later epoch, until it comes back.
TimelineStops ==
  [][\A s \in Stakers, p \in Proxies :
       left[s][p] /\ left'[s][p] =>
         \A e \in Epochs : <<s, p, e>> \in DOMAIN history' => <<s, p, e>> \in DOMAIN history]_stakingVars
=============================================================================
