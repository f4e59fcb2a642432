---------------------------- MODULE MCTokenomics ----------------------------
(***************************************************************************)
(* TLC instances of the squids that keep sums of what contracts move:      *)
(* Tokenomics and StakingRewards.  A behaviour is of one of `Squids`; the   *)
(* other stays where it starts.                                            *)
(***************************************************************************)
EXTENDS Tokenomics, StakingRewards

CONSTANTS p1, p2, s1, s2, Squids

VARIABLE squid

\* Holders and staked services are interchangeable: only safety properties are checked.
Symmetry == Permutations(Holders) \cup Permutations({s1, s2})

\* Both contracts count; one pays another token; the events of one are not indexed.
Contract(olas, indexed, deposit) == [olas |-> olas, indexed |-> indexed, deposit |-> deposit]
Both == p1 :> Contract(TRUE, TRUE, 2) @@ p2 :> Contract(TRUE, TRUE, 1)
MCDeployments == {Both, [Both EXCEPT ![p2].olas = FALSE], [Both EXCEPT ![p2].indexed = FALSE]}

MCInit ==
  /\ squid \in Squids /\ Init /\ StakingInit
  /\ squid # "staking" => Contracts = Both

MCNext ==
  \/ squid = "tokenomics" /\ Next /\ UNCHANGED <<squid, stakingVars>>
  \/ squid = "staking" /\ StakingNext /\ UNCHANGED <<squid, vars>>

MCSpec == MCInit /\ [][MCNext]_<<squid, vars, stakingVars>>
=============================================================================
