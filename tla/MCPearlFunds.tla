---------------------------- MODULE MCPearlFunds ----------------------------
(***************************************************************************)
(* TLC instances of the three models of the pearl-transactions squid: of   *)
(* PearlFunds, its handlers, of TrackedIndex, the index of tracked         *)
(* addresses they ask, and of SafeReads, the contract reads that tell a    *)
(* Safe from other accounts.  A behaviour is of one of them.  In           *)
(* PearlFunds one service is run by its owner only, the other also by a    *)
(* Safe that may come to own a service itself.                             *)
(***************************************************************************)
EXTENDS PearlFunds, TrackedIndex

CONSTANTS s1, s2, m1, m2, e1, e2, g1, g2, MASTER, AGENT_EOA

VARIABLE part

\* A Safe, one whose first owner is another one, and one before its setup.
ReadConfigs ==
  {[owners |-> <<"a">>, threshold |-> 1], [owners |-> <<"b", "a">>, threshold |-> 2],
   [owners |-> <<>>, threshold |-> 0]}

CONSTANTS MaxLapses, LastBlock, MaxSafeForks
VARIABLES holds, started, truth, forked, safeForks, nextBlock, committed, row, call, safeMemo,
          outlived, stalled

Reads == INSTANCE SafeReads WITH Configs <- ReadConfigs, NoSafe <- None
ASSUME Reads!SafeReadsAssumption

readVars ==
  <<holds, started, truth, forked, safeForks, nextBlock, committed, row, call, safeMemo, outlived,
    stalled>>

\* One state where the behaviour is not of SafeReads.
NoReads ==
  /\ Reads!SafeReadsInit
  /\ DOMAIN holds = {"primary"} /\ holds["primary"] = {} /\ \A b \in DOMAIN truth : truth[b] = None

MCOwnersOf == m1 :> <<e1>> @@ m2 :> <<e1, e2>>
MCMultisigOf == s1 :> g1 @@ s2 :> g2
MCOperatorsOf == s1 :> {} @@ s2 :> {m1}

Plan(kinds, max, stage1, owner1, stage2, owner2) ==
  [calls |-> kinds, max |-> max, joint |-> kinds \subseteq Bonded \cup {"create"},
   native |-> IF "create" \in kinds THEN BOOLEAN ELSE {FALSE},
   stage |-> s1 :> stage1 @@ s2 :> stage2, owner |-> s1 :> owner1 @@ s2 :> owner2,
   signers |-> s1 :> (IF stage1 \in {"registered", "deployed"} THEN {e1} ELSE {})
               @@ s2 :> (IF stage2 \in {"registered", "deployed"} THEN {e2} ELSE {})]

MCPlans ==
  { \* Links that come late, and an operator that becomes a Master Safe.
    Plan({"create", "register", "deploy", "move"}, 5, "none", m1, "active", e2),
    \* Staking.
    Plan({"instance", "stake", "claim", "unstake", "evict", "move"}, 5, "deployed", m1, "none", m2),
    \* Bonds of two services in a transaction.
    Plan({"create", "activate", "register", "terminate", "unbond"}, 4, "none", m1, "minted", m1),
    \* A signer that changes its service.
    Plan({"activate", "register", "terminate", "unbond", "deploy"}, 8, "active", e1, "active", e1),
    \* Payments.
    Plan({"move", "deploy", "pay", "exchange"}, 4, "registered", e1, "registered", e2),
    \* Two Agent Safes that pay each other.
    Plan({"move", "deploy", "exchange"}, 5, "registered", e1, "registered", e2),
    \* Funding.
    Plan({"create", "activate", "register", "deploy", "fund", "topup"}, 6, "none", m1, "none", m2),
    \* Owners.
    Plan({"create", "owners", "move"}, 4, "none", m1, "none", m2) }

\* What is not of the behaviour's part stays where it starts.
MCInit ==
  /\ part \in {"handlers", "index", "reads"} /\ Init /\ IndexInit
  /\ part # "handlers" => plan = CHOOSE p \in Plans : TRUE
  /\ IF part = "reads" THEN Reads!SafeReadsInit ELSE NoReads

MCNext ==
  \/ part = "handlers" /\ Next /\ UNCHANGED <<part, indexVars, readVars>>
  \/ part = "index" /\ IndexNext /\ UNCHANGED <<part, vars, readVars>>
  \/ part = "reads" /\ Reads!SafeReadsNext /\ UNCHANGED <<part, vars, indexVars>>

MCSpec == MCInit /\ [][MCNext]_<<part, vars, indexVars, readVars>>

-----------------------------------------------------------------------------
(* Properties. *)

\* Links and ledgers follow the registry and the chain.  Whichever of the two
\* comes first, an Agent Safe and its service's Master Safe are tracked
\* (entityCache.ts:193-197, handlers.ts:262-270), and whether its registration is
\* linked at once, buffered, drained late or drained again, a signer follows its
\* latest one (handlers.ts:408-414).  Bonds and fundings, each reported by
\* several logs of a transaction, are attributed once: a bond to the service and
\* kind it was for, by the order of the logs alone (logic.ts:347-353), and a leg
\* of a funding to one row, though both Safes log it, one maybe twice
\* (handlers.ts:1137-1166); so each ledger is what its Safe gained
\* (handlers.ts:603-606), less what an Agent Safe got of another one, which the code
\* books for the sender only (handlers.ts:1107-1120).  And an address is a Master Safe from the block on in
\* which it is a Safe, with the owners it has there, whatever the endpoints that
\* are read lack or fail to answer (rpc.ts:291-295).
TablesFollowChain ==
  /\ TypeOK
  /\ part = "reads" => Reads!SafesReadRight
  /\ LinkedSafesTracked /\ SignersFollowRegistration
  /\ BondsAttributed /\ FundedOnce /\ LedgersAddUp
=============================================================================
