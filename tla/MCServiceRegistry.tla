-------------------------- MODULE MCServiceRegistry --------------------------
(***************************************************************************)
(* TLC instances of the models of the service registries' indexers.  A     *)
(* behaviour is of one of them:                                            *)
(*   forks     SafeLogs: a Safe, a reorganisation and a failed transaction;*)
(*   blocks    SafeLogs: two Safes, one of them never ours, and no fork;   *)
(*   long      as blocks, with one block of more logs;                     *)
(*   activity  ServiceRegistryGraph: what the handlers count, in both;     *)
(*   identity  ServiceRegistryGraph: configurations, deployers, identities.*)
(*   ethereum  AutonolasRegistry: two units and a service;                 *)
(*   base      AutonolasRegistry: a service deployed again and again.      *)
(* SafeLogs refines Indexer by blocks: the reference is graph-node running *)
(* a block with the GnosisSafe template.                                   *)
(***************************************************************************)
EXTENDS SafeLogs, ServiceRegistryGraph, TLC

CONSTANTS m1, m2,                                 \* the Safes of `blocks`
          c1, u1,                                 \* a component and an agent
          Owners, Hashes, AgentIds, TargetAgent, Instances, NoOne, NotFound

VARIABLES instance,
          \* The variables of `blocks`.
          chainB, finalB, forksB, appliedB, historyB, pcB, fetchedB, headB, trailB,
          flushedB, workB, idxB, freshB, parkedB, knownB, failuresB,
          \* The variables of AutonolasRegistry.
          ownerOf, hashOf, contract, minters, logs, transactions, blocks, tables, atWork, idle

varsB == <<chainB, finalB, forksB, appliedB, historyB, pcB, fetchedB, headB, trailB,
           flushedB, workB, idxB, freshB, parkedB, knownB, failuresB>>
varsR == <<ownerOf, hashOf, contract, minters, logs, transactions, blocks, tables, atWork, idle>>

Blocks == INSTANCE SafeLogs
            WITH Safes <- {m1, m2}, Orphans <- {m2}, MaxForks <- 0, MaxFailures <- 0,
                 chain <- chainB, final <- finalB, forks <- forksB, applied <- appliedB,
                 history <- historyB, pc <- pcB, fetched <- fetchedB, head <- headB,
                 trail <- trailB, flushed <- flushedB, work <- workB, idx <- idxB,
                 fresh <- freshB, parked <- parkedB, known <- knownB, failures <- failuresB
Long == INSTANCE SafeLogs
          WITH Safes <- {m1, m2}, Orphans <- {m2}, MaxLogs <- 3, MaxLen <- 1,
               MaxForks <- 0, MaxFailures <- 0,
               chain <- chainB, final <- finalB, forks <- forksB, applied <- appliedB,
               history <- historyB, pc <- pcB, fetched <- fetchedB, head <- headB,
               trail <- trailB, flushed <- flushedB, work <- workB, idx <- idxB,
               fresh <- freshB, parked <- parkedB, known <- knownB, failures <- failuresB

\* A set of one of the members of S.
OneOf(S) == {CHOOSE x \in S : TRUE}

\* The same tables, and the logs of some constants only.
Activity == INSTANCE ServiceRegistryGraph
              WITH MaxEvents <- 6, Configs <- {}, Senders <- OneOf(Senders), Identities <- {}
Identity == INSTANCE ServiceRegistryGraph WITH MaxEvents <- 5, Operators <- OneOf(Operators)

Ethereum == INSTANCE AutonolasRegistry
              WITH Units <- {<<"component", c1>>, <<"agent", u1>>}, Services <- {1}, AgentSets <- {{TargetAgent}}, OnBase <- FALSE,
                   Day <- 2, MaxTransactions <- 4, MaxBlocks <- 2
Base     == INSTANCE AutonolasRegistry
              WITH Units <- {}, Services <- {1}, Owners <- OneOf(Owners), Hashes <- OneOf(Hashes),
                   AgentSets <- {{a} : a \in AgentIds}, OnBase <- TRUE,
                   Day <- 2, MaxTransactions <- 11, MaxBlocks <- 3

ASSUME Ethereum!RegistryAssumption /\ Base!RegistryAssumption

\* Multisigs and services of `activity` are interchangeable: only safety
\* properties are checked.
ActivitySymmetry == Permutations(Multisigs) \cup Permutations(Services)
                    \cup Permutations(Identities)

\* What is not of the behaviour's instance stays where it starts.
MCInit ==
  /\ instance \in {"forks", "blocks", "long", "activity", "identity", "ethereum", "base"}
  /\ Init /\ Blocks!Init
  /\ IF instance = "base" THEN Base!RegistryInit ELSE Ethereum!RegistryInit
  /\ GraphInit

MCNext ==
  \/ instance = "forks" /\ Next /\ UNCHANGED <<instance, graphVars, varsB, varsR>>
  \/ instance = "blocks" /\ Blocks!Next /\ UNCHANGED <<instance, graphVars, vars, varsR>>
  \/ instance = "long" /\ Long!Next /\ UNCHANGED <<instance, graphVars, vars, varsR>>
  \/ instance = "activity" /\ Activity!GraphNext /\ UNCHANGED <<instance, vars, varsB, varsR>>
  \/ instance = "identity" /\ Identity!GraphNext /\ UNCHANGED <<instance, vars, varsB, varsR>>
  \/ instance = "ethereum" /\ Ethereum!RegistryNext /\ UNCHANGED <<instance, vars, graphVars, varsB>>
  \/ instance = "base" /\ Base!RegistryNext /\ UNCHANGED <<instance, vars, graphVars, varsB>>

MCSpec == MCInit /\ [][MCNext]_<<instance, vars, graphVars, varsB, varsR>>

-----------------------------------------------------------------------------
\* The squid handles the Safe logs graph-node handles, in its order, also when
\* a Safe of ours and one that never is share the blocks (safeLogs.ts:1-14).
SubgraphB == INSTANCE Indexer
               WITH Event <- Long!Block, EmptyTable <- NoTables, Apply <- RunBlock,
                    MaxForks <- 0, chain <- chainB, final <- finalB, forks <- forksB,
                    fetched <- fetchedB, applied <- appliedB, db <- Blocks!db
BlocksImplementTemplates == SubgraphB!Spec

\* The registries' rows are what the contracts say at the end of a block, whichever
\* of its logs is handled (autonolas/src/registry.ts:397-455), the totals are
\* the tokens minted and the builders who minted units; and on Base a service is
\* counted once a day, in a block that began or ended with it deployed with the
\* agent ("Only count if service is in Deployed state (not terminated)", "Only
\* count if service CURRENTLY has agent 41", autonolas-base/src/safe.ts:18-29).
RegistriesMirrored ==
  /\ instance = "ethereum" => Ethereum!MirrorsContracts /\ Ethereum!TotalsAreTokens
  /\ instance = "base" => Base!MirrorsContracts /\ Base!DaysCounted /\ Base!CountedAtWork
=============================================================================
