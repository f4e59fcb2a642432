---------------------------- MODULE MCEntityCache ----------------------------
(***************************************************************************)
(* TLC instances of EntityCache.  A behaviour is of one of them:           *)
(*   forks    a parent and a child, and a reorganisation;                  *)
(*   failing  also a failed batch, on a shorter chain;                     *)
(*   batches  two parents and two children, one of them saved without its  *)
(*            link, and no fork: longer batches, links that move.          *)
(* All refine Indexer: the abstract tables are the committed ones.         *)
(***************************************************************************)
EXTENDS EntityCache

CONSTANTS p2, k1

VARIABLES instance,
          \* The variables of `batches`.
          chainB, finalB, forksB, fetchedB, appliedB, historyB, pcB, posB, workB,
          cacheB, dirtyB, crashesB

varsB == <<chainB, finalB, forksB, fetchedB, appliedB, historyB, pcB, posB, workB,
           cacheB, dirtyB, crashesB>>

\* An instance of Rows too: TLC then evaluates its definitions in each instance
\* of EntityCache, not once for the constants of this module.
Schema == INSTANCE Rows

Failing == INSTANCE EntityCache WITH MaxLen <- 2, MaxCrashes <- 1
Batches == INSTANCE EntityCache
             WITH Parents <- Parents \cup {p2}, Children <- Children \cup {k1}, Partial <- {k1},
                  MaxLen <- 3, MaxForks <- 0, MaxCrashes <- 0,
                  chain <- chainB, final <- finalB, forks <- forksB, fetched <- fetchedB,
                  applied <- appliedB, history <- historyB, pc <- pcB, pos <- posB,
                  work <- workB, cache <- cacheB, dirty <- dirtyB, crashes <- crashesB

\* The instance that is not of this behaviour stays where it starts.
MCInit == instance \in {"forks", "failing", "batches"} /\ Init /\ Batches!Init

MCNext ==
  \/ instance = "forks" /\ Next /\ UNCHANGED <<instance, varsB>>
  \/ instance = "failing" /\ Failing!Next /\ UNCHANGED <<instance, varsB>>
  \/ instance = "batches" /\ Batches!Next /\ UNCHANGED <<instance, vars>>

\* The processor loop always takes its next step; the chain owes nothing.
MCSpec ==
  /\ MCInit /\ [][MCNext]_<<vars, varsB, instance>>
  /\ WF_vars(instance # "batches" /\ Process)

\* Two parents and two children, one of them saved without its link, in longer
\* batches: the link that moves and the row that stays half-loaded leave no trace
\* in what is committed (entityCache.ts:165-219).
BatchesImplementIndexer == Batches!ImplementsIndexer
=============================================================================
