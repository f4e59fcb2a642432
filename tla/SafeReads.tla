------------------------------- MODULE SafeReads -------------------------------
(***************************************************************************)
(* Whether an address is a Safe, and whose: getSafeConfig of the squid     *)
(* pearl-transactions (rpc.ts), which reads an archive at the block of a   *)
(* sighting, and the MasterSafe its answer makes (handlers.ts).  A handler *)
(* of graph-node calls the contract; the squid asks endpoints that fail,   *)
(* that lack the state of some blocks, and that are load balancers: a      *)
(* request now and then reaches a backend of the other sort.               *)
(*                                                                         *)
(* One address, which each block sights.  Blocks are handled in batches;   *)
(* a batch that fails is run again from the committed block.               *)
(***************************************************************************)
EXTENDS Integers, Sequences, FiniteSetsExt

CONSTANTS Configs,     \* [owners, threshold] of Safes; with no owner before its setup
          NoSafe,
          MaxLapses,   \* in a call
          LastBlock, MaxSafeForks  \* bounds

SafeReadsAssumption ==
  /\ \A c \in Configs : c.owners \in Seq(STRING) /\ c.threshold \in Nat
  /\ NoSafe \notin Configs
  /\ {MaxLapses, MaxSafeForks} \subseteq Nat /\ LastBlock \in Nat \ {0}

VARIABLES
  holds,     \* of each endpoint that is configured: the blocks it has the state of
  started,
  truth,     \* of each block: what the address is
  forked,    \* the first block that a fork replaced and the squid has not noticed
  safeForks,
  nextBlock, committed,
  row,       \* the MasterSafe: none, or [block, cfg]
  call,      \* getSafeConfig under way
  safeMemo,
  outlived,  \* whether the memo was ever of work that was undone (history)
  stalled    \* the last call that threw: its block, and if each request was answered well

safeReadsVars ==
  <<holds, started, truth, forked, safeForks, nextBlock, committed, row, call, safeMemo, outlived,
    stalled>>

Endpoints == {"primary", "fallback"}
HasFallback == "fallback" \in DOMAIN holds

-----------------------------------------------------------------------------
(* Requests.  An outcome is [res, of, left, used, clean]: what came back, a  *)
(* value of what, the lapses left, which endpoints the answer is from, and   *)
(* whether no request was refused.                                           *)

\* What viem throws.
Rejection(name, code, says) == [name |-> name, code |-> code, says |-> says]
ZeroData   == Rejection("ContractFunctionZeroDataError", 0, FALSE)
Reverted   == Rejection("ContractFunctionRevertedError", 3, TRUE)
RevertedAsInternal == Rejection("ContractFunctionRevertedError", -32603, TRUE)
InternalError == Rejection("ContractFunctionRevertedError", -32603, FALSE)
HttpError  == Rejection("HttpRequestError", 429, FALSE)

\* `says`: it has revert data, or "revert" in its text.
isBareInternalError(e) == e.code = -32603 /\ ~ e.says

isRevert(e) ==
  \/ e.name = "ContractFunctionZeroDataError"
  \/ e.name = "ContractFunctionRevertedError" /\ ~ isBareInternalError(e)

\* The backend a request reaches: whether it has the block's state.
Backends(e, b, left) ==
  {[has |-> b \in holds[e], left |-> left]}
    \cup IF left = 0 THEN {} ELSE {[has |-> b \notin holds[e], left |-> left - 1]}

Outcome(res, of, left, clean) ==
  [res |-> res, of |-> of, left |-> left, used |-> {}, clean |-> clean]
Thrown(e, left) ==
  IF isRevert(e) THEN Outcome("revert", NoSafe, left, TRUE) ELSE Outcome("transient", NoSafe, left, FALSE)

\* A pruned or lagging backend has no code at the address; one that is not is asked the
\* contract, which an account that is no Safe answers with a revert or with nothing.
Answers(fn, b, backend) ==
  IF ~ backend.has THEN {Thrown(ZeroData, backend.left)}
  ELSE IF truth[b] = NoSafe
       THEN {Thrown(e, backend.left) : e \in {ZeroData, Reverted, RevertedAsInternal}}
  ELSE {Outcome("value", IF fn = "getOwners" THEN truth[b].owners ELSE truth[b].threshold, backend.left, TRUE)}

readAt(e, fn, b, left) ==
  {Thrown(HttpError, left), Thrown(InternalError, left)}
    \cup UNION {Answers(fn, b, backend) : backend \in Backends(e, b, left)}

\* getCode of the registry; a failure of it is not an answer.
hasStateAt(e, b, left) ==
  {Outcome("transient", NoSafe, left, FALSE)}
    \cup {Outcome(IF k.has THEN "code" ELSE "none", NoSafe, k.left, TRUE) : k \in Backends(e, b, left)}

\* A revert is trusted if the endpoint has state at the block.
provenRead(e, fn, b, left) ==
  UNION {IF r.res # "revert" THEN {r}
         ELSE {Outcome(IF s.res = "code" THEN "revert" ELSE "transient", NoSafe, s.left, s.clean)
                 : s \in hasStateAt(e, b, r.left)}
           : r \in readAt(e, fn, b, left)}

Using(outcomes, used, clean) ==
  {[o EXCEPT !.used = used, !.clean = o.clean /\ clean] : o \in outcomes}

\* The primary, and whatever fails there without being a proven revert on the fallback.
historicalRead(fn, b, left) ==
  UNION {IF p.res # "transient" THEN Using({p}, {"primary"}, TRUE)
         ELSE IF ~ HasFallback THEN {p}
         ELSE Using(provenRead("fallback", fn, b, p.left), {"fallback"}, p.clean)
           : p \in provenRead("primary", fn, b, left)}

\* Of a recheck: the primary and, where it cannot serve the block, the fallback again.
recheckRead(fn, b, left) ==
  UNION {IF p.res # "transient" THEN {p} ELSE Using(provenRead("fallback", fn, b, p.left), {}, p.clean)
           : p \in provenRead("primary", fn, b, left)}

\* Both reads, and what they say together.
Verdict(owners, threshold) ==
  LET results == {owners.res, threshold.res} IN
  IF "transient" \in results THEN "transient"
  ELSE IF "revert" \in results \/ owners.of = <<>> THEN "not a Safe"
  ELSE "Safe"

probeSafe(Read(_, _, _), b, left) ==
  UNION {{[res |-> Verdict(o, t), of |-> [owners |-> o.of, threshold |-> t.of],
           left |-> t.left, used |-> o.used \cup t.used, clean |-> o.clean /\ t.clean]
            : t \in Read("getThreshold", b, o.left)}
         : o \in Read("getOwners", b, left)}

firstProbe(b, left) == probeSafe(historicalRead, b, left)

onFallback(fn, b, left) == provenRead("fallback", fn, b, left)
recheck(b, left, used) ==
  IF ~ HasFallback THEN probeSafe(historicalRead, b, left)
  ELSE IF "fallback" \notin used THEN probeSafe(onFallback, b, left)
  ELSE probeSafe(recheckRead, b, left)

-----------------------------------------------------------------------------
(* The squid.                                                                *)

NoCall == [at |-> "idle", left |-> MaxLapses, used |-> {}, clean |-> TRUE]
NoRowYet == [block |-> 0]
IsSafe(t) == t # NoSafe /\ t.owners # <<>>

\* An account that is a Safe stays one; its owners may change.
Histories ==
  {t \in [1 .. LastBlock -> Configs \cup {NoSafe}] :
     \A b \in 2 .. LastBlock : (t[b - 1] # NoSafe => t[b] # NoSafe) /\ (IsSafe(t[b - 1]) => IsSafe(t[b]))}

SafeReadsInit ==
  /\ \E es \in {{"primary"}, Endpoints} : holds \in [es -> SUBSET (1 .. LastBlock)]
  /\ started = FALSE /\ truth \in Histories
  /\ forked = LastBlock + 1 /\ safeForks = 0
  /\ nextBlock = 1 /\ committed = 0 /\ row = NoRowYet
  /\ call = NoCall /\ safeMemo = NoSafe /\ outlived = FALSE
  /\ stalled = [block |-> 0, well |-> FALSE]

\* assertClientArchive: the registry has code at the first block, and answers.
assertClientArchive(e, left) ==
  \E s \in hasStateAt(e, 1, left) : s.res = "code" /\ \E r \in Backends(e, 1, s.left) : r.has

\* assertArchiveRpc of the primary, then of the fallback: either failing is fatal.
Start ==
  /\ ~ started /\ \A e \in DOMAIN holds : assertClientArchive(e, MaxLapses)
  /\ started' = TRUE
  /\ UNCHANGED <<holds, truth, forked, safeForks, nextBlock, committed, row, call, safeMemo, outlived, stalled>>

\* The row of the block, and on to the next one.
Handled(cfg) ==
  /\ row' = IF cfg = NoSafe THEN row ELSE [block |-> nextBlock, cfg |-> cfg]
  /\ nextBlock' = nextBlock + 1 /\ call' = NoCall

\* getOrCreateMasterSafe: a row that is there, and an address that is in the memo, ask nothing.
Sight ==
  /\ started /\ nextBlock <= LastBlock /\ call.at = "idle"
  /\ IF row # NoRowYet THEN Handled(NoSafe)
     ELSE IF safeMemo # NoSafe THEN Handled(safeMemo)
     ELSE call' = [NoCall EXCEPT !.at = "first"] /\ UNCHANGED <<row, nextBlock>>
  /\ UNCHANGED <<holds, started, truth, forked, safeForks, committed, safeMemo, outlived, stalled>>

\* A batch that fails is run again: rows of blocks not committed are not there.
RunAgain ==
  /\ nextBlock' = committed + 1 /\ call' = NoCall
  /\ row' = IF row.block > committed THEN NoRowYet ELSE row

\* In the same process: what the batch put in the memo is still there.
MemoOutlives == outlived' = (outlived \/ safeMemo # NoSafe)

\* The process stops: it starts from the committed block, with no memo.
Stop == RunAgain /\ started' = FALSE /\ safeMemo' = NoSafe /\ UNCHANGED outlived

\* What a probe came to: one that threw ends the process.  Negative results are not cached.
Conclude(o, negative) ==
  LET clean == call.clean /\ o.clean IN
  IF o.res = "transient"
  THEN Stop /\ stalled' = [block |-> nextBlock, well |-> clean /\ o.left = MaxLapses]
  ELSE /\ UNCHANGED <<started, outlived, stalled>>
       /\ IF o.res = "Safe" THEN Handled(o.of) /\ safeMemo' = o.of ELSE negative /\ UNCHANGED safeMemo

FirstProbe ==
  /\ call.at = "first"
  /\ \E o \in firstProbe(nextBlock, call.left) :
       Conclude(o, /\ call' = [at |-> "recheck", left |-> o.left, used |-> o.used,
                               clean |-> call.clean /\ o.clean]
                   /\ UNCHANGED <<row, nextBlock>>)
  /\ UNCHANGED <<holds, truth, forked, safeForks, committed>>

Recheck ==
  /\ call.at = "recheck"
  /\ \E o \in recheck(nextBlock, call.left, call.used) : Conclude(o, Handled(NoSafe))
  /\ UNCHANGED <<holds, truth, forked, safeForks, committed>>

Commit ==
  /\ started /\ call.at = "idle" /\ committed < nextBlock - 1
  /\ committed' = nextBlock - 1
  /\ UNCHANGED <<holds, started, truth, forked, safeForks, nextBlock, row, call, safeMemo, outlived, stalled>>

\* Its transaction is tried again, in the same process; or something else of it fails.
Fail ==
  /\ started /\ (Stop \/ (RunAgain /\ MemoOutlives /\ UNCHANGED <<started, safeMemo>>))
  /\ UNCHANGED <<holds, truth, forked, safeForks, committed, stalled>>

\* The chain is replaced from a block on, between any two requests of a call...
Fork ==
  /\ started /\ safeForks < MaxSafeForks
  /\ \E b \in 1 .. LastBlock, t \in Histories :
       /\ \A i \in 1 .. b - 1 : t[i] = truth[i]
       /\ truth' = t /\ forked' = Min({forked, b})
  /\ safeForks' = safeForks + 1 /\ MemoOutlives
  /\ UNCHANGED <<holds, started, nextBlock, committed, row, call, safeMemo, stalled>>

\* ... and the SDK rolls the tables back to it, in the same process.
Rollback ==
  /\ started /\ call.at = "idle" /\ forked <= LastBlock
  /\ nextBlock' = Min({forked, nextBlock}) /\ committed' = Min({forked - 1, committed})
  /\ row' = IF row.block >= forked THEN NoRowYet ELSE row
  /\ forked' = LastBlock + 1 /\ MemoOutlives
  /\ UNCHANGED <<holds, started, truth, safeForks, call, safeMemo, stalled>>

SafeReadsNext == Start \/ Sight \/ FirstProbe \/ Recheck \/ Commit \/ Fail \/ Fork \/ Rollback

-----------------------------------------------------------------------------
(* Properties. *)

SafeBlocks == {b \in 1 .. Min({nextBlock, forked}) - 1 : IsSafe(truth[b])}

\* "Reading at the first-sighting block reproduces what the subgraph saw"
\* (rpc.ts:291-295): whatever endpoints lack, fail and, once in a call, get wrong
\* (rpc.ts:303-304), no block in which the address is a Safe passes without its MasterSafe,
\* on the chain of the day, after any fork, as negatives are not cached; and the row is of
\* the first such block, with its owners - but for those in the memo, which has no block:
\* after a fork, or a batch that is run again, an earlier sighting takes them.
MasterSafeAsSubgraph ==
  /\ \A b \in SafeBlocks : row # NoRowYet /\ row.block <= b
  /\ ~ outlived /\ row # NoRowYet /\ row.block < forked => IsSafe(truth[row.block]) /\ row.cfg = truth[row.block]

\* "Re-probe the fallback after a pause rather than stall" (rpc.ts:337-339): a call whose
\* requests were all answered well is tried again only where no endpoint has the block's
\* state or, of an address that is no Safe, where the one that rechecks has not.
StallsForState ==
  stalled.well /\ safeForks = 0 =>
    \/ \A e \in DOMAIN holds : stalled.block \notin holds[e]
    \/ HasFallback /\ stalled.block \notin holds["fallback"] /\ ~ IsSafe(truth[stalled.block])

SafesReadRight == MasterSafeAsSubgraph /\ StallsForState
=============================================================================
