----------------------------- MODULE PoolReserves -----------------------------
(***************************************************************************)
(* The liquidity squid (squids/liquidity/src) over the shared contract      *)
(* reads (squids/_shared/src/rpc.ts, price.ts): a pool's reserves, the fees *)
(* of its swaps and the native price, followed along a chain that grows and *)
(* forks while two endpoints answer, fail, or know only the latest state.   *)
(*                                                                         *)
(* A pool operation (a join is a mint and a Sync, a swap a Sync and a Swap) *)
(* is handled in one step, reads included; the chain moves between steps.   *)
(* Rows of a block are written when the block is done; a failed read drops  *)
(* what the batch had, and the memos of the readers, which are the          *)
(* process's, stay.  Batches as such are in EntityCache.                    *)
(***************************************************************************)
EXTENDS Integers, Sequences, FiniteSets, SequencesExt

CONSTANTS Contents,       \* what a block can hold: sequences of operations
          Endpoints,      \* pairs of modes of the primary and the fallback (or NoEndpoint)
          Feed,           \* block number |-> answer of the price feed, 0 when unusable
          SwapFee,        \* block number |-> fee of the pool
          MaxBlock, MaxForks,  \* bounds
          Staleness,      \* PRICE_STALENESS_SECONDS, in blocks
          BlocksPerDay,
          NoEndpoint

Ops == {"join", "exit", "move", "swap"}
Modes == {"archive", "pruned", "down", "flaky"}
Dexes == {"balancer-v2", "uniswap-v2"}

\* What the constants are (assumed by MCStreams).
ReservesAssumption ==
  /\ \A c \in Contents : c \in Seq(Ops)
  /\ {MaxBlock, Staleness, BlocksPerDay} \subseteq Nat \ {0} /\ MaxForks \in Nat
  /\ Feed \in [1 .. MaxBlock -> Nat] /\ SwapFee \in [1 .. MaxBlock -> Nat \ {0}]
  /\ \A e \in Endpoints : e \in Modes \X (Modes \cup {NoEndpoint})

VARIABLES
  dex,        \* the kind of the pool
  endpoint,   \* RPC_HTTP and RPC_HTTP_FALLBACK
  chain,      \* the blocks of the node, each with a number of its own
  minted,     \* how many blocks there were: the number of the next
  forks,
  batch,      \* the blocks fetched and not yet done
  handled,    \* operations handled of the first of them
  rows,       \* the rows after each block that was written
  seen,       \* the blocks they were written for
  work,       \* the rows in the cache
  memo,       \* BlockMemo of BalancerPool and of ChainlinkSource
  decimals    \* whether the immutable reads were memoized

nodeVars == <<dex, endpoint, chain, minted, forks>>
indexVars == <<batch, handled, rows, seen, work>>
readerVars == <<memo, decimals>>
vars == <<nodeVars, indexVars, readerVars>>

-----------------------------------------------------------------------------
(* The pool on chain.                                                        *)

\* A join brings one of each token, an exit takes them, a swap brings one of the first.
Effect(op) == CASE op = "join" -> <<1, 1>> [] op = "exit" -> <<-1, -1>>
                [] op = "swap" -> <<1, -1>> [] op = "move" -> <<0, 0>>
After(reserve, op) == <<reserve[1] + Effect(op)[1], reserve[2] + Effect(op)[2]>>
Through(reserve, ops) == FoldLeft(After, reserve, ops)

\* Reserves at the end of block n of a chain.
ReservesOf(blocks, n) ==
  FoldLeft(LAMBDA reserve, b : Through(reserve, b.ops), <<0, 0>>, SubSeq(blocks, 1, n))

\* No operation leaves the pool with less than nothing, or swaps in an empty one.
Sound(reserve, ops) ==
  \A i \in 1 .. Len(ops) :
    LET before == Through(reserve, SubSeq(ops, 1, i - 1)) IN
    /\ ops[i] # "join" => before[1] >= 1 /\ before[2] >= 1
    /\ ops[i] = "swap" => before[2] >= 2

-----------------------------------------------------------------------------
(* Rpc.at (rpc.ts:108-148): what a read pinned to a block comes to.          *)

Fails == [ok |-> FALSE, at |-> 0]
Answer(n) == [ok |-> TRUE, at |-> n]

\* Whether an endpoint in a mode may serve, or refuse, a read at block n (0: the latest).
Serves(mode, n) ==
  \/ mode \in {"archive", "flaky"} /\ n <= Len(chain)
  \/ mode = "pruned" /\ n \in {0, Len(chain)}
Refuses(mode, n) == mode \in {NoEndpoint, "flaky"} \/ ~ Serves(mode, n)

\* Mutant: the latest state is asked of the primary only.
AtPrimaryLatest(n) ==
  LET p == endpoint[1]
      f == endpoint[2]
      unpinned == Refuses(p, n) /\ Refuses(f, n)
  IN
  {r \in {Answer(n), Answer(Len(chain)), Fails} :
     \/ r = Answer(n) /\ (Serves(p, n) \/ (Refuses(p, n) /\ Serves(f, n)))
     \/ r = Answer(Len(chain)) /\ unpinned /\ Serves(p, 0)
     \/ r = Fails /\ unpinned /\ Refuses(p, 0)}

\* The block whose state the read returns, or a failure, which fails the batch.
At(n) ==
  LET p == endpoint[1]
      f == endpoint[2]
      unpinned == Refuses(p, n) /\ Refuses(f, n)
  IN
  {r \in {Answer(n), Answer(Len(chain)), Fails} :
     \/ r = Answer(n) /\ (Serves(p, n) \/ (Refuses(p, n) /\ Serves(f, n)))
     \/ r = Answer(Len(chain)) /\ unpinned /\ (Serves(p, 0) \/ (Refuses(p, 0) /\ Serves(f, 0)))
     \/ r = Fails /\ unpinned /\ Refuses(p, 0) /\ Refuses(f, 0)}

\* Rpc.latest
LatestFails == Refuses(endpoint[1], 0) /\ Refuses(endpoint[2], 0)
LatestServes == Serves(endpoint[1], 0) \/ Serves(endpoint[2], 0)

\* ChainlinkSource.usdAt: unusable answers are no price, and are not memoized.
NoPrice == 0

-----------------------------------------------------------------------------
(* The handlers: each is the set of outcomes of an operation, [ok, row,      *)
(* memo, decimals]; ok is FALSE when a read failed.                          *)

NewMetrics == [reserve |-> <<0, 0>>, known |-> FALSE, refreshedAt |-> 0, supply |-> 0, in |-> 0, out |-> 0,
               fees |-> 0, swapFee |-> 0, price |-> NoPrice]
NewRows == [created |-> FALSE, metrics |-> NewMetrics, priceData |-> [price |-> NoPrice, at |-> 0],
            daily |-> <<>>, exact |-> TRUE]

Outcome(ok, row, m, d) == [ok |-> ok, row |-> row, memo |-> m, decimals |-> d]

\* handleLpTransfer, up to the refetch.
Supplied(row, op) ==
  LET m == row.metrics IN
  [row EXCEPT !.created = TRUE, !.metrics =
     CASE op = "join" -> [m EXCEPT !.supply = @ + 1, !.in = @ + 1]
       [] op = "exit" -> [m EXCEPT !.supply = IF 1 > @ THEN 0 ELSE @ - 1, !.out = @ + 1]
       [] OTHER -> m]

\* What the memo of a reader has for a block.
MemoOf(m, n) == IF n \in DOMAIN m THEN {m[n]} ELSE {}

Refetched(row, n, reserve) ==
  [row EXCEPT !.metrics.reserve = reserve, !.metrics.known = TRUE, !.metrics.refreshedAt = n,
              \* For ReservesLive: the refetch was of this block.
              !.exact = (reserve = ReservesOf(Append(seen, Head(batch)), n))]

\* The refetch of a Balancer pool: getPoolId, then reservesAt, which is memoized.
Refetch(row, n) ==
  LET hits == MemoOf(memo.reserves, n)
      reads == IF hits # {} THEN {} ELSE At(n)
  IN
  {Outcome(TRUE, Refetched(row, n, r), memo, TRUE) : r \in hits}
  \cup {Outcome(TRUE, Refetched(row, n, ReservesOf(chain, r.at)),
                [memo EXCEPT !.reserves = [i \in DOMAIN @ \cup {n} |->
                   IF i = n THEN ReservesOf(chain, r.at) ELSE @[i]]], TRUE)
          : r \in {x \in reads : x.ok}}
  \cup {Outcome(FALSE, row, memo, decimals) : r \in {x \in reads : ~ x.ok}}

\* refreshNativePrice: the feed, at most once per Staleness; a round that has no usable
\* answer leaves the last price.
Refreshed(o, n) ==
  LET pd == o.row.priceData
      hits == MemoOf(o.memo.price, n)
      reads == IF hits # {} THEN {} ELSE At(n)
      priced(p) == [o.row EXCEPT !.priceData = [price |-> p, at |-> n], !.metrics.price = p]
  IN
  IF pd.price # NoPrice /\ n - pd.at < Staleness THEN {[o EXCEPT !.row.metrics.price = pd.price]}
  ELSE {[o EXCEPT !.row = priced(p)] : p \in hits}
    \cup {IF Feed[r.at] = NoPrice THEN o
          ELSE [o EXCEPT !.row = priced(Feed[r.at]),
                         !.memo.price = [i \in DOMAIN @ \cup {n} |-> IF i = n THEN Feed[r.at] ELSE @[i]]]
            : r \in {x \in reads : x.ok}}
    \cup {[o EXCEPT !.ok = FALSE] : r \in {x \in reads : ~ x.ok}}

Day(n) == n \div BlocksPerDay

\* addFees
WithFee(row, fee, n) ==
  LET old == IF Day(n) \in DOMAIN row.daily THEN row.daily[Day(n)] ELSE [fees |-> 0, swaps |-> 0] IN
  [row EXCEPT !.metrics.fees = @ + fee,
              !.daily = [d \in DOMAIN @ \cup {Day(n)} |->
                 IF d = Day(n) THEN [fees |-> old.fees + fee, swaps |-> old.swaps + 1] ELSE @[d]]]

\* Mutant: a swap of the block of the refetch is added to it.
CountsSwapOnce(row, n) == n >= row.metrics.refreshedAt

\* A refetch has every swap of its block.
CountsSwap(row, n) == n > row.metrics.refreshedAt

\* subtractClamped
Clamped(reserve) == <<reserve[1], IF reserve[2] < 0 THEN 0 ELSE reserve[2]>>

\* handleVaultSwap; the fee is read once, at the first swap.
VaultSwap(row, n) ==
  LET reads == IF row.metrics.swapFee = 0 THEN At(n) ELSE {[ok |-> TRUE, at |-> 0]}
      feeOf(r) == IF row.metrics.swapFee = 0 THEN SwapFee[r.at] ELSE row.metrics.swapFee
      swapped == IF CountsSwap(row, n)
                 THEN [row EXCEPT !.metrics.reserve = Clamped(After(@, "swap"))] ELSE row
  IN
  IF ~ row.created \/ ~ row.metrics.known THEN {Outcome(TRUE, row, memo, decimals)}
  ELSE UNION {
    IF ~ r.ok THEN {Outcome(FALSE, row, memo, decimals)}
    ELSE {[o EXCEPT !.row = WithFee(@, feeOf(r), n)] :
            o \in Refreshed(Outcome(TRUE, [swapped EXCEPT !.metrics.swapFee = feeOf(r)], memo, TRUE), n)}
    : r \in reads}

\* handleUniswapSync: the event has the reserves; the tokens are read once.
UniswapSync(row, reserve, n) ==
  LET synced == [row EXCEPT !.created = TRUE, !.metrics.reserve = reserve, !.metrics.known = TRUE] IN
  (IF row.metrics.known \/ decimals \/ LatestServes
   THEN Refreshed(Outcome(TRUE, synced, memo, TRUE), n) ELSE {})
  \cup (IF ~ row.metrics.known /\ ~ decimals /\ LatestFails
        THEN {Outcome(FALSE, row, memo, decimals)} ELSE {})

\* handleUniswapSwap: 0.3 % of what comes in, here one unit.
UniswapSwap(o, n) == [o EXCEPT !.row = WithFee(@, 1, n)]

\* The logs of an operation, in the order of the contracts.
Handled(op, n) ==
  LET row == Supplied(work, op)
      here == Through(ReservesOf(seen, n - 1), SubSeq(Head(batch).ops, 1, handled + 1))
  IN
  IF dex = "balancer-v2"
  THEN CASE op = "swap" -> VaultSwap(work, n)
         [] op = "move" -> {Outcome(TRUE, row, memo, decimals)}
         [] OTHER -> \* getPoolId is memoized; without it nothing is known yet.
              (IF decimals \/ LatestServes THEN Refetch(row, n) ELSE {})
              \cup (IF ~ decimals /\ LatestFails THEN {Outcome(FALSE, work, memo, decimals)} ELSE {})
  ELSE CASE op = "swap" -> {IF o.ok THEN UniswapSwap(o, n) ELSE o : o \in UniswapSync(work, here, n)}
         [] op = "move" -> {Outcome(TRUE, row, memo, decimals)}
         [] OTHER -> UniswapSync(row, here, n)

-----------------------------------------------------------------------------
Init ==
  /\ dex \in Dexes /\ endpoint \in Endpoints
  /\ chain = <<>> /\ minted = 0 /\ forks = 0
  /\ batch = <<>> /\ handled = 0 /\ rows = <<>> /\ seen = <<>> /\ work = NewRows
  /\ memo = [reserves |-> <<>>, price |-> <<>>] /\ decimals = FALSE

TypeOK ==
  /\ dex \in Dexes /\ endpoint \in Endpoints
  /\ Len(chain) <= MaxBlock /\ forks \in 0 .. MaxForks
  /\ Len(rows) = Len(seen) /\ handled \in Nat
  /\ \A i \in DOMAIN rows : LET m == rows[i].metrics IN
       /\ m.reserve \in Nat \X Nat /\ {m.supply, m.in, m.out, m.fees, m.swapFee, m.price} \subseteq Nat
       /\ m.refreshedAt \in 0 .. i
  /\ DOMAIN memo.reserves \cup DOMAIN memo.price \subseteq 1 .. MaxBlock
  /\ decimals \in BOOLEAN

Block(ops) == [id |-> minted + 1, ops |-> ops]
AddsTo(blocks, ops) == Sound(ReservesOf(blocks, Len(blocks)), ops)

\* The node's next block.
Grow ==
  \E ops \in Contents :
    /\ Len(chain) < MaxBlock /\ AddsTo(chain, ops)
    /\ chain' = Append(chain, Block(ops)) /\ minted' = minted + 1
    /\ UNCHANGED <<dex, endpoint, forks, indexVars, readerVars>>

\* The last block is replaced.
Fork ==
  \E ops \in Contents :
    /\ forks < MaxForks /\ chain # <<>> /\ AddsTo(Front(chain), ops)
    /\ chain' = Append(Front(chain), Block(ops)) /\ minted' = minted + 1 /\ forks' = forks + 1
    /\ UNCHANGED <<dex, endpoint, indexVars, readerVars>>

LastRows(written) == IF written = <<>> THEN NewRows ELSE Last(written)

\* The cache is new in each batch: a row is read as it was written.
CacheOfBatch == LastRows(rows)

\* The blocks after the last one written, while it is a block of the chain.
Fetch ==
  /\ batch = <<>> /\ IsPrefix(seen, chain) /\ Len(seen) < Len(chain)
  /\ \E n \in Len(seen) + 1 .. Len(chain) : batch' = SubSeq(chain, Len(seen) + 1, n)
  /\ work' = CacheOfBatch /\ handled' = 0
  /\ UNCHANGED <<nodeVars, rows, seen, readerVars>>

\* A fork: what was written for blocks that are gone is undone.
Rewind ==
  /\ batch = <<>> /\ ~ IsPrefix(seen, chain)
  /\ rows' = Front(rows) /\ seen' = Front(seen)
  /\ UNCHANGED <<nodeVars, batch, handled, work, readerVars>>

HandleLog ==
  /\ batch # <<>> /\ handled < Len(Head(batch).ops)
  /\ \E o \in Handled(Head(batch).ops[handled + 1], Len(seen) + 1) :
       /\ memo' = o.memo /\ decimals' = o.decimals
       /\ IF o.ok
          THEN work' = o.row /\ handled' = handled + 1 /\ UNCHANGED batch
          ELSE batch' = <<>> /\ handled' = 0 /\ UNCHANGED work
  /\ UNCHANGED <<nodeVars, rows, seen>>

\* The end of a block.
Write ==
  /\ batch # <<>> /\ handled = Len(Head(batch).ops)
  /\ rows' = Append(rows, work) /\ seen' = Append(seen, Head(batch))
  /\ batch' = Tail(batch) /\ handled' = 0
  /\ UNCHANGED <<nodeVars, work, readerVars>>

Index == Fetch \/ Rewind \/ HandleLog \/ Write
Next == Grow \/ Fork \/ Index

\* The processor never stops: it retries a failed batch.
Spec == Init /\ [][Next]_vars /\ WF_vars(Index)

-----------------------------------------------------------------------------
\* handleVaultSwap and handleLpTransfer (handlers.ts:143-160, 240-255): since the last join or exit
\* whose refetch was of its own block, the reserves are those of the chain, however
\* many swaps followed it or came before it in its block; a bad refetch is mended by the next.
ReservesLive ==
  \A i \in DOMAIN rows : rows[i].exact => rows[i].metrics.reserve = ReservesOf(seen, i)

Swaps(n) == Len(SelectSeq(FlattenSeq([i \in 1 .. n |-> seen[i].ops]), LAMBDA op : op = "swap"))

\* addFees: every swap of the chain is in the fees of one day, whatever was retried or
\* rewound, and the pool's fees are those of its days.
FeesAddUp ==
  \A i \in DOMAIN rows :
    LET r == rows[i] IN
    /\ MapThenSumSet(LAMBDA d : r.daily[d].swaps, DOMAIN r.daily) = Swaps(i)
    /\ MapThenSumSet(LAMBDA d : r.daily[d].fees, DOMAIN r.daily) = r.metrics.fees

\* refreshNativePrice: with an endpoint that serves every block, the price of a pool is
\* one the feed gave less than Staleness ago, or the last it gave.
PriceFresh ==
  endpoint[1] = "archive" =>
    \A i \in DOMAIN rows :
      LET pd == rows[i].priceData
          touched == {n \in 1 .. i : \/ "swap" \in ToSet(seen[n].ops)
                                    \/ (dex = "uniswap-v2" /\ {"join", "exit"} \cap ToSet(seen[n].ops) # {})}
      IN
      /\ pd.at # 0 => pd.price = Feed[pd.at] /\ rows[i].metrics.price = pd.price
      /\ \A n \in touched : pd.at = 0 \/ n - pd.at >= Staleness => Feed[n] = NoPrice

\* "A primary that is down, rather than merely non-archival, would otherwise defeat the
\* fallback at this step and retry the batch forever" (rpc.ts:137-139): while one endpoint
\* answers for the latest state, every block is written in the end.
KeepsUp ==
  LET answers(mode) == mode \in {"archive", "pruned"} IN
  (\E i \in {1, 2} : answers(endpoint[i])) => <>[](seen = chain)

\* "blocks only move forward so old keys are dead" (rpc.ts:191): what a reader remembers
\* of a block never stands for another, so with an endpoint that serves every block the
\* reserves written for the blocks of the chain are those of the chain.
OldKeysAreDead ==
  endpoint[1] = "archive" /\ IsPrefix(seen, chain) =>
    \A i \in DOMAIN rows : rows[i].metrics.reserve = ReservesOf(chain, i)
=============================================================================
