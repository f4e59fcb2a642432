----------------------------- MODULE Tokenomics -----------------------------
(***************************************************************************)
(* The tokenomics squid (squids/tokenomics) and the tokenomics subgraph    *)
(* (subgraphs/tokenomics): OLAS balances, supply and number of holders,    *)
(* rebuilt from nothing but the token's Transfer logs.                     *)
(*                                                                         *)
(* The token is external: a log carries, besides its own fields, the       *)
(* balances the contract holds after it, which the indexer never sees.     *)
(* One log is handled at a time: EntityCacheProofs shows a batch behind    *)
(* the cache does the same.                                                *)
(***************************************************************************)
EXTENDS Integers, Sequences, FiniteSets

CONSTANTS Holders,     \* addresses that hold the token
          ZERO,        \* the zero address
          Amounts,     \* amounts a transfer may move
          MaxSupply,   \* bound on the minted supply
          MaxLogs,     \* bound on the number of logs of the chain
          MaxForks     \* bound on the number of reorganisations

ASSUME TokenomicsAssumption ==
  /\ IsFiniteSet(Holders) /\ ZERO \notin Holders
  /\ Amounts \subseteq Nat
  /\ MaxSupply \in Nat /\ MaxLogs \in Nat /\ MaxForks \in Nat

VARIABLES chain,   \* the token's logs on the canonical chain
          forks,   \* reorganisations so far
          seen,    \* the logs handled and committed
          rows,    \* rows[n]: the tables after the n-th of them
          thrown   \* did handleTransfer throw (the processor then exits)?

vars == <<chain, forks, seen, rows, thrown>>

Accounts == Holders \cup {ZERO}

\* What the contract holds, and a log together with what it leaves.
Ledger == [bal : [Holders -> Nat], supply : Nat]
Log    == [from : Accounts, to : Accounts, amount : Nat, after : Ledger]

\* The Token row (absent until the first log) and the TokenHolder rows, and
\* the ids of the Transfer rows.
TokenRow  == [saved : BOOLEAN, balance : Int, holderCount : Int]
HolderRow == [saved : BOOLEAN, balance : Int]
Tables    == [token : TokenRow, holder : [Holders -> HolderRow], transfers : SUBSET Nat]

Genesis == [bal |-> [h \in Holders |-> 0], supply |-> 0]
NoRows  == [token     |-> [saved |-> FALSE, balance |-> 0, holderCount |-> 0],
            holder    |-> [h \in Holders |-> [saved |-> FALSE, balance |-> 0]],
            transfers |-> {}]

\* The contract and the tables after the first n logs.
LedgerAt(logs, n) == IF n = 0 THEN Genesis ELSE logs[n].after
TablesAt(n) == IF n = 0 THEN NoRows ELSE rows[n]

TypeOK ==
  /\ chain \in Seq(Log) /\ seen \in Seq(Log) /\ forks \in Nat
  /\ rows \in Seq(Tables) /\ Len(rows) = Len(seen)
  /\ thrown \in BOOLEAN

Init == chain = <<>> /\ forks = 0 /\ seen = <<>> /\ rows = <<>> /\ thrown = FALSE

-----------------------------------------------------------------------------
(* The token (external): an ERC-20 that mints from and burns to ZERO. *)

Move(ledger, from, to, amount) ==
  [bal    |-> [h \in Holders |-> ledger.bal[h]
                                 - (IF h = from THEN amount ELSE 0)
                                 + (IF h = to THEN amount ELSE 0)],
   supply |-> ledger.supply + (IF from = ZERO THEN amount ELSE 0)
                            - (IF to = ZERO THEN amount ELSE 0)]

\* The logs the token may emit on a ledger: nobody sends more than they have,
\* no burn exceeds the supply, and ZERO never sends to itself.
Emits(ledger, log) ==
  /\ log.from # ZERO \/ log.to # ZERO
  /\ log.from \in Holders => log.amount <= ledger.bal[log.from]
  /\ log.to = ZERO => log.amount <= ledger.supply
  /\ log.after = Move(ledger, log.from, log.to, log.amount)

NewLog(ledger, from, to, amount) ==
  [from |-> from, to |-> to, amount |-> amount, after |-> Move(ledger, from, to, amount)]

\* A transfer is mined after the first n logs.
Mine(n) ==
  \E from, to \in Accounts, amount \in Amounts :
     LET log == NewLog(LedgerAt(chain, n), from, to, amount)
     IN /\ Emits(LedgerAt(chain, n), log)
        /\ log.after.supply <= MaxSupply
        /\ chain' = Append(SubSeq(chain, 1, n), log)

Grow ==
  /\ Len(chain) < MaxLogs
  /\ Mine(Len(chain))
  /\ UNCHANGED <<forks, seen, rows, thrown>>

\* A reorganisation: the logs after the n-th give way to another one.
Fork ==
  /\ forks < MaxForks
  /\ \E n \in 0 .. Len(chain) - 1 : Mine(n) /\ chain'[n + 1] # chain[n + 1]
  /\ forks' = forks + 1
  /\ UNCHANGED <<seen, rows, thrown>>

-----------------------------------------------------------------------------
(* handleTransfer. *)

Supply(token, log) ==
  IF log.from = ZERO    THEN token.balance + log.amount
  ELSE IF log.to = ZERO THEN token.balance - log.amount
  ELSE token.balance

\* The holder's row is saved with its new balance, and counted in or out when
\* that takes it to or from zero.
SaveHolder(tables, h, balance, count) ==
  [token     |-> [tables.token EXCEPT !.holderCount = count],
   holder    |-> [tables.holder EXCEPT ![h] = [saved |-> TRUE, balance |-> balance]],
   transfers |-> tables.transfers]

Debit(tables, h, amount) ==
  LET old   == tables.holder[h].balance
      count == tables.token.holderCount
  IN SaveHolder(tables, h, old - amount,
                IF old > 0 /\ old - amount = 0 THEN count - 1 ELSE count)

\* Mutant: a new holder is counted by its balance before the credit alone.
CreditCountingZero(tables, h, amount) ==
  LET old   == tables.holder[h].balance
      count == tables.token.holderCount
  IN SaveHolder(tables, h, old + amount, IF old = 0 THEN count + 1 ELSE count)

Credit(tables, h, amount) ==
  LET old   == tables.holder[h].balance
      count == tables.token.holderCount
  IN SaveHolder(tables, h, old + amount,
                IF old = 0 /\ old + amount > 0 THEN count + 1 ELSE count)

Opened(tables, log, id) ==
  [token     |-> [saved |-> TRUE, balance |-> Supply(tables.token, log),
                  holderCount |-> tables.token.holderCount],
   holder    |-> tables.holder,
   transfers |-> tables.transfers \cup {id}]

\* Mutant: the receiver is loaded before the sender is saved.
TransferredLoadedTogether(tables, log, id) ==
  LET opened  == Opened(tables, log, id)
      debited == IF log.from = ZERO THEN opened
                 ELSE Debit(opened, log.from, log.amount)
  IN IF log.to = ZERO THEN debited
     ELSE [Credit(debited, log.to, log.amount) EXCEPT
             !.holder[log.to].balance = opened.holder[log.to].balance + log.amount]

\* The sender is saved before the receiver is loaded.
Transferred(tables, log, id) ==
  LET opened  == Opened(tables, log, id)
      debited == IF log.from = ZERO THEN opened
                 ELSE Debit(opened, log.from, log.amount)
  IN IF log.to = ZERO THEN debited ELSE Credit(debited, log.to, log.amount)

\* Mutant: a holder may not send all it has.
OverdrawnAtZero(tables, log) ==
  log.from # ZERO /\ tables.holder[log.from].balance <= log.amount

Overdrawn(tables, log) ==
  log.from # ZERO /\ tables.holder[log.from].balance < log.amount

-----------------------------------------------------------------------------
(* The indexer: it handles the next log of the chain it has seen a prefix    *)
(* of; if the chain has forked below it, the SDK first restores the tables   *)
(* of the fork point.                                                        *)

Agree(n) == n <= Len(chain) /\ n <= Len(seen) /\ \A i \in 1 .. n : chain[i] = seen[i]

HandleTransfer ==
  /\ ~ thrown
  /\ Agree(Len(seen)) /\ Len(seen) < Len(chain)
  /\ LET n      == Len(seen)
         log    == chain[n + 1]
         tables == TablesAt(n)
     IN IF Overdrawn(tables, log)
        THEN thrown' = TRUE /\ UNCHANGED <<seen, rows>>
        ELSE /\ seen' = Append(seen, log)
             /\ rows' = Append(rows, Transferred(tables, log, n + 1))
             /\ UNCHANGED thrown
  /\ UNCHANGED <<chain, forks>>

Rollback ==
  /\ \E n \in 0 .. Len(seen) - 1 :
        /\ Agree(n) /\ ~ Agree(n + 1)
        /\ seen' = SubSeq(seen, 1, n)
        /\ rows' = SubSeq(rows, 1, n)
  /\ UNCHANGED <<chain, forks, thrown>>

Next == Grow \/ Fork \/ HandleTransfer \/ Rollback

Spec == Init /\ [][Next]_vars

-----------------------------------------------------------------------------
(* Properties. *)

\* The logs are ones the token emits in that order.
Emitted(logs) == \A n \in 1 .. Len(logs) : Emits(LedgerAt(logs, n - 1), logs[n])

\* What tables say of a ledger: every balance and the supply, and how many
\* addresses hold something.
MirrorsLedger(tables, ledger) ==
  /\ \A h \in Holders : tables.holder[h].balance = ledger.bal[h]
  /\ tables.token.balance = ledger.supply
CountsHolders(tables, ledger) ==
  tables.token.holderCount = Cardinality({h \in Holders : ledger.bal[h] > 0})

\* The rows are the contract's own state after the logs handled, whatever the
\* mix of mints, burns, zero amounts, self-transfers and reorganisations.
BalancesMirrorToken ==
  \A n \in 0 .. Len(seen) : MirrorsLedger(TablesAt(n), LedgerAt(seen, n))

\* holderCount, kept by adding and taking one at the edges, is the number of
\* addresses with a balance.
HolderCountExact ==
  \A n \in 0 .. Len(seen) : CountsHolders(TablesAt(n), LedgerAt(seen, n))

\* "balance would become negative" is never thrown (handlers.ts:60-61): the
\* processor does not stop, and the subgraph, which has no such check, never
\* stores a negative balance.
NeverThrows == ~ thrown

\* The inductive invariant.
Mirror ==
  /\ Emitted(chain) /\ Emitted(seen)
  /\ BalancesMirrorToken /\ HolderCountExact /\ NeverThrows
=============================================================================
