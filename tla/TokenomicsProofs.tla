-------------------------- MODULE TokenomicsProofs --------------------------
(***************************************************************************)
(* Proofs about the squids that keep sums of what contracts move.          *)
(*                                                                         *)
(* Tokenomics, for any holders, amounts and chain: the rows mirror the     *)
(* token's own balances, holderCount counts the holders, and               *)
(* handleTransfer never throws.                                            *)
(*                                                                         *)
(* StakingRewards, for any services, contracts, days and rewards: stakes,  *)
(* rewards and snapshots add up, the timelines have no gap, and the squid  *)
(* agrees with the subgraph where both read the same.  StakingInv and      *)
(* AgreeInv are the invariants, proved log by log.                         *)
(***************************************************************************)
EXTENDS Tokenomics, StakingRewards, SumsProofs, SequenceTheorems, FiniteSetTheorems, TLAPS

-----------------------------------------------------------------------------
(* Counting holders. *)

Positive(tables) == {h \in Holders : tables.holder[h].balance > 0}
Counting(tables) == tables.token.holderCount = Cardinality(Positive(tables))

LEMMA PositiveFinite ==
  ASSUME NEW tables
  PROVE  IsFiniteSet(Positive(tables)) /\ Cardinality(Positive(tables)) \in Nat
<1>1. Positive(tables) \subseteq Holders
  BY DEF Positive
<1> QED BY <1>1, TokenomicsAssumption, FS_Subset, FS_CardinalityType

\* A debit the holder can afford changes one balance and keeps the count.
LEMMA DebitCounts ==
  ASSUME NEW tables \in Tables, NEW h \in Holders, NEW amount \in Nat,
         Counting(tables), amount <= tables.holder[h].balance
  PROVE  LET t == Debit(tables, h, amount)
         IN /\ t \in Tables
            /\ Counting(t)
            /\ t.token.balance = tables.token.balance
            /\ \A x \in Holders : t.holder[x].balance =
                 IF x = h THEN tables.holder[h].balance - amount
                 ELSE tables.holder[x].balance
<1> DEFINE old   == tables.holder[h].balance
           count == tables.token.holderCount
           t     == Debit(tables, h, amount)
           row   == [saved |-> TRUE, balance |-> old - amount]
           token == [tables.token EXCEPT
                       !.holderCount = IF old > 0 /\ old - amount = 0
                                       THEN count - 1 ELSE count]
<1>1. /\ tables = [token |-> tables.token, holder |-> tables.holder,
                   transfers |-> tables.transfers]
      /\ tables.token \in TokenRow /\ tables.holder \in [Holders -> HolderRow]
      /\ tables.transfers \in SUBSET Nat
      /\ old \in Int /\ count \in Int
  BY DEF Tables, TokenRow, HolderRow
<1>2. t = [token |-> token, holder |-> [tables.holder EXCEPT ![h] = row],
           transfers |-> tables.transfers]
  BY DEF Debit, SaveHolder
<1>3. row \in HolderRow /\ row.balance = old - amount
  BY <1>1 DEF HolderRow
<1>4. /\ token \in TokenRow /\ token.balance = tables.token.balance
      /\ token.holderCount = IF old > 0 /\ old - amount = 0 THEN count - 1 ELSE count
  BY <1>1 DEF TokenRow
<1> HIDE DEF t, row, token
<1>5. t \in Tables /\ t.token = token /\ t.holder = [tables.holder EXCEPT ![h] = row]
  BY <1>1, <1>2, <1>3, <1>4 DEF Tables
<1>6. \A x \in Holders : t.holder[x].balance =
         IF x = h THEN old - amount ELSE tables.holder[x].balance
  BY <1>1, <1>3, <1>5
<1>7. Counting(t)
  <2>1. CASE old > 0 /\ old - amount = 0
    <3>1. Positive(t) = Positive(tables) \ {h} /\ h \in Positive(tables)
      BY <1>1, <1>6, <2>1 DEF Positive
    <3>2. Cardinality(Positive(t)) = Cardinality(Positive(tables)) - 1
      <4>1. PICK S : S = Positive(tables)
        OBVIOUS
      <4>2. IsFiniteSet(S) /\ h \in S
        BY <3>1, <4>1, PositiveFinite
      <4>3. Cardinality(S \ {h}) = Cardinality(S) - 1
        BY <4>2, FS_RemoveElement
      <4> QED BY <3>1, <4>1, <4>3, Zenon
    <3> QED BY <1>4, <1>5, <2>1, <3>2 DEF Counting
  <2>2. CASE ~ (old > 0 /\ old - amount = 0)
    <3>1. (old > 0) <=> (old - amount > 0)
      BY <1>1, <2>2
    <3>2. Positive(t) = Positive(tables)
      BY <1>6, <3>1 DEF Positive
    <3> QED BY <1>4, <1>5, <2>2, <3>2 DEF Counting
  <2> QED BY <2>1, <2>2
<1> QED BY <1>4, <1>5, <1>6, <1>7 DEF t

\* A credit changes one balance and keeps the count.
LEMMA CreditCounts ==
  ASSUME NEW tables \in Tables, NEW h \in Holders, NEW amount \in Nat,
         Counting(tables), tables.holder[h].balance >= 0
  PROVE  LET t == Credit(tables, h, amount)
         IN /\ t \in Tables
            /\ Counting(t)
            /\ t.token.balance = tables.token.balance
            /\ \A x \in Holders : t.holder[x].balance =
                 IF x = h THEN tables.holder[h].balance + amount
                 ELSE tables.holder[x].balance
<1> DEFINE old   == tables.holder[h].balance
           count == tables.token.holderCount
           t     == Credit(tables, h, amount)
           row   == [saved |-> TRUE, balance |-> old + amount]
           token == [tables.token EXCEPT
                       !.holderCount = IF old = 0 /\ old + amount > 0
                                       THEN count + 1 ELSE count]
<1>1. /\ tables = [token |-> tables.token, holder |-> tables.holder,
                   transfers |-> tables.transfers]
      /\ tables.token \in TokenRow /\ tables.holder \in [Holders -> HolderRow]
      /\ tables.transfers \in SUBSET Nat
      /\ old \in Int /\ count \in Int
  BY DEF Tables, TokenRow, HolderRow
<1>2. t = [token |-> token, holder |-> [tables.holder EXCEPT ![h] = row],
           transfers |-> tables.transfers]
  BY DEF Credit, SaveHolder
<1>3. row \in HolderRow /\ row.balance = old + amount
  BY <1>1 DEF HolderRow
<1>4. /\ token \in TokenRow /\ token.balance = tables.token.balance
      /\ token.holderCount = IF old = 0 /\ old + amount > 0 THEN count + 1 ELSE count
  BY <1>1 DEF TokenRow
<1> HIDE DEF t, row, token
<1>5. t \in Tables /\ t.token = token /\ t.holder = [tables.holder EXCEPT ![h] = row]
  BY <1>1, <1>2, <1>3, <1>4 DEF Tables
<1>6. \A x \in Holders : t.holder[x].balance =
         IF x = h THEN old + amount ELSE tables.holder[x].balance
  BY <1>1, <1>3, <1>5
<1>7. Counting(t)
  <2>1. CASE old = 0 /\ old + amount > 0
    <3>1. Positive(t) = Positive(tables) \cup {h} /\ h \notin Positive(tables)
      BY <1>1, <1>6, <2>1 DEF Positive
    <3>2. Cardinality(Positive(t)) = Cardinality(Positive(tables)) + 1
      BY <3>1, PositiveFinite, FS_AddElement
    <3> QED BY <1>4, <1>5, <2>1, <3>2 DEF Counting
  <2>2. CASE ~ (old = 0 /\ old + amount > 0)
    <3>1. (old > 0) <=> (old + amount > 0)
      BY <1>1, <2>2
    <3>2. Positive(t) = Positive(tables)
      BY <1>6, <3>1 DEF Positive
    <3> QED BY <1>4, <1>5, <2>2, <3>2 DEF Counting
  <2> QED BY <2>1, <2>2
<1> QED BY <1>4, <1>5, <1>6, <1>7 DEF t

\* One log: tables that mirror the token before it mirror the token after it.
LEMMA TransferMirrors ==
  ASSUME NEW tables \in Tables, NEW ledger \in Ledger, NEW log \in Log, NEW id \in Nat,
         Emits(ledger, log), MirrorsLedger(tables, ledger), CountsHolders(tables, ledger)
  PROVE  /\ ~ Overdrawn(tables, log)
         /\ Transferred(tables, log, id) \in Tables
         /\ MirrorsLedger(Transferred(tables, log, id), log.after)
         /\ CountsHolders(Transferred(tables, log, id), log.after)
<1> DEFINE opened  == Opened(tables, log, id)
           debited == IF log.from = ZERO THEN opened
                      ELSE Debit(opened, log.from, log.amount)
           done    == Transferred(tables, log, id)
<1>1. /\ log.from \in Holders \cup {ZERO} /\ log.to \in Holders \cup {ZERO}
      /\ log.amount \in Nat
      /\ log.from # ZERO \/ log.to # ZERO
      /\ log.from \in Holders => log.amount <= ledger.bal[log.from]
      /\ log.after = Move(ledger, log.from, log.to, log.amount)
  BY DEF Log, Accounts, Emits
<1>2. /\ ledger.bal \in [Holders -> Nat] /\ ledger.supply \in Nat
      /\ \A h \in Holders : tables.holder[h].balance = ledger.bal[h]
      /\ tables.token.balance = ledger.supply
  BY DEF Ledger, MirrorsLedger
<1>3. ~ Overdrawn(tables, log)
  BY <1>1, <1>2 DEF Overdrawn
<1>4. Positive(tables) = {h \in Holders : ledger.bal[h] > 0}
  BY <1>2 DEF Positive
<1>5. /\ opened \in Tables /\ opened.holder = tables.holder
      /\ opened.token.holderCount = tables.token.holderCount
      /\ opened.token.balance = ledger.supply
                                + (IF log.from = ZERO THEN log.amount ELSE 0)
                                - (IF log.to = ZERO THEN log.amount ELSE 0)
  <2>1. /\ tables = [token |-> tables.token, holder |-> tables.holder,
                     transfers |-> tables.transfers]
        /\ tables.token \in TokenRow /\ tables.holder \in [Holders -> HolderRow]
        /\ tables.transfers \in SUBSET Nat
    BY DEF Tables
  <2>2. opened = [token |-> [saved |-> TRUE, balance |-> Supply(tables.token, log),
                             holderCount |-> tables.token.holderCount],
                  holder |-> tables.holder,
                  transfers |-> tables.transfers \cup {id}]
    BY DEF Opened
  <2>3. Supply(tables.token, log) = ledger.supply
                                    + (IF log.from = ZERO THEN log.amount ELSE 0)
                                    - (IF log.to = ZERO THEN log.amount ELSE 0)
    BY <1>1, <1>2 DEF Supply
  <2> HIDE DEF opened
  <2> QED BY <1>1, <1>2, <2>1, <2>2, <2>3 DEF Tables, TokenRow
<1>6. Counting(opened)
  BY <1>4, <1>5 DEF Counting, CountsHolders, Positive
<1> HIDE DEF opened
<1>7. /\ debited \in Tables /\ Counting(debited)
      /\ debited.token.balance = opened.token.balance
      /\ \A x \in Holders : debited.holder[x].balance =
            ledger.bal[x] - (IF x = log.from THEN log.amount ELSE 0)
  <2>1. CASE log.from = ZERO
    BY <1>2, <1>5, <1>6, <2>1, TokenomicsAssumption
  <2>2. CASE log.from \in Holders
    <3>1. log.from # ZERO
      BY <2>2, TokenomicsAssumption
    <3>2. log.amount <= opened.holder[log.from].balance
      BY <1>1, <1>2, <1>5, <2>2
    <3>3. /\ debited \in Tables /\ Counting(debited)
          /\ debited.token.balance = opened.token.balance
          /\ \A x \in Holders : debited.holder[x].balance =
               IF x = log.from THEN opened.holder[log.from].balance - log.amount
               ELSE opened.holder[x].balance
      BY <1>1, <1>5, <1>6, <2>2, <3>1, <3>2, DebitCounts
    <3> QED BY <1>1, <1>2, <1>5, <2>2, <3>3
  <2> QED BY <1>1, <2>1, <2>2
<1> HIDE DEF debited
<1>8. /\ done \in Tables /\ Counting(done)
      /\ done.token.balance = opened.token.balance
      /\ \A x \in Holders : done.holder[x].balance =
            ledger.bal[x] - (IF x = log.from THEN log.amount ELSE 0)
                          + (IF x = log.to THEN log.amount ELSE 0)
  <2>1. done = IF log.to = ZERO THEN debited ELSE Credit(debited, log.to, log.amount)
    BY DEF Transferred, debited, opened
  <2> HIDE DEF done
  <2>2. CASE log.to = ZERO
    BY <1>1, <1>2, <1>7, <2>1, <2>2, TokenomicsAssumption
  <2>3. CASE log.to \in Holders
    <3>1. log.to # ZERO
      BY <2>3, TokenomicsAssumption
    <3>2. debited.holder[log.to].balance >= 0
      BY <1>1, <1>2, <1>7, <2>3
    <3>3. /\ done \in Tables /\ Counting(done)
          /\ done.token.balance = debited.token.balance
          /\ \A x \in Holders : done.holder[x].balance =
               IF x = log.to THEN debited.holder[log.to].balance + log.amount
               ELSE debited.holder[x].balance
      BY <1>1, <1>7, <2>1, <2>3, <3>1, <3>2, CreditCounts
    <3> QED BY <1>1, <1>2, <1>7, <2>3, <3>3
  <2> QED BY <1>1, <2>2, <2>3
<1> HIDE DEF done
<1>9. /\ \A h \in Holders : done.holder[h].balance = log.after.bal[h]
      /\ done.token.balance = log.after.supply
  BY <1>1, <1>2, <1>5, <1>8 DEF Move
<1>10. Positive(done) = {h \in Holders : log.after.bal[h] > 0}
  BY <1>9 DEF Positive
<1> QED BY <1>3, <1>8, <1>9, <1>10 DEF done, MirrorsLedger, CountsHolders, Counting
-----------------------------------------------------------------------------
(* The invariant. *)

LEMMA GenesisFacts ==
  /\ Genesis \in Ledger /\ NoRows \in Tables
  /\ MirrorsLedger(NoRows, Genesis) /\ CountsHolders(NoRows, Genesis)
<1>1. {h \in Holders : Genesis.bal[h] > 0} = {}
  BY DEF Genesis
<1>2. CountsHolders(NoRows, Genesis)
  BY <1>1, FS_EmptySet DEF CountsHolders, NoRows
<1> QED BY <1>2 DEF Genesis, NoRows, Ledger, Tables, TokenRow, HolderRow, MirrorsLedger

LEMMA InitMirror == Init => TypeOK /\ Mirror
<1> SUFFICES ASSUME Init PROVE TypeOK /\ Mirror
  OBVIOUS
<1>1. Len(seen) = 0 /\ Len(chain) = 0
  BY EmptySeq DEF Init
<1>2. TypeOK
  BY EmptySeq DEF TypeOK, Init
<1>3. Emitted(chain) /\ Emitted(seen)
  BY <1>1 DEF Emitted
<1>4. \A n \in 0 .. Len(seen) : TablesAt(n) = NoRows /\ LedgerAt(seen, n) = Genesis
  BY <1>1 DEF TablesAt, LedgerAt
<1>5. BalancesMirrorToken /\ HolderCountExact
  BY <1>4, GenesisFacts DEF BalancesMirrorToken, HolderCountExact
<1> QED BY <1>2, <1>3, <1>5 DEF Mirror, NeverThrows, Init

\* A log appended after a prefix of emitted logs is emitted in its turn.
LEMMA AppendEmitted ==
  ASSUME NEW logs \in Seq(Log), NEW n \in 0 .. Len(logs), NEW log \in Log,
         Emitted(logs), Emits(LedgerAt(logs, n), log),
         NEW longer, longer = Append(SubSeq(logs, 1, n), log)
  PROVE  /\ longer \in Seq(Log) /\ Len(longer) = n + 1
         /\ \A i \in 1 .. n : longer[i] = logs[i]
         /\ longer[n + 1] = log
         /\ Emitted(longer)
<1>1. Len(logs) \in Nat /\ n \in Nat /\ n <= Len(logs)
  BY LenProperties
<1>2. \A i \in 1 .. n : logs[i] \in Log
  BY <1>1, ElementOfSeq
<1>3. /\ SubSeq(logs, 1, n) \in Seq(Log) /\ Len(SubSeq(logs, 1, n)) = n
      /\ \A i \in 1 .. n : SubSeq(logs, 1, n)[i] = logs[i]
  BY <1>1, <1>2, SubSeqProperties
<1>4. /\ longer \in Seq(Log) /\ Len(longer) = n + 1
      /\ \A i \in 1 .. n : longer[i] = logs[i]
      /\ longer[n + 1] = log
  BY <1>3, AppendProperties
<1>5. \A i \in 0 .. n : LedgerAt(longer, i) = LedgerAt(logs, i)
  BY <1>1, <1>4 DEF LedgerAt
<1>6. Emitted(longer)
  <2> SUFFICES ASSUME NEW i \in 1 .. n + 1
               PROVE  Emits(LedgerAt(longer, i - 1), longer[i])
    BY <1>4 DEF Emitted
  <2>1. LedgerAt(longer, i - 1) = LedgerAt(logs, i - 1)
    BY <1>1, <1>5
  <2>2. CASE i = n + 1
    BY <1>1, <1>4, <2>1, <2>2
  <2>3. CASE i # n + 1
    <3>1. i \in 1 .. n /\ i \in 1 .. Len(logs)
      BY <1>1, <2>3
    <3> QED BY <1>4, <2>1, <3>1 DEF Emitted
  <2> QED BY <2>2, <2>3
<1> QED BY <1>4, <1>6

\* A prefix of emitted logs is emitted.
LEMMA PrefixEmitted ==
  ASSUME NEW logs \in Seq(Log), NEW n \in 0 .. Len(logs), Emitted(logs)
  PROVE  /\ SubSeq(logs, 1, n) \in Seq(Log) /\ Len(SubSeq(logs, 1, n)) = n
         /\ \A i \in 0 .. n : LedgerAt(SubSeq(logs, 1, n), i) = LedgerAt(logs, i)
         /\ Emitted(SubSeq(logs, 1, n))
<1>1. Len(logs) \in Nat /\ n \in Nat /\ n <= Len(logs)
  BY LenProperties
<1>2. \A i \in 1 .. n : logs[i] \in Log
  BY <1>1, ElementOfSeq
<1>3. /\ SubSeq(logs, 1, n) \in Seq(Log) /\ Len(SubSeq(logs, 1, n)) = n
      /\ \A i \in 1 .. n : SubSeq(logs, 1, n)[i] = logs[i]
  BY <1>1, <1>2, SubSeqProperties
<1>4. \A i \in 0 .. n : LedgerAt(SubSeq(logs, 1, n), i) = LedgerAt(logs, i)
  BY <1>1, <1>3 DEF LedgerAt
<1>5. \A i \in 1 .. n : /\ SubSeq(logs, 1, n)[i] = logs[i] /\ i \in 1 .. Len(logs)
                        /\ LedgerAt(SubSeq(logs, 1, n), i - 1) = LedgerAt(logs, i - 1)
  BY <1>1, <1>3, <1>4
<1> QED BY <1>3, <1>4, <1>5 DEF Emitted

LEMMA LedgerTyped ==
  ASSUME NEW logs \in Seq(Log), NEW n \in 0 .. Len(logs)
  PROVE  LedgerAt(logs, n) \in Ledger
<1>1. n # 0 => logs[n] \in Log
  BY LenProperties, ElementOfSeq
<1> QED BY <1>1, GenesisFacts DEF LedgerAt, Log

\* A mined log is typed, and what it leaves is a ledger.
LEMMA MineEmitted ==
  ASSUME TypeOK, Emitted(chain), NEW n \in 0 .. Len(chain), Mine(n)
  PROVE  chain' \in Seq(Log) /\ Emitted(chain')
<1> DEFINE before == LedgerAt(chain, n)
<1>1. PICK from \in Accounts, to \in Accounts, amount \in Amounts :
         /\ Emits(before, NewLog(before, from, to, amount))
         /\ chain' = Append(SubSeq(chain, 1, n), NewLog(before, from, to, amount))
  BY DEF Mine
<1> DEFINE log == NewLog(before, from, to, amount)
<1>2. before \in Ledger /\ amount \in Nat /\ chain \in Seq(Log)
  BY LedgerTyped, TokenomicsAssumption DEF TypeOK
<1>3. /\ from # ZERO \/ to # ZERO
      /\ from \in Holders => amount <= before.bal[from]
      /\ to = ZERO => amount <= before.supply
  BY <1>1 DEF Emits, NewLog
<1> HIDE DEF before
<1>4. Move(before, from, to, amount) \in Ledger
  <2>1. before.bal \in [Holders -> Nat] /\ before.supply \in Nat
    BY <1>2 DEF Ledger
  <2>2. \A h \in Holders : before.bal[h] - (IF h = from THEN amount ELSE 0)
                                         + (IF h = to THEN amount ELSE 0) \in Nat
    BY <1>2, <1>3, <2>1
  <2>3. before.supply + (IF from = ZERO THEN amount ELSE 0)
                      - (IF to = ZERO THEN amount ELSE 0) \in Nat
    BY <1>2, <1>3, <2>1
  <2> QED BY <2>2, <2>3 DEF Move, Ledger
<1>5. log \in Log
  BY <1>2, <1>4 DEF NewLog, Log
<1> HIDE DEF log
<1>6. Emits(before, log) /\ chain' = Append(SubSeq(chain, 1, n), log)
  BY <1>1 DEF log
<1> QED BY <1>2, <1>5, <1>6, AppendEmitted DEF before
LEMMA NextMirror ==
  ASSUME TypeOK, Mirror, [Next]_vars
  PROVE  TypeOK' /\ Mirror'
<1>0. Len(chain) \in Nat /\ Len(seen) \in Nat /\ Len(rows) = Len(seen)
  BY LenProperties DEF TypeOK
<1>1. CASE Grow \/ Fork
  <2>1. PICK n \in 0 .. Len(chain) : Mine(n)
    BY <1>0, <1>1 DEF Grow, Fork
  <2>2. chain' \in Seq(Log) /\ Emitted(chain')
    BY <2>1, MineEmitted DEF Mirror
  <2>3. UNCHANGED <<seen, rows, thrown>> /\ forks' \in Nat
    BY <1>1 DEF Grow, Fork, TypeOK
  <2>4. TypeOK'
    BY <2>2, <2>3 DEF TypeOK
  <2>5. BalancesMirrorToken' /\ HolderCountExact' /\ NeverThrows'
    BY <2>3 DEF Mirror, BalancesMirrorToken, HolderCountExact, NeverThrows,
                TablesAt, LedgerAt
  <2> QED BY <2>2, <2>3, <2>4, <2>5 DEF Mirror
<1>2. CASE HandleTransfer
  <2>0. PICK n \in Nat : n = Len(seen)
    BY <1>0
  <2> DEFINE log    == chain[n + 1]
             tables == TablesAt(n)
             ledger == LedgerAt(seen, n)
             result == Transferred(tables, log, n + 1)
  <2>1. /\ ~ thrown /\ Agree(n) /\ n < Len(chain) /\ n + 1 \in 1 .. Len(chain)
        /\ UNCHANGED <<chain, forks>>
        /\ IF Overdrawn(tables, log)
           THEN thrown' = TRUE /\ UNCHANGED <<seen, rows>>
           ELSE seen' = Append(seen, log) /\ rows' = Append(rows, result) /\ UNCHANGED thrown
    BY <1>0, <2>0, <1>2 DEF HandleTransfer
  <2>2. log \in Log
    BY <2>0, <2>1, ElementOfSeq DEF TypeOK
  <2>3. LedgerAt(chain, n) = ledger
    BY <1>0, <2>0, <2>1 DEF Agree, LedgerAt
  <2>4. Emits(ledger, log)
    BY <1>0, <2>0, <2>1, <2>3 DEF Mirror, Emitted
  <2>5. tables \in Tables
    BY <1>0, <2>0, GenesisFacts, ElementOfSeq DEF TypeOK, TablesAt
  <2>6. ledger \in Ledger
    BY <1>0, <2>0, LedgerTyped DEF TypeOK
  <2>7. MirrorsLedger(tables, ledger) /\ CountsHolders(tables, ledger)
    BY <1>0, <2>0 DEF Mirror, BalancesMirrorToken, HolderCountExact
  <2>8. /\ ~ Overdrawn(tables, log) /\ result \in Tables
        /\ MirrorsLedger(result, log.after) /\ CountsHolders(result, log.after)
    BY <1>0, <2>0, <2>2, <2>4, <2>5, <2>6, <2>7, TransferMirrors
  <2> HIDE DEF log, tables, ledger, result
  <2>9. seen' = Append(seen, log) /\ rows' = Append(rows, result) /\ UNCHANGED thrown
    BY <2>0, <2>1, <2>8
  <2>10. /\ seen' \in Seq(Log) /\ Len(seen') = n + 1
         /\ \A i \in 1 .. n : seen'[i] = seen[i]
         /\ seen'[n + 1] = log
    BY <2>0, <2>2, <2>9, AppendProperties DEF TypeOK
  <2>11. /\ rows' \in Seq(Tables) /\ Len(rows') = n + 1
         /\ \A i \in 1 .. n : rows'[i] = rows[i]
         /\ rows'[n + 1] = result
    BY <1>0, <2>0, <2>8, <2>9, AppendProperties DEF TypeOK
  <2>12. TypeOK'
    BY <2>0, <2>1, <2>9, <2>10, <2>11 DEF TypeOK
  <2>13. n \in Nat
    OBVIOUS
  <2>14. \A i \in 0 .. n : /\ TablesAt(i)' = TablesAt(i)
                           /\ LedgerAt(seen', i) = LedgerAt(seen, i)
    BY <2>0, <2>10, <2>11, <2>13 DEF TablesAt, LedgerAt
  <2>15. TablesAt(n + 1)' = result /\ LedgerAt(seen', n + 1) = log.after
    BY <2>0, <2>10, <2>11, <2>13 DEF TablesAt, LedgerAt
  <2>16. \A i \in 0 .. n + 1 : /\ MirrorsLedger(TablesAt(i)', LedgerAt(seen', i))
                               /\ CountsHolders(TablesAt(i)', LedgerAt(seen', i))
    <3> SUFFICES ASSUME NEW i \in 0 .. n + 1
                 PROVE  /\ MirrorsLedger(TablesAt(i)', LedgerAt(seen', i))
                        /\ CountsHolders(TablesAt(i)', LedgerAt(seen', i))
      OBVIOUS
    <3>1. CASE i = n + 1
      BY <2>0, <2>8, <2>15, <3>1
    <3>2. CASE i # n + 1
      <4>1. i \in 0 .. n
        BY <2>0, <2>13, <3>2
      <4>2. MirrorsLedger(TablesAt(i), LedgerAt(seen, i))
            /\ CountsHolders(TablesAt(i), LedgerAt(seen, i))
        BY <2>0, <4>1 DEF Mirror, BalancesMirrorToken, HolderCountExact
      <4> QED BY <2>0, <2>14, <4>1, <4>2
    <3> QED BY <3>1, <3>2
  <2>17. BalancesMirrorToken' /\ HolderCountExact'
    BY <2>0, <2>10, <2>16 DEF BalancesMirrorToken, HolderCountExact,
                        MirrorsLedger, CountsHolders, LedgerAt
  <2>18. Emitted(seen')
    <3>1. \A i \in 1 .. n : i \in 1 .. Len(seen) /\ i - 1 \in 0 .. n
      BY <2>0, <2>13
    <3>2. \A i \in 1 .. n : Emits(LedgerAt(seen', i - 1), seen'[i])
      BY <2>0, <2>10, <2>14, <3>1 DEF Mirror, Emitted
    <3>3. Emits(LedgerAt(seen', n), seen'[n + 1])
      BY <2>0, <2>4, <2>10, <2>13, <2>14 DEF ledger
    <3>4. ASSUME NEW i \in 1 .. n + 1
          PROVE  Emits(LedgerAt(seen', i - 1), seen'[i])
      <4>1. CASE i = n + 1
        <5>1. i - 1 = n
          BY <4>1
        <5> QED BY <3>3, <4>1, <5>1
      <4>2. CASE i # n + 1
        <5>1. i \in 1 .. n
          BY <4>2
        <5> QED BY <3>2, <5>1
      <4> QED BY <4>1, <4>2
    <3> QED BY <2>10, <3>4 DEF Emitted
  <2> QED BY <2>0, <2>1, <2>9, <2>12, <2>17, <2>18 DEF Mirror, NeverThrows
<1>3. CASE Rollback
  <2>1. PICK n \in 0 .. Len(seen) - 1 :
           seen' = SubSeq(seen, 1, n) /\ rows' = SubSeq(rows, 1, n)
    BY <1>3 DEF Rollback
  <2>2. UNCHANGED <<chain, forks, thrown>>
    BY <1>3 DEF Rollback
  <2>3. n \in 0 .. Len(seen) /\ n \in Nat /\ n <= Len(rows)
    BY <1>0, <2>1
  <2>4. /\ seen' \in Seq(Log) /\ Len(seen') = n
        /\ \A i \in 0 .. n : LedgerAt(seen', i) = LedgerAt(seen, i)
        /\ Emitted(seen')
    BY <2>1, <2>3, PrefixEmitted DEF TypeOK, Mirror
  <2>5. \A i \in 1 .. n : rows[i] \in Tables
    BY <1>0, <2>3, ElementOfSeq DEF TypeOK
  <2>6. /\ rows' \in Seq(Tables) /\ Len(rows') = n
        /\ \A i \in 1 .. n : rows'[i] = rows[i]
    BY <2>1, <2>3, <2>5, SubSeqProperties
  <2>7. TypeOK'
    BY <2>2, <2>4, <2>6 DEF TypeOK
  <2>8. \A i \in 0 .. n : TablesAt(i)' = TablesAt(i) /\ i \in 0 .. Len(seen)
    BY <1>0, <2>3, <2>6 DEF TablesAt
  <2>9. BalancesMirrorToken' /\ HolderCountExact'
    BY <2>4, <2>8 DEF Mirror, BalancesMirrorToken, HolderCountExact,
                      MirrorsLedger, CountsHolders, LedgerAt
  <2> QED BY <2>2, <2>4, <2>7, <2>9 DEF Mirror, NeverThrows
<1>4. CASE UNCHANGED vars
  BY <1>4 DEF vars, TypeOK, Mirror, BalancesMirrorToken, HolderCountExact,
              NeverThrows, TablesAt, LedgerAt
<1> QED BY <1>1, <1>2, <1>3, <1>4 DEF Next

\* Every row is of its entity's type.
THEOREM TokenomicsTyped == Spec => []TypeOK
<1> QED BY InitMirror, NextMirror, PTL DEF Spec

\* The rows always hold the token contract's own balances and supply.
THEOREM BalancesExact == Spec => []BalancesMirrorToken
<1>1. Mirror => BalancesMirrorToken
  BY DEF Mirror
<1> QED BY <1>1, InitMirror, NextMirror, PTL DEF Spec

\* holderCount is the number of addresses with a balance, for any number of
\* holders and transfers.
THEOREM HoldersCounted == Spec => []HolderCountExact
<1>1. Mirror => HolderCountExact
  BY DEF Mirror
<1> QED BY <1>1, InitMirror, NextMirror, PTL DEF Spec

\* handleTransfer's check never stops the processor.
THEOREM TransferNeverThrows == Spec => []NeverThrows
<1>1. Mirror => NeverThrows
  BY DEF Mirror
<1> QED BY <1>1, InitMirror, NextMirror, PTL DEF Spec

-----------------------------------------------------------------------------
(* The staking squid. *)

AllEpochs == Epochs \cup {MaxEpoch + 1}
TotalRow  == [in : Nat, out : Nat, current : Nat, rewards : Nat, claimed : Nat,
              lastDay : {0} \cup StakeDays]
CountsIn(row) == [services |-> row.services, median |-> row.median]

Shaped(row) == row = [rewards |-> row.rewards, claimed |-> row.claimed,
                      services |-> row.services, median |-> row.median]

\* The contracts.
ContractsTyped ==
  /\ Contracts \in Deployments /\ created \subseteq Proxies /\ known = created
  /\ stakedIn \in [Stakers -> Proxies \cup {None}]
  /\ pending \in [Stakers -> Nat] /\ epoch \in [Proxies -> AllEpochs] /\ stakeDay \in StakeDays
  /\ taken \in [Stakers -> Nat] /\ forfeited \in [Stakers -> Nat]
  /\ since \in [Stakers -> [Proxies -> Nat]] /\ left \in [Stakers -> [Proxies -> BOOLEAN]]
  /\ \A s \in Stakers : /\ stakedIn[s] # None => stakedIn[s] \in created
                        /\ stakedIn[s] = None => pending[s] = 0
  /\ \A s \in Stakers : \A p \in Proxies : since[s][p] # 0 => p \in created

\* The tables of the squid.
SquidTyped ==
  /\ service \in [Stakers -> {None} \cup ServiceRow(Proxies)]
  /\ active \in [Proxies -> [AllEpochs -> {None} \cup SUBSET Stakers]]
  /\ DOMAIN history \subseteq Stakers \X Proxies \X AllEpochs
  /\ \A id \in DOMAIN history : history[id] \in [reward : Nat, checkpointed : BOOLEAN]
  /\ \A s \in Stakers : IsFiniteSet(EpochsOf(s))
  /\ total \in TotalRow /\ DOMAIN snapshot \subseteq StakeDays
  /\ \A d \in DOMAIN snapshot : Shaped(snapshot[d])

\* The columns of the services' rows.
HeldBy(table)   == [s \in Stakers |-> IF table[s] = None THEN 0 ELSE table[s].staked]
LockedBy(table) == [s \in Stakers |-> IF table[s] = None THEN 0 ELSE table[s].stake]
EpochsBy(table) == [s \in Stakers |-> IF table[s] = None THEN 0 ELSE table[s].epochs]

\* A service that is staked in a contract of the squid has a row; what was not staked
\* there took nothing; what has no row lost nothing.
StakesHaveRows ==
  \A s \in Stakers :
    /\ stakedIn[s] # None /\ Ours(stakedIn[s]) => service[s] # None
    /\ stakedIn[s] = None => taken[s] = 0
    /\ stakedIn[s] # None /\ ~ Ours(stakedIn[s]) => taken[s] = 0
    /\ service[s] = None => forfeited[s] = 0
    /\ HeldBy(service)[s] = taken[s] /\ LockedBy(service)[s] = taken[s]

\* The rewards of a service, and the totals.
Balanced(s) ==
  /\ EarnedBy(service)[s] = Total(RewardsIn, Ended(s))
  /\ EarnedBy(service)[s] = ClaimedBy(service)[s] + Due(s) + forfeited[s]
  /\ EpochsBy(service)[s] = Cardinality(EpochsOf(s))
TotalsKept ==
  /\ total.current = Total(taken, Stakers) /\ total.current = total.in - total.out
  /\ total.rewards = Total(EarnedBy(service), Stakers)
  /\ total.claimed = Total(ClaimedBy(service), Stakers)
  /\ updates = [claimable |-> total.rewards, claimed |-> total.claimed]
RewardsKept == \A s \in Stakers : Balanced(s)

\* What is active or has an epoch has a row, and only what ended was checkpointed.
EpochsHaveRows ==
  /\ \A p \in Proxies : \A e \in AllEpochs :
       active[p][e] # None => \A s \in active[p][e] : service[s] # None
  /\ \A s \in Stakers : \A p \in Proxies : \A e \in AllEpochs :
       <<s, p, e>> \in DOMAIN history =>
         /\ service[s] # None
         /\ history[<<s, p, e>>].checkpointed => e < epoch[p]

\* A service whose timeline in a contract goes on is carried to the contract's epoch.
TimelineGoesOn ==
  \A s \in Stakers : \A p \in Proxies : Ours(p) /\ since[s][p] # 0 /\ ~ left[s][p] =>
    /\ active[p][epoch[p]] # None /\ s \in active[p][epoch[p]]
    /\ service[s].latest \in {None, p}

\* The last snapshot, and the one of the last checkpoint.
SnapshotsLast ==
  /\ \A d \in DOMAIN snapshot : d <= stakeDay
  /\ \A d \in DOMAIN snapshot : (\A e \in DOMAIN snapshot : e <= d) =>
       /\ snapshot[d].rewards = total.rewards /\ snapshot[d].claimed = total.claimed
       /\ CountsIn(snapshot[d]) = counted
  /\ DOMAIN snapshot # {} => \E d \in DOMAIN snapshot : \A e \in DOMAIN snapshot : e <= d
  /\ IF total.lastDay = 0 THEN counted = NoCount
     ELSE total.lastDay \in DOMAIN snapshot /\ CountsIn(snapshot[total.lastDay]) = counted

\* What the subgraph takes for staked.
Deposits == [s \in Stakers |-> IF stakedIn[s] = None THEN 0 ELSE Contracts[stakedIn[s]].deposit]
SubgraphTotal == [in : Nat, out : Nat, current : Nat, rewards : Nat, lastDay : {0} \cup StakeDays]
SubgraphTyped ==
  /\ sgService \in [Stakers -> {None} \cup SubgraphRow] /\ sgTotal \in SubgraphTotal
  /\ sgTotal.current = Total(Deposits, Stakers)

StakingInv ==
  /\ ContractsTyped /\ SquidTyped /\ StakesHaveRows /\ EpochsHaveRows
  /\ RewardsKept /\ TotalsKept
  /\ TimelineContinuous /\ TimelineGoesOn /\ SnapshotsLast /\ SubgraphTyped

\* Where every contract is for OLAS and is indexed, and what each stake locked is the
\* deposit, a service has the same rows in both.
Alike == \A p \in Proxies : Contracts[p].olas /\ Contracts[p].indexed
Same ==
  /\ total.rewards = sgTotal.rewards /\ total.lastDay = sgTotal.lastDay
  /\ \A s \in Stakers :
       /\ (service[s] = None) <=> (sgService[s] = None)
       /\ service[s] # None => service[s].earned = sgService[s].earned /\ service[s].olas
  /\ DOMAIN sgSnapshot \subseteq DOMAIN snapshot
  /\ \A d \in DOMAIN sgSnapshot : /\ snapshot[d].services = sgSnapshot[d].services
                                  /\ snapshot[d].median = sgSnapshot[d].median
SameStakes == \A s \in Stakers : taken[s] = Deposits[s]
AgreeInv ==
  Alike => /\ Same /\ total.in >= sgTotal.in
           /\ total.in = sgTotal.in => SameStakes

-----------------------------------------------------------------------------
LEMMA ContractFacts ==
  ASSUME Contracts \in Deployments
  PROVE  /\ \A p \in Proxies : /\ Contracts[p].olas \in BOOLEAN /\ Contracts[p].indexed \in BOOLEAN
                               /\ Contracts[p].deposit \in Nat /\ p # None
         /\ Proxies # {} => None \notin ServiceRow(Proxies)
BY StakingAssumption DEF Proxies

LEMMA ConstantFacts ==
  /\ Reward \in Nat \ {0} /\ MaxEpoch \in Nat \ {0} /\ StakingDays \in Nat \ {0}
  /\ IsFiniteSet(Stakers) /\ None \notin SubgraphRow
  /\ \A T \in SUBSET Stakers : T # None
BY StakingAssumption

\* A new row of the history counts for its service, nothing else changes.
Alters(new, old, more) ==
  /\ new \in ServiceRow(Proxies)
  /\ new.staked = old.staked /\ new.stake = old.stake /\ new.olas = old.olas
  /\ new.earned = old.earned /\ new.claimed = old.claimed /\ new.latest = old.latest
  /\ new.epochs = old.epochs + more

NewIds(ids, s) == {id \in ids \ DOMAIN history : id[1] = s}

LEMMA ParticipatedIs ==
  ASSUME NEW ids, NEW staged \in [Stakers -> {None} \cup ServiceRow(Proxies)],
         None \notin ServiceRow(Proxies),
         \A s \in Stakers : Cardinality(NewIds(ids, s)) \in Nat
  PROVE  /\ Participated(ids, staged) \in [Stakers -> {None} \cup ServiceRow(Proxies)]
         /\ \A s \in Stakers :
              /\ staged[s] = None => Participated(ids, staged)[s] = None
              /\ staged[s] # None => /\ Participated(ids, staged)[s] # None
                                   /\ Alters(Participated(ids, staged)[s], staged[s],
                                             Cardinality(NewIds(ids, s)))
<1> DEFINE R == Participated(ids, staged)
<1>1. R = [s \in Stakers |-> IF staged[s] = None THEN None
             ELSE [staged[s] EXCEPT !.epochs = @ + Cardinality(NewIds(ids, s))]]
  BY DEF Participated, NewIds
<1>2. ASSUME NEW s \in Stakers, staged[s] # None
      PROVE  R[s] \in ServiceRow(Proxies) /\ Alters(R[s], staged[s], Cardinality(NewIds(ids, s)))
  <2>1. staged[s] \in ServiceRow(Proxies)
    BY <1>2
  <2>2. R[s] = [staged[s] EXCEPT !.epochs = @ + Cardinality(NewIds(ids, s))]
    BY <1>1, <1>2
  <2>3. PICK n \in Nat : n = Cardinality(NewIds(ids, s))
    OBVIOUS
  <2>4. PICK row \in ServiceRow(Proxies) : row = staged[s]
    BY <2>1
  <2>5. R[s] = [row EXCEPT !.epochs = row.epochs + n]
    BY <2>2, <2>3, <2>4
  <2>6. R[s] \in ServiceRow(Proxies)
    BY <2>5 DEF ServiceRow
  <2>7. Alters(R[s], row, n)
    BY <2>5, <2>6 DEF Alters, ServiceRow
  <2> QED BY <2>3, <2>4, <2>6, <2>7
<1>3. \A s \in Stakers : staged[s] = None => R[s] = None
  BY <1>1
<1>4. \A s \in Stakers : staged[s] # None => R[s] # None
  BY <1>2
<1>5. R \in [Stakers -> {None} \cup ServiceRow(Proxies)]
  <2>1. \A s \in Stakers : R[s] \in {None} \cup ServiceRow(Proxies)
    BY <1>2, <1>3
  <2> QED BY <1>1, <2>1
<1> HIDE DEF R
<1>6. \A s \in Stakers : staged[s] # None => Alters(R[s], staged[s], Cardinality(NewIds(ids, s)))
  BY <1>2
<1> QED BY <1>3, <1>4, <1>5, <1>6 DEF R

LEMMA OneMore ==
  ASSUME NEW S, NEW x, IsFiniteSet(S), x \notin S, NEW T, T = S \cup {x}
  PROVE  IsFiniteSet(T) /\ Cardinality(T) = Cardinality(S) + 1
<1>1. IsFiniteSet(S \cup {x}) /\ Cardinality(S \cup {x}) = Cardinality(S) + 1
  BY FS_AddElement
<1> QED BY <1>1

\* The rows an event adds to the history, at most one a service.
OneEach(ids) == \A x \in ids : \A y \in ids : x[1] = y[1] => x = y

LEMMA EpochsGrow ==
  ASSUME NEW s \in Stakers, IsFiniteSet(EpochsOf(s)),
         NEW ids, OneEach(ids), DOMAIN history' = DOMAIN history \cup ids
  PROVE  /\ IsFiniteSet(EpochsOf(s)') /\ Cardinality(NewIds(ids, s)) \in Nat
         /\ Cardinality(EpochsOf(s)) \in Nat
         /\ Cardinality(EpochsOf(s)') = Cardinality(EpochsOf(s)) + Cardinality(NewIds(ids, s))
<1>1. Cardinality(EpochsOf(s)) \in Nat
  BY FS_CardinalityType
<1>2. EpochsOf(s)' = EpochsOf(s) \cup NewIds(ids, s)
  BY DEF EpochsOf, NewIds
<1>3. CASE NewIds(ids, s) = {}
  <2>1. EpochsOf(s)' = EpochsOf(s)
    BY <1>2, <1>3
  <2>2. Cardinality({}) = 0
    BY FS_EmptySet
  <2>3. Cardinality(NewIds(ids, s)) = 0
    BY <1>3, <2>2
  <2> QED BY <1>1, <2>1, <2>3
<1>4. CASE NewIds(ids, s) # {}
  <2>1. PICK x : x \in NewIds(ids, s)
    BY <1>4
  <2>2. NewIds(ids, s) = {x}
    BY <2>1 DEF NewIds, OneEach
  <2>3. EpochsOf(s)' = EpochsOf(s) \cup {x} /\ x \notin EpochsOf(s)
    BY <1>2, <2>1, <2>2 DEF EpochsOf, NewIds
  <2>4. IsFiniteSet(EpochsOf(s)') /\ Cardinality(EpochsOf(s)') = Cardinality(EpochsOf(s)) + 1
    BY <2>3, OneMore
  <2>5. Cardinality({x}) = 1
    BY FS_Singleton
  <2>6. Cardinality(NewIds(ids, s)) = 1
    BY <2>2, <2>5
  <2> QED BY <1>1, <2>4, <2>6
<1> QED BY <1>3, <1>4

\* What an event does to a row of an epoch that has not ended leaves what ended alone.
Others(s, new) ==
  \A id \in DOMAIN history \cup DOMAIN history' : id[1] = s /\ id # new =>
    (id \in DOMAIN history <=> id \in DOMAIN history') /\ history'[id] = history[id]

LEMMA EndedOthers ==
  ASSUME NEW s \in Stakers, Contracts' = Contracts, NEW new, Others(s, new)
  PROVE  \A id : id # new => /\ id \in Ended(s)' <=> id \in Ended(s)
                             /\ id \in Ended(s) => RewardsIn'[id] = RewardsIn[id]
<1> SUFFICES ASSUME NEW id, id # new
             PROVE  /\ id \in Ended(s)' <=> id \in Ended(s)
                    /\ id \in Ended(s) => RewardsIn'[id] = RewardsIn[id]
  OBVIOUS
<1>1. id[1] = s => /\ (id \in DOMAIN history <=> id \in DOMAIN history')
                   /\ (id \in DOMAIN history => history'[id] = history[id])
  BY DEF Others
<1>2. id \in Ended(s)' <=> id \in Ended(s)
  BY <1>1, Zenon DEF Ended, EpochsOf
<1>3. id \in Ended(s) => id \in DOMAIN history /\ id[1] = s
  BY Zenon DEF Ended, EpochsOf
<1> QED BY <1>1, <1>2, <1>3 DEF RewardsIn

LEMMA EndedSame ==
  ASSUME NEW s \in Stakers, Contracts' = Contracts, IsFiniteSet(EpochsOf(s)), NEW new,
         Others(s, new), new \notin Ended(s), new \notin Ended(s)'
  PROVE  Ended(s)' = Ended(s) /\ Total(RewardsIn', Ended(s)') = Total(RewardsIn, Ended(s))
<1>1. \A id : /\ id \in Ended(s)' <=> id \in Ended(s)
              /\ id \in Ended(s) => RewardsIn'[id] = RewardsIn[id]
  BY EndedOthers
<1>2. Ended(s)' = Ended(s)
  BY <1>1
<1>3. Ended(s) \in SUBSET EpochsOf(s)
  BY DEF Ended
<1>4. IsFiniteSet(Ended(s))
  BY <1>3, FS_Subset
<1>5. Total(RewardsIn, Ended(s)) = Total(RewardsIn', Ended(s))
  BY <1>1, <1>4, SumSame
<1> QED BY <1>2, <1>5

LEMMA EndedMore ==
  ASSUME NEW s \in Stakers, Contracts' = Contracts, IsFiniteSet(EpochsOf(s)), NEW new,
         Others(s, new), new \notin Ended(s), new \in Ended(s)', RewardsIn'[new] \in Nat,
         \A id \in DOMAIN history : history[id].reward \in Nat
  PROVE  Total(RewardsIn', Ended(s)') = Total(RewardsIn, Ended(s)) + RewardsIn'[new]
<1>1. \A id : id # new => /\ id \in Ended(s)' <=> id \in Ended(s)
                          /\ id \in Ended(s) => RewardsIn'[id] = RewardsIn[id]
  BY EndedOthers
<1>2. Ended(s)' = Ended(s) \cup {new} /\ Ended(s)' \ {new} = Ended(s)
  BY <1>1
<1>3. Ended(s) \in SUBSET EpochsOf(s)
  BY DEF Ended
<1>4. IsFiniteSet(Ended(s)) /\ IsFiniteSet(Ended(s) \cup {new})
  BY <1>3, FS_Subset, FS_AddElement
<1>5. \A id \in Ended(s) : RewardsIn[id] = RewardsIn'[id] /\ RewardsIn[id] \in Nat
  <2>1. \A id \in Ended(s) : id \in DOMAIN history
    BY Zenon DEF Ended, EpochsOf
  <2> QED BY <1>1, <2>1 DEF RewardsIn
<1>6. Total(RewardsIn, Ended(s)) = Total(RewardsIn', Ended(s))
  BY <1>4, <1>5, SumSame
<1>7. Total(RewardsIn, Ended(s)) \in Nat
  BY <1>4, <1>5, SumNatural
<1>8. PICK set : set = Ended(s) \cup {new}
  OBVIOUS
<1>9. PICK f : f = RewardsIn'
  OBVIOUS
<1>10. IsFiniteSet(set) /\ new \in set /\ \A id \in set : f[id] \in Int
  BY <1>4, <1>5, <1>8, <1>9
<1>11. Total(f, set) = f[new] + Total(f, set \ {new})
  BY <1>10, SumSplit
<1>12. set \ {new} = Ended(s) /\ set = Ended(s)'
  BY <1>2, <1>8
<1>13. Total(f, Ended(s)') = f[new] + Total(f, Ended(s))
  BY <1>11, <1>12
<1>14. Total(f, Ended(s)) = Total(RewardsIn, Ended(s)) /\ f[new] \in Nat
  BY <1>6, <1>9
<1>15. Total(f, Ended(s)') = Total(RewardsIn, Ended(s)) + f[new]
  BY <1>7, <1>13, <1>14
<1> QED BY <1>9, <1>15

-----------------------------------------------------------------------------
\* A table with the rows of another, but for the epochs.
SameRow(new, old) ==
  /\ new.staked = old.staked /\ new.stake = old.stake /\ new.olas = old.olas
  /\ new.earned = old.earned /\ new.claimed = old.claimed /\ new.latest = old.latest
SameRows(new, old) ==
  \A s \in Stakers : /\ (new[s] = None) <=> (old[s] = None)
                     /\ old[s] # None => SameRow(new[s], old[s])

RowTable == [Stakers -> {None} \cup ServiceRow(Proxies)]

LEMMA SameColumns ==
  ASSUME NEW new, NEW old, SameRows(new, old)
  PROVE  /\ EarnedBy(new) = EarnedBy(old) /\ ClaimedBy(new) = ClaimedBy(old)
         /\ HeldBy(new) = HeldBy(old) /\ LockedBy(new) = LockedBy(old)
<1>1. \A s \in Stakers : (new[s] = None) <=> (old[s] = None)
  BY DEF SameRows
<1>2. \A s \in Stakers : old[s] # None =>
        /\ new[s].staked = old[s].staked /\ new[s].stake = old[s].stake
        /\ new[s].earned = old[s].earned /\ new[s].claimed = old[s].claimed
  BY DEF SameRows, SameRow
<1>3. EarnedBy(new) = EarnedBy(old)
  BY <1>1, <1>2 DEF EarnedBy
<1>4. ClaimedBy(new) = ClaimedBy(old)
  BY <1>1, <1>2 DEF ClaimedBy
<1>5. HeldBy(new) = HeldBy(old)
  BY <1>1, <1>2 DEF HeldBy
<1>6. LockedBy(new) = LockedBy(old)
  BY <1>1, <1>2 DEF LockedBy
<1> QED BY <1>3, <1>4, <1>5, <1>6

LEMMA RowFields ==
  ASSUME NEW table \in RowTable, NEW s \in Stakers, table[s] # None
  PROVE  /\ table[s] \in ServiceRow(Proxies)
         /\ table[s].staked \in Int /\ table[s].stake \in Nat /\ table[s].olas \in BOOLEAN
         /\ table[s].earned \in Nat /\ table[s].claimed \in Nat /\ table[s].epochs \in Nat
         /\ table[s].latest \in Proxies \cup {None}
BY DEF RowTable, ServiceRow

LEMMA ColumnsTyped ==
  ASSUME NEW table \in RowTable
  PROVE  \A s \in Stakers : /\ EarnedBy(table)[s] \in Nat /\ ClaimedBy(table)[s] \in Nat
                            /\ HeldBy(table)[s] \in Int /\ LockedBy(table)[s] \in Nat
                            /\ EpochsBy(table)[s] \in Nat
<1> SUFFICES ASSUME NEW s \in Stakers
             PROVE  /\ EarnedBy(table)[s] \in Nat /\ ClaimedBy(table)[s] \in Nat
                    /\ HeldBy(table)[s] \in Int /\ LockedBy(table)[s] \in Nat
                    /\ EpochsBy(table)[s] \in Nat
  OBVIOUS
<1>1. table[s] # None => /\ table[s].staked \in Int /\ table[s].stake \in Nat
                         /\ table[s].earned \in Nat /\ table[s].claimed \in Nat
                         /\ table[s].epochs \in Nat
  BY RowFields
<1> QED BY <1>1 DEF EarnedBy, ClaimedBy, HeldBy, LockedBy, EpochsBy

\* An event adds rows to the history, and counts them.
LEMMA RowsGrow ==
  ASSUME NEW ids, OneEach(ids),
         NEW staged, staged \in RowTable, None \notin ServiceRow(Proxies),
         \A s \in Stakers : /\ IsFiniteSet(EpochsOf(s))
                            /\ EpochsBy(staged)[s] = Cardinality(EpochsOf(s))
                            /\ staged[s] = None => NewIds(ids, s) = {},
         Contracts' = Contracts,
         DOMAIN history' = DOMAIN history \cup ids,
         service' = Participated(ids, staged)
  PROVE  /\ service' \in RowTable /\ SameRows(service', staged)
         /\ \A s \in Stakers : /\ IsFiniteSet(EpochsOf(s)')
                               /\ EpochsBy(service')[s] = Cardinality(EpochsOf(s)')
<1>1. ASSUME NEW s \in Stakers
      PROVE  /\ IsFiniteSet(EpochsOf(s)') /\ Cardinality(NewIds(ids, s)) \in Nat
             /\ Cardinality(EpochsOf(s)) \in Nat
             /\ Cardinality(EpochsOf(s)') = Cardinality(EpochsOf(s)) + Cardinality(NewIds(ids, s))
  <2>1. IsFiniteSet(EpochsOf(s))
    OBVIOUS
  <2> QED BY <2>1, EpochsGrow
<1>2. /\ service' \in RowTable
      /\ \A s \in Stakers : /\ staged[s] = None => service'[s] = None
                            /\ staged[s] # None => /\ service'[s] # None
                                                 /\ Alters(service'[s], staged[s], Cardinality(NewIds(ids, s)))
  BY <1>1, ParticipatedIs DEF RowTable
<1>3. SameRows(service', staged)
  <2>1. \A s \in Stakers : (service'[s] = None) <=> (staged[s] = None)
    BY <1>2
  <2>2. ASSUME NEW s \in Stakers, staged[s] # None PROVE SameRow(service'[s], staged[s])
    <3>1. Alters(service'[s], staged[s], Cardinality(NewIds(ids, s)))
      BY <1>2, <2>2
    <3> QED BY <3>1 DEF Alters, SameRow
  <2> QED BY <2>1, <2>2 DEF SameRows
<1>4. ASSUME NEW s \in Stakers PROVE EpochsBy(service')[s] = Cardinality(EpochsOf(s)')
  <2>1. EpochsBy(staged)[s] = Cardinality(EpochsOf(s)) /\ (staged[s] = None => NewIds(ids, s) = {})
    OBVIOUS
  <2>2. CASE staged[s] # None
    <3>1. service'[s] # None /\ Alters(service'[s], staged[s], Cardinality(NewIds(ids, s)))
      BY <1>2, <2>2
    <3>2. service'[s].epochs = staged[s].epochs + Cardinality(NewIds(ids, s))
      BY <3>1 DEF Alters
    <3>3. EpochsBy(staged)[s] = staged[s].epochs /\ EpochsBy(service')[s] = service'[s].epochs
      BY <2>2, <3>1 DEF EpochsBy
    <3> QED BY <1>1, <2>1, <3>2, <3>3
  <2>3. CASE staged[s] = None
    <3>1. service'[s] = None
      BY <1>2, <2>3
    <3>2. EpochsBy(staged)[s] = 0 /\ EpochsBy(service')[s] = 0
      BY <2>3, <3>1 DEF EpochsBy
    <3>3. NewIds(ids, s) = {}
      BY <2>1, <2>3
    <3>4. Cardinality(NewIds(ids, s)) = 0
      BY <3>3, FS_EmptySet
    <3> QED BY <1>1, <2>1, <3>2, <3>4
  <2> QED BY <2>2, <2>3
<1> QED BY <1>1, <1>2, <1>3, <1>4

\* Facts of a state with a contract.
LEMMA StateFacts ==
  ASSUME ContractsTyped, SquidTyped, NEW p \in Proxies
  PROVE  /\ Contracts[p].olas \in BOOLEAN /\ Contracts[p].indexed \in BOOLEAN
         /\ Contracts[p].deposit \in Nat /\ p # None /\ None \notin ServiceRow(Proxies)
         /\ service \in RowTable /\ total \in TotalRow
         /\ epoch[p] \in AllEpochs /\ epoch[p] \in Nat
BY ContractFacts, ConstantFacts DEF ContractsTyped, SquidTyped, RowTable, AllEpochs, Epochs

\* The days go on.
LEMMA DaysGoOn ==
  ASSUME ContractsTyped, SquidTyped, SnapshotsLast, NEW d \in StakeDays, AtDay(d)
  PROVE  stakeDay' = d /\ d \in Nat \ {0} /\ \A x \in DOMAIN snapshot : x \in Nat /\ x <= d
<1>1. stakeDay \in Nat /\ d \in Nat \ {0} /\ DOMAIN snapshot \subseteq Nat
  BY ConstantFacts DEF ContractsTyped, SquidTyped, StakeDays
<1>2. d >= stakeDay /\ stakeDay' = d
  BY <1>1 DEF AtDay
<1>3. \A x \in DOMAIN snapshot : x <= stakeDay
  BY DEF SnapshotsLast
<1> QED BY <1>1, <1>2, <1>3

LEMMA SnapshotsStay ==
  ASSUME ContractsTyped, SquidTyped, SnapshotsLast, NEW d \in StakeDays, AtDay(d),
         snapshot' = snapshot, counted' = counted, total'.rewards = total.rewards,
         total'.claimed = total.claimed, total'.lastDay = total.lastDay
  PROVE  SnapshotsLast'
<1>1. \A x \in DOMAIN snapshot : x <= stakeDay'
  BY DaysGoOn
<1>2. /\ \A x \in DOMAIN snapshot : (\A e \in DOMAIN snapshot : e <= x) =>
           /\ snapshot[x].rewards = total.rewards /\ snapshot[x].claimed = total.claimed
           /\ CountsIn(snapshot[x]) = counted
      /\ DOMAIN snapshot # {} => \E x \in DOMAIN snapshot : \A e \in DOMAIN snapshot : e <= x
      /\ IF total.lastDay = 0 THEN counted = NoCount
         ELSE total.lastDay \in DOMAIN snapshot /\ CountsIn(snapshot[total.lastDay]) = counted
  BY DEF SnapshotsLast
<1> QED BY <1>1, <1>2 DEF SnapshotsLast, CountsIn

LEMMA SnapshotsGrow ==
  ASSUME ContractsTyped, SquidTyped, SnapshotsLast, NEW d \in StakeDays, AtDay(d),
         DOMAIN snapshot' = DOMAIN snapshot \cup {d},
         \A x \in DOMAIN snapshot \ {d} : snapshot'[x] = snapshot[x],
         snapshot'[d].rewards = total'.rewards, snapshot'[d].claimed = total'.claimed,
         CountsIn(snapshot'[d]) = counted',
         \/ total'.lastDay = d
         \/ total'.lastDay = total.lastDay /\ counted' = counted
  PROVE  SnapshotsLast'
<1>1. stakeDay' = d /\ d \in Nat \ {0} /\ \A x \in DOMAIN snapshot : x \in Nat /\ x <= d
  BY DaysGoOn
<1>2. \A x \in DOMAIN snapshot' : x <= stakeDay'
  BY <1>1
<1>3. ASSUME NEW x \in DOMAIN snapshot', \A e \in DOMAIN snapshot' : e <= x PROVE x = d
  BY <1>1, <1>3
<1>4. \A x \in DOMAIN snapshot' : (\A e \in DOMAIN snapshot' : e <= x) =>
        /\ snapshot'[x].rewards = total'.rewards /\ snapshot'[x].claimed = total'.claimed
        /\ CountsIn(snapshot'[x]) = counted'
  BY <1>3
<1>5. d \in DOMAIN snapshot' /\ \A e \in DOMAIN snapshot' : e <= d
  BY <1>1
<1>6. IF total'.lastDay = 0 THEN counted' = NoCount
      ELSE total'.lastDay \in DOMAIN snapshot' /\ CountsIn(snapshot'[total'.lastDay]) = counted'
  <2>1. CASE total'.lastDay = d
    BY <1>1, <2>1
  <2>2. CASE total'.lastDay # d
    <3>1. total'.lastDay = total.lastDay /\ counted' = counted
      BY <2>2
    <3>2. IF total.lastDay = 0 THEN counted = NoCount
          ELSE total.lastDay \in DOMAIN snapshot /\ CountsIn(snapshot[total.lastDay]) = counted
      BY DEF SnapshotsLast
    <3>3. CASE total.lastDay = 0
      BY <3>1, <3>2, <3>3
    <3>4. CASE total.lastDay # 0
      <4>1. total.lastDay \in DOMAIN snapshot \ {d}
        BY <2>2, <3>1, <3>2, <3>4
      <4> QED BY <3>1, <3>2, <3>4, <4>1
    <3> QED BY <3>3, <3>4
  <2> QED BY <2>1, <2>2
<1> QED BY <1>2, <1>4, <1>5, <1>6 DEF SnapshotsLast, CountsIn, NoCount

-----------------------------------------------------------------------------
(* handleServiceStaked. *)

LEMMA LockedTyped ==
  ASSUME ContractsTyped, SquidTyped, NEW p \in created, NEW more \in {0, 1}
  PROVE  Locked(p, more) \in Nat
<1>1. p \in Proxies
  BY DEF ContractsTyped
<1> QED BY <1>1, StateFacts DEF Locked

\* What a stake does to the rows.
LEMMA StakedRows ==
  ASSUME ContractsTyped, SquidTyped, EpochsHaveRows, RewardsKept,
         NEW s \in Stakers, NEW p \in created, NEW amount \in Nat,
         Contracts' = Contracts, SquidStaked(s, p, amount)
  PROVE  /\ service' \in RowTable
         /\ EarnedBy(service') = EarnedBy(service) /\ ClaimedBy(service') = ClaimedBy(service)
         /\ HeldBy(service') = [HeldBy(service) EXCEPT ![s] = @ + amount]
         /\ LockedBy(service') = [LockedBy(service) EXCEPT ![s] = amount]
         /\ \A q \in Stakers : /\ IsFiniteSet(EpochsOf(q)')
                               /\ EpochsBy(service')[q] = Cardinality(EpochsOf(q)')
         /\ service'[s] # None /\ service'[s].latest = p
         /\ Contracts[p].olas => service'[s].olas
         /\ \A q \in Stakers \ {s} : /\ (service'[q] = None) <=> (service[q] = None)
                                     /\ service[q] # None => SameRow(service'[q], service[q])
<1> DEFINE old == IF service[s] = None THEN NewService ELSE service[s]
           id == <<s, p, epoch[p]>>
           row == [old EXCEPT !.staked = @ + amount, !.stake = amount, !.latest = p,
                              !.olas = @ \/ Contracts[p].olas]
           staged == [service EXCEPT ![s] = row]
<1>1. p \in Proxies /\ service \in RowTable /\ None \notin ServiceRow(Proxies)
  BY StateFacts DEF ContractsTyped
<1>2. Contracts[p].olas \in BOOLEAN
  BY <1>1, StateFacts
<1>3. old \in ServiceRow(Proxies)
  BY <1>1 DEF NewService, ServiceRow, RowTable
<1>4. /\ row \in ServiceRow(Proxies) /\ row.staked = old.staked + amount /\ row.stake = amount
      /\ row.latest = p /\ row.earned = old.earned /\ row.claimed = old.claimed
      /\ row.epochs = old.epochs
  <2>1. PICK b \in BOOLEAN : b = (old.olas \/ Contracts[p].olas)
    BY Zenon
  <2>2. PICK r \in ServiceRow(Proxies) : r = old
    BY <1>3
  <2>3. row = [r EXCEPT !.staked = r.staked + amount, !.stake = amount, !.latest = p, !.olas = b]
    BY <2>1, <2>2, Zenon
  <2> HIDE DEF old, row
  <2>4. row \in ServiceRow(Proxies)
    <3>1. /\ r.staked + amount \in Int /\ r.earned \in Nat /\ r.claimed \in Nat
          /\ r.epochs \in Nat /\ p \in Proxies \cup {None}
      BY <1>1 DEF ServiceRow
    <3>2. row = [staked |-> r.staked + amount, stake |-> amount, olas |-> b, earned |-> r.earned,
                 claimed |-> r.claimed, epochs |-> r.epochs, latest |-> p]
      BY <2>3 DEF ServiceRow
    <3> QED BY <3>1, <3>2 DEF ServiceRow
  <2>5. /\ row.staked = r.staked + amount /\ row.stake = amount /\ row.latest = p
        /\ row.earned = r.earned /\ row.claimed = r.claimed /\ row.epochs = r.epochs
    BY <2>3 DEF ServiceRow
  <2> QED BY <2>2, <2>4, <2>5
<1>5. Contracts[p].olas => row.olas
  <2>1. PICK b \in BOOLEAN : b = (old.olas \/ Contracts[p].olas)
    BY Zenon
  <2>2. PICK r \in ServiceRow(Proxies) : r = old
    BY <1>3
  <2>3. row = [r EXCEPT !.staked = r.staked + amount, !.stake = amount, !.latest = p, !.olas = b]
    BY <2>1, <2>2, Zenon
  <2> HIDE DEF old, row
  <2>4. row.olas = b
    BY <2>2, <2>3 DEF ServiceRow
  <2> QED BY <2>1, <2>4, Zenon
<1> HIDE DEF row
<1>6. staged \in RowTable /\ staged[s] = row /\ \A q \in Stakers \ {s} : staged[q] = service[q]
  BY <1>1, <1>4 DEF RowTable
<1>7. row # None
  BY <1>1, <1>4
<1>8. /\ old.staked = HeldBy(service)[s] /\ old.earned = EarnedBy(service)[s]
      /\ old.claimed = ClaimedBy(service)[s] /\ old.epochs = EpochsBy(service)[s]
  BY DEF HeldBy, EarnedBy, ClaimedBy, EpochsBy, NewService
<1> HIDE DEF old, staged
<1>9. EarnedBy(staged) = EarnedBy(service)
  <2>1. \A q \in Stakers : EarnedBy(staged)[q] = EarnedBy(service)[q]
    BY <1>4, <1>6, <1>7, <1>8 DEF EarnedBy
  <2> QED BY <2>1 DEF EarnedBy
<1>10. ClaimedBy(staged) = ClaimedBy(service)
  <2>1. \A q \in Stakers : ClaimedBy(staged)[q] = ClaimedBy(service)[q]
    BY <1>4, <1>6, <1>7, <1>8 DEF ClaimedBy
  <2> QED BY <2>1 DEF ClaimedBy
<1>11. EpochsBy(staged) = EpochsBy(service)
  <2>1. \A q \in Stakers : EpochsBy(staged)[q] = EpochsBy(service)[q]
    BY <1>4, <1>6, <1>7, <1>8 DEF EpochsBy
  <2> QED BY <2>1 DEF EpochsBy
<1>12. HeldBy(staged) = [HeldBy(service) EXCEPT ![s] = @ + amount]
  <2>1. \A q \in Stakers : HeldBy(staged)[q] = IF q = s THEN HeldBy(service)[s] + amount
                                             ELSE HeldBy(service)[q]
    BY <1>4, <1>6, <1>7, <1>8 DEF HeldBy
  <2> QED BY <2>1 DEF HeldBy
<1>13. LockedBy(staged) = [LockedBy(service) EXCEPT ![s] = amount]
  <2>1. \A q \in Stakers : LockedBy(staged)[q] = IF q = s THEN amount ELSE LockedBy(service)[q]
    BY <1>4, <1>6, <1>7 DEF LockedBy
  <2> QED BY <2>1 DEF LockedBy
<1>14. service' = Participated({id}, staged) /\ DOMAIN history' = DOMAIN history \cup {id}
  BY DEF SquidStaked, Put, staged, row, old
<1>15. \A q \in Stakers : /\ IsFiniteSet(EpochsOf(q))
                          /\ EpochsBy(staged)[q] = Cardinality(EpochsOf(q))
                          /\ staged[q] = None => NewIds({id}, q) = {}
  <2>1. \A q \in Stakers : staged[q] = None => q # s
    BY <1>6, <1>7
  <2>2. \A q \in Stakers : q # s => NewIds({id}, q) = {}
    BY DEF NewIds
  <2>3. \A q \in Stakers : IsFiniteSet(EpochsOf(q)) /\ EpochsBy(staged)[q] = Cardinality(EpochsOf(q))
    BY <1>11 DEF SquidTyped, RewardsKept, Balanced
  <2> QED BY <2>1, <2>2, <2>3
<1>16. OneEach({id})
  BY DEF OneEach
<1> HIDE DEF id
<1>17. /\ service' \in RowTable /\ SameRows(service', staged)
       /\ \A q \in Stakers : /\ IsFiniteSet(EpochsOf(q)')
                             /\ EpochsBy(service')[q] = Cardinality(EpochsOf(q)')
  BY <1>1, <1>6, <1>14, <1>15, <1>16, RowsGrow
<1>18. /\ EarnedBy(service') = EarnedBy(staged) /\ ClaimedBy(service') = ClaimedBy(staged)
       /\ HeldBy(service') = HeldBy(staged) /\ LockedBy(service') = LockedBy(staged)
  BY <1>17, SameColumns
<1>19. \A q \in Stakers \ {s} : /\ (service'[q] = None) <=> (service[q] = None)
                                /\ service[q] # None => SameRow(service'[q], service[q])
  BY <1>6, <1>17 DEF SameRows
<1>20. service'[s] # None /\ SameRow(service'[s], row)
  BY <1>6, <1>7, <1>17 DEF SameRows
<1>21. service'[s].latest = p
  BY <1>4, <1>20 DEF SameRow
<1>22. Contracts[p].olas => service'[s].olas
  BY <1>5, <1>20, Zenon DEF SameRow
<1>23. \A q \in Stakers : /\ IsFiniteSet(EpochsOf(q)')
                          /\ EpochsBy(service')[q] = Cardinality(EpochsOf(q)')
  BY <1>17
<1> QED BY <1>9, <1>10, <1>12, <1>13, <1>17, <1>18, <1>19, <1>20, <1>21, <1>22, <1>23, Zenon

\* What a stake leaves behind, whether or not the squid follows the contract.
LEMMA StakedEffect ==
  ASSUME StakingInv, NEW s \in Stakers, NEW p \in created, NEW amount \in Nat,
         NEW d \in StakeDays, ServiceStaked(s, p, amount, d)
  PROVE  /\ known' = known /\ snapshot' = snapshot /\ updates' = updates
         /\ service' \in RowTable
         /\ EarnedBy(service') = EarnedBy(service) /\ ClaimedBy(service') = ClaimedBy(service)
         /\ \A q \in Stakers : HeldBy(service')[q] = taken'[q] /\ LockedBy(service')[q] = taken'[q]
         /\ \A q \in Stakers : /\ IsFiniteSet(EpochsOf(q)')
                               /\ EpochsBy(service')[q] = Cardinality(EpochsOf(q)')
                               /\ Total(RewardsIn', Ended(q)') = Total(RewardsIn, Ended(q))
         /\ \A q \in Stakers : service[q] # None => service'[q] # None
         /\ Ours(p) => /\ service'[s] # None /\ service'[s].latest = p
                       /\ Contracts[p].olas => service'[s].olas
         /\ \A q \in Stakers : q # s \/ ~ Ours(p) =>
              /\ (service'[q] = None) <=> (service[q] = None)
              /\ service[q] # None => SameRow(service'[q], service[q])
         /\ total' \in TotalRow /\ total'.current = total.current + taken'[s]
         /\ total'.in = total.in + taken'[s] /\ total'.out = total.out
         /\ total'.rewards = total.rewards /\ total'.claimed = total.claimed
         /\ total'.lastDay = total.lastDay
         /\ \A id \in DOMAIN history : id \in DOMAIN history' /\ history'[id] = history[id]
         /\ \A id \in DOMAIN history' \ DOMAIN history :
              id = <<s, p, epoch[p]>> /\ Ours(p) /\ history'[id] = [reward |-> 0, checkpointed |-> FALSE]
<1>1. /\ ContractsTyped /\ SquidTyped /\ EpochsHaveRows /\ RewardsKept /\ StakesHaveRows
  BY DEF StakingInv
<1>2. /\ p \in Proxies /\ Contracts' = Contracts /\ stakedIn[s] = None
      /\ taken' = [taken EXCEPT ![s] = IF Ours(p) THEN amount ELSE 0]
      /\ taken \in [Stakers -> Nat] /\ taken[s] = 0 /\ total \in TotalRow
  BY <1>1 DEF ContractsTyped, StakesHaveRows, ServiceStaked, SquidTyped
<1>3. service \in RowTable /\ epoch[p] \in AllEpochs /\ epoch[p] \in Nat
  BY <1>1, <1>2, StateFacts
<1>4. CASE Ours(p)
  <2> DEFINE id == <<s, p, epoch[p]>>
  <2>1. SquidStaked(s, p, amount)
    BY <1>4 DEF ServiceStaked
  <2>2. /\ service' \in RowTable
        /\ EarnedBy(service') = EarnedBy(service) /\ ClaimedBy(service') = ClaimedBy(service)
        /\ HeldBy(service') = [HeldBy(service) EXCEPT ![s] = @ + amount]
        /\ LockedBy(service') = [LockedBy(service) EXCEPT ![s] = amount]
        /\ \A q \in Stakers : /\ IsFiniteSet(EpochsOf(q)')
                              /\ EpochsBy(service')[q] = Cardinality(EpochsOf(q)')
        /\ service'[s] # None /\ service'[s].latest = p
        /\ Contracts[p].olas => service'[s].olas
        /\ \A q \in Stakers \ {s} : /\ (service'[q] = None) <=> (service[q] = None)
                                    /\ service[q] # None => SameRow(service'[q], service[q])
    BY <1>1, <1>2, <2>1, StakedRows
  <2>3. \A q \in Stakers : HeldBy(service)[q] = taken[q] /\ LockedBy(service)[q] = taken[q]
    BY <1>1 DEF StakesHaveRows
  <2>4. \A q \in Stakers : HeldBy(service')[q] = taken'[q] /\ LockedBy(service')[q] = taken'[q]
    <3>1. /\ DOMAIN HeldBy(service) = Stakers /\ DOMAIN LockedBy(service) = Stakers
      BY DEF HeldBy, LockedBy
    <3>2. \A q \in Stakers : taken'[q] = IF q = s THEN amount ELSE taken[q]
      BY <1>2, <1>4
    <3>3. HeldBy(service)[s] = 0 /\ \A q \in Stakers : HeldBy(service')[q] =
            IF q = s THEN HeldBy(service)[s] + amount ELSE HeldBy(service)[q]
      BY <1>2, <2>2, <2>3, <3>1
    <3>4. \A q \in Stakers : LockedBy(service')[q] =
            IF q = s THEN amount ELSE LockedBy(service)[q]
      BY <2>2, <3>1
    <3> QED BY <2>3, <3>2, <3>3, <3>4
  <2>5. /\ known' = known /\ snapshot' = snapshot /\ updates' = updates
        /\ total' = [total EXCEPT !.in = @ + amount, !.current = @ + amount]
        /\ history' = [i \in DOMAIN history \cup {id} |-> IF i = id THEN HistoryRow(id) ELSE history[i]]
    BY <2>1 DEF SquidStaked, Put
  <2>6. /\ total' \in TotalRow /\ total'.current = total.current + amount
        /\ total'.in = total.in + amount /\ total'.out = total.out
        /\ total'.rewards = total.rewards /\ total'.claimed = total.claimed
        /\ total'.lastDay = total.lastDay
    <3>1. PICK t \in TotalRow : t = total
      BY <1>2
    <3>2. total' = [t EXCEPT !.in = t.in + amount, !.current = t.current + amount]
      BY <2>5, <3>1
    <3>3. /\ total'.current = t.current + amount /\ total'.in = t.in + amount
          /\ total'.out = t.out /\ total'.rewards = t.rewards /\ total'.claimed = t.claimed
          /\ total'.lastDay = t.lastDay
      BY <3>2 DEF TotalRow
    <3>4. total' = [in |-> t.in + amount, out |-> t.out, current |-> t.current + amount,
                    rewards |-> t.rewards, claimed |-> t.claimed, lastDay |-> t.lastDay]
      BY <3>2 DEF TotalRow
    <3>5. total' \in TotalRow
      BY <3>4 DEF TotalRow
    <3> QED BY <3>1, <3>3, <3>5
  <2>7. taken'[s] = amount
    BY <1>2, <1>4
  <2>8. \A i \in DOMAIN history : i \in DOMAIN history' /\ history'[i] = history[i]
    BY <2>5 DEF HistoryRow
  <2>9. \A i \in DOMAIN history' \ DOMAIN history :
          i = id /\ history'[i] = [reward |-> 0, checkpointed |-> FALSE]
    BY <2>5 DEF HistoryRow
  <2>10. ASSUME NEW q \in Stakers PROVE Total(RewardsIn', Ended(q)') = Total(RewardsIn, Ended(q))
    <3>1. Others(q, id)
      BY <2>5 DEF Others
    <3>2. id \in DOMAIN history => history[id].checkpointed = FALSE
      <4>1. id \in DOMAIN history => ~ history[id].checkpointed
        BY <1>1, <1>2, <1>3 DEF EpochsHaveRows
      <4>2. id \in DOMAIN history => history[id].checkpointed \in BOOLEAN
        BY <1>1 DEF SquidTyped
      <4> HIDE DEF id
      <4> QED BY <4>1, <4>2, Zenon
    <3>3. id \in DOMAIN history' => history'[id].checkpointed = FALSE
      BY <2>5, <3>2 DEF HistoryRow
    <3>4. IsFiniteSet(EpochsOf(q))
      BY <1>1 DEF SquidTyped
    <3> HIDE DEF id
    <3>5. id \notin Ended(q) /\ id \notin Ended(q)'
      BY <3>2, <3>3, Zenon DEF Ended, EpochsOf
    <3> QED BY <1>2, <3>1, <3>4, <3>5, EndedSame
  <2>11. \A q \in Stakers : service[q] # None => service'[q] # None
    BY <2>2
  <2>12. \A q \in Stakers : q # s \/ ~ Ours(p) =>
           /\ (service'[q] = None) <=> (service[q] = None)
           /\ service[q] # None => SameRow(service'[q], service[q])
    BY <1>4, <2>2
  <2>13. Ours(p) => /\ service'[s] # None /\ service'[s].latest = p
                    /\ Contracts[p].olas => service'[s].olas
    BY <2>2
  <2> HIDE DEF id
  <2>14. \A i \in DOMAIN history' \ DOMAIN history :
           i = <<s, p, epoch[p]>> /\ Ours(p) /\ history'[i] = [reward |-> 0, checkpointed |-> FALSE]
    BY <1>4, <2>9 DEF id
  <2> QED BY <2>12, <2>13, <2>14, <2>2, <2>4, <2>5, <2>6, <2>7, <2>8, <2>10, <2>11
<1>5. CASE ~ Ours(p)
  <2>1. UNCHANGED squidVars
    BY <1>5 DEF ServiceStaked, Skip
  <2>2. /\ known' = known /\ service' = service /\ history' = history /\ total' = total
        /\ snapshot' = snapshot /\ updates' = updates
    BY <2>1 DEF squidVars
  <2>3. taken'[s] = 0 /\ taken' = taken
    BY <1>2, <1>5
  <2>4. \A q \in Stakers : EpochsOf(q)' = EpochsOf(q)
    BY <2>2 DEF EpochsOf
  <2>5. RewardsIn' = RewardsIn /\ \A q \in Stakers : Ended(q)' = Ended(q)
    BY <1>2, <2>2, <2>4 DEF RewardsIn, Ended
  <2>6. \A q \in Stakers : /\ HeldBy(service)[q] = taken[q] /\ LockedBy(service)[q] = taken[q]
                           /\ IsFiniteSet(EpochsOf(q))
                           /\ EpochsBy(service)[q] = Cardinality(EpochsOf(q))
    BY <1>1 DEF StakesHaveRows, SquidTyped, RewardsKept, Balanced
  <2>7. total.current \in Nat /\ total.in \in Nat
    BY <1>2 DEF TotalRow
  <2>8. \A q \in Stakers : /\ IsFiniteSet(EpochsOf(q)')
                           /\ EpochsBy(service')[q] = Cardinality(EpochsOf(q)')
                           /\ Total(RewardsIn', Ended(q)') = Total(RewardsIn, Ended(q))
    BY <2>2, <2>4, <2>5, <2>6
  <2>9. \A q \in Stakers : /\ (service'[q] = None) <=> (service[q] = None)
                           /\ service[q] # None => SameRow(service'[q], service[q])
    BY <2>2 DEF SameRow
  <2> QED BY <1>2, <1>3, <1>5, <2>2, <2>3, <2>6, <2>7, <2>8, <2>9
<1> QED BY <1>4, <1>5

\* The contracts never change, so that what follows them does not either.
LEMMA Followed ==
  ASSUME ContractsTyped, Contracts' = Contracts, known' = known
  PROVE  /\ Proxies' = Proxies
         /\ \A p \in Proxies : /\ Ours(p)' <=> Ours(p)
                               /\ Pays(p)' <=> Pays(p)
BY Zenon DEF Proxies, Ours, Pays

LEMMA StakedContracts ==
  ASSUME StakingInv, NEW s \in Stakers, NEW p \in created, NEW amount \in Nat,
         NEW d \in StakeDays, ServiceStaked(s, p, amount, d)
  PROVE  ContractsTyped'
<1>1. ContractsTyped
  BY DEF StakingInv
<1>2. /\ Contracts' = Contracts /\ created' = created /\ pending' = pending /\ epoch' = epoch
      /\ forfeited' = forfeited /\ stakeDay' = d /\ stakedIn' = [stakedIn EXCEPT ![s] = p]
      /\ taken' = [taken EXCEPT ![s] = IF Ours(p) THEN amount ELSE 0]
      /\ since' = [since EXCEPT ![s][p] = IF @ = 0 \/ left[s][p] THEN epoch[p] ELSE @]
      /\ left' = [left EXCEPT ![s] = [q \in Proxies |-> IF q = p THEN FALSE
                                                        ELSE left[s][q] \/ Ours(p)]]
      /\ known' = known /\ stakedIn[s] = None
  BY StakedEffect DEF ServiceStaked, AtDay
<1>3. Proxies' = Proxies /\ p \in Proxies /\ epoch[p] \in Nat /\ p # None
  <2>1. p \in Proxies
    BY <1>1 DEF ContractsTyped
  <2> QED BY <1>1, <1>2, <2>1, StateFacts DEF Proxies, StakingInv
<1>4. /\ Contracts' \in Deployments /\ created' \subseteq Proxies' /\ known' = created'
      /\ pending' \in [Stakers -> Nat] /\ epoch' \in [Proxies' -> AllEpochs] /\ stakeDay' \in StakeDays
      /\ forfeited' \in [Stakers -> Nat]
  BY <1>1, <1>2, <1>3 DEF ContractsTyped
<1>5. /\ stakedIn' \in [Stakers -> Proxies' \cup {None}]
      /\ taken' \in [Stakers -> Nat]
  BY <1>1, <1>2, <1>3 DEF ContractsTyped
<1>6. since' \in [Stakers -> [Proxies' -> Nat]]
      /\ \A q \in Stakers : \A x \in Proxies : (q # s \/ x # p) => since'[q][x] = since[q][x]
  <2>1. PICK n \in Nat : n = (IF since[s][p] = 0 \/ left[s][p] THEN epoch[p] ELSE since[s][p])
    BY <1>1, <1>3 DEF ContractsTyped
  <2>2. since \in [Stakers -> [Proxies -> Nat]]
    BY <1>1 DEF ContractsTyped
  <2>3. since' = [since EXCEPT ![s][p] = n]
    BY <1>2, <2>1
  <2> QED BY <1>3, <2>2, <2>3
<1>7. left' \in [Stakers -> [Proxies' -> BOOLEAN]]
  <2>1. PICK row \in [Proxies -> BOOLEAN] :
          row = [q \in Proxies |-> IF q = p THEN FALSE ELSE left[s][q] \/ Ours(p)]
    <3>1. [q \in Proxies |-> IF q = p THEN FALSE ELSE left[s][q] \/ Ours(p)] \in [Proxies -> BOOLEAN]
      BY Zenon
    <3> QED BY <3>1
  <2>2. left \in [Stakers -> [Proxies -> BOOLEAN]] /\ left' = [left EXCEPT ![s] = row]
    BY <1>1, <1>2, <2>1 DEF ContractsTyped
  <2> QED BY <1>3, <2>2
<1>8. \A q \in Stakers : /\ stakedIn'[q] # None => stakedIn'[q] \in created'
                         /\ stakedIn'[q] = None => pending'[q] = 0
  BY <1>1, <1>2, <1>3 DEF ContractsTyped
<1>9. \A q \in Stakers : \A x \in Proxies' : since'[q][x] # 0 => x \in created'
  BY <1>1, <1>2, <1>3, <1>6 DEF ContractsTyped
<1> QED BY <1>4, <1>5, <1>6, <1>7, <1>8, <1>9 DEF ContractsTyped

LEMMA StakedSquid ==
  ASSUME StakingInv, NEW s \in Stakers, NEW p \in created, NEW amount \in Nat,
         NEW d \in StakeDays, ServiceStaked(s, p, amount, d)
  PROVE  SquidTyped' /\ StakesHaveRows' /\ EpochsHaveRows' /\ RewardsKept' /\ TotalsKept'
<1>1. /\ ContractsTyped /\ SquidTyped /\ StakesHaveRows /\ EpochsHaveRows /\ RewardsKept
      /\ TotalsKept
  BY DEF StakingInv
<1>2. /\ Contracts' = Contracts /\ created' = created /\ pending' = pending /\ epoch' = epoch
      /\ forfeited' = forfeited /\ stakedIn' = [stakedIn EXCEPT ![s] = p]
      /\ taken' = [taken EXCEPT ![s] = IF Ours(p) THEN amount ELSE 0]
      /\ known' = known /\ stakedIn[s] = None
  BY StakedEffect DEF ServiceStaked, AtDay
<1>3. p \in Proxies
  BY <1>1 DEF ContractsTyped
<1>4. /\ p # None /\ epoch[p] \in AllEpochs /\ epoch[p] \in Nat
      /\ None \notin ServiceRow(Proxies) /\ service \in RowTable
  BY <1>1, <1>3, StateFacts
<1>5. /\ Proxies' = Proxies
      /\ \A q \in Proxies : (Ours(q)' <=> Ours(q)) /\ (Pays(q)' <=> Pays(q))
  BY <1>1, <1>2, Followed
<1>6. /\ snapshot' = snapshot /\ updates' = updates
      /\ service' \in RowTable
      /\ EarnedBy(service') = EarnedBy(service) /\ ClaimedBy(service') = ClaimedBy(service)
      /\ \A q \in Stakers : HeldBy(service')[q] = taken'[q] /\ LockedBy(service')[q] = taken'[q]
      /\ \A q \in Stakers : /\ IsFiniteSet(EpochsOf(q)')
                            /\ EpochsBy(service')[q] = Cardinality(EpochsOf(q)')
                            /\ Total(RewardsIn', Ended(q)') = Total(RewardsIn, Ended(q))
      /\ \A q \in Stakers : service[q] # None => service'[q] # None
      /\ total' \in TotalRow /\ total'.current = total.current + taken'[s]
      /\ total'.in = total.in + taken'[s] /\ total'.out = total.out
      /\ total'.rewards = total.rewards /\ total'.claimed = total.claimed
  BY StakedEffect
<1>7. /\ \A id \in DOMAIN history : id \in DOMAIN history' /\ history'[id] = history[id]
      /\ \A id \in DOMAIN history' \ DOMAIN history :
           id = <<s, p, epoch[p]>> /\ history'[id] = [reward |-> 0, checkpointed |-> FALSE]
  BY StakedEffect
<1>8. SquidTyped'
  <2>1. active' \in [Proxies -> [AllEpochs -> {None} \cup SUBSET Stakers]]
    <3>1. active \in [Proxies -> [AllEpochs -> {None} \cup SUBSET Stakers]]
      BY <1>1 DEF SquidTyped
    <3>2. CASE Ours(p)
      <4>1. PICK T \in SUBSET Stakers :
              T = (IF active[p][epoch[p]] = None THEN {} ELSE active[p][epoch[p]]) \cup {s}
        BY <1>3, <1>4, <3>1
      <4>2. active' = [active EXCEPT ![p][epoch[p]] = T]
        BY <3>2, <4>1 DEF ServiceStaked, SquidStaked
      <4> QED BY <1>3, <1>4, <3>1, <4>2
    <3>3. CASE ~ Ours(p)
      BY <3>1, <3>3 DEF ServiceStaked, Skip, squidVars
    <3> QED BY <3>2, <3>3
  <2>2. DOMAIN history' \subseteq Stakers \X Proxies \X AllEpochs
    BY <1>1, <1>3, <1>4, <1>7 DEF SquidTyped
  <2>3. \A id \in DOMAIN history' : history'[id] \in [reward : Nat, checkpointed : BOOLEAN]
    <3>1. [reward |-> 0, checkpointed |-> FALSE] \in [reward : Nat, checkpointed : BOOLEAN]
      OBVIOUS
    <3> QED BY <1>1, <1>7, <3>1 DEF SquidTyped
  <2>4. DOMAIN snapshot' \subseteq StakeDays /\ \A x \in DOMAIN snapshot' : Shaped(snapshot'[x])
    BY <1>1, <1>6 DEF SquidTyped
  <2>5. service' \in [Stakers -> {None} \cup ServiceRow(Proxies)]
    BY <1>6 DEF RowTable
  <2>6. \A q \in Stakers : IsFiniteSet(EpochsOf(q)')
    BY <1>6
  <2> QED BY <1>5, <1>6, <2>1, <2>2, <2>3, <2>4, <2>5, <2>6 DEF SquidTyped, Shaped
<1>9. StakesHaveRows'
  <2> SUFFICES ASSUME NEW q \in Stakers
               PROVE  /\ stakedIn'[q] # None /\ Ours(stakedIn[q])' => service'[q] # None
                      /\ stakedIn'[q] = None => taken'[q] = 0
                      /\ stakedIn'[q] # None /\ ~ Ours(stakedIn[q])' => taken'[q] = 0
                      /\ service'[q] = None => forfeited'[q] = 0
                      /\ HeldBy(service')[q] = taken'[q] /\ LockedBy(service')[q] = taken'[q]
    BY DEF StakesHaveRows
  <2>1. stakedIn \in [Stakers -> Proxies \cup {None}] /\ stakedIn'[q] = (IF q = s THEN p ELSE stakedIn[q])
    BY <1>1, <1>2 DEF ContractsTyped
  <2>2. HeldBy(service')[q] = taken'[q] /\ LockedBy(service')[q] = taken'[q]
    BY <1>6
  <2>3. /\ stakedIn[q] # None /\ Ours(stakedIn[q]) => service[q] # None
        /\ stakedIn[q] = None => taken[q] = 0
        /\ stakedIn[q] # None /\ ~ Ours(stakedIn[q]) => taken[q] = 0
        /\ service[q] = None => forfeited[q] = 0
    BY <1>1 DEF StakesHaveRows
  <2>4. service'[q] = None => forfeited'[q] = 0
    BY <1>2, <1>6, <2>3
  <2>5. CASE q = s
    <3>1. stakedIn'[q] = p /\ (Ours(stakedIn[q])' <=> Ours(p))
      BY <1>2, <2>1, <2>5 DEF Ours
    <3>2. Ours(p) => service'[q] # None
      BY <2>5, StakedEffect
    <3>3. ~ Ours(p) => taken'[q] = 0
      BY <1>1, <1>2, <2>5 DEF ContractsTyped
    <3> QED BY <1>4, <2>2, <2>4, <3>1, <3>2, <3>3
  <2>6. CASE q # s
    <3>1. stakedIn'[q] = stakedIn[q] /\ taken'[q] = taken[q] /\ (Ours(stakedIn[q])' <=> Ours(stakedIn[q]))
      BY <1>1, <1>2, <2>1, <2>6 DEF Ours, ContractsTyped
    <3> QED BY <1>6, <2>2, <2>3, <2>4, <3>1
  <2> QED BY <2>5, <2>6
<1>10. EpochsHaveRows'
  <2>1. ASSUME NEW x \in Proxies, NEW e \in AllEpochs, active'[x][e] # None, NEW q \in active'[x][e]
        PROVE  service'[q] # None
    <3>1. /\ active \in [Proxies -> [AllEpochs -> {None} \cup SUBSET Stakers]]
          /\ active[x][e] # None => \A r \in active[x][e] : service[r] # None
      BY <1>1 DEF SquidTyped, EpochsHaveRows
    <3>2. CASE Ours(p)
      <4>1. PICK T \in SUBSET Stakers :
              T = (IF active[p][epoch[p]] = None THEN {} ELSE active[p][epoch[p]]) \cup {s}
        BY <1>3, <1>4, <3>1
      <4>2. active' = [active EXCEPT ![p][epoch[p]] = T]
        BY <3>2, <4>1 DEF ServiceStaked, SquidStaked
      <4>3. service'[s] # None
        BY <3>2, StakedEffect
      <4>4. CASE x = p /\ e = epoch[p]
        <5>1. q \in T
          BY <1>3, <1>4, <2>1, <3>1, <4>2, <4>4
        <5>2. q = s \/ (active[x][e] # None /\ q \in active[x][e])
          BY <4>1, <4>4, <5>1
        <5>3. q \in Stakers
          BY <5>1
        <5> QED BY <1>6, <3>1, <4>3, <5>2, <5>3
      <4>5. CASE ~ (x = p /\ e = epoch[p])
        <5>1. active'[x][e] = active[x][e]
          BY <3>1, <4>2, <4>5
        <5>2. q \in Stakers /\ service[q] # None
          BY <2>1, <3>1, <5>1
        <5> QED BY <1>6, <5>2
      <4> QED BY <4>4, <4>5
    <3>3. CASE ~ Ours(p)
      <4>1. active' = active
        BY <3>3 DEF ServiceStaked, Skip, squidVars
      <4>2. q \in Stakers /\ service[q] # None
        BY <2>1, <3>1, <4>1
      <4> QED BY <1>6, <4>2
    <3> QED BY <3>2, <3>3
  <2>2. ASSUME NEW q \in Stakers, NEW x \in Proxies, NEW e \in AllEpochs, <<q, x, e>> \in DOMAIN history'
        PROVE  /\ service'[q] # None
               /\ history'[<<q, x, e>>].checkpointed => e < epoch'[x]
    <3>1. CASE <<q, x, e>> \in DOMAIN history
      <4>1. service[q] # None /\ (history[<<q, x, e>>].checkpointed => e < epoch[x])
        BY <1>1, <3>1 DEF EpochsHaveRows
      <4>2. history'[<<q, x, e>>] = history[<<q, x, e>>]
        BY <1>7, <3>1
      <4> QED BY <1>2, <1>6, <4>1, <4>2, Zenon
    <3>2. CASE <<q, x, e>> \notin DOMAIN history
      <4>1. /\ <<q, x, e>> = <<s, p, epoch[p]>> /\ Ours(p)
            /\ history'[<<q, x, e>>] = [reward |-> 0, checkpointed |-> FALSE]
        BY <2>2, <3>2, StakedEffect
      <4>2. q = s /\ service'[s] # None
        BY <4>1, StakedEffect
      <4>3. ~ history'[<<q, x, e>>].checkpointed
        BY <4>1
      <4> QED BY <4>2, <4>3, Zenon
    <3> QED BY <3>1, <3>2
  <2>3. \A x \in Proxies : \A e \in AllEpochs :
          active'[x][e] # None => \A q \in active'[x][e] : service'[q] # None
    BY <2>1
  <2>4. \A q \in Stakers : \A x \in Proxies : \A e \in AllEpochs :
          <<q, x, e>> \in DOMAIN history' =>
            /\ service'[q] # None
            /\ history'[<<q, x, e>>].checkpointed => e < epoch'[x]
    BY <2>2
  <2> QED BY <1>5, <2>3, <2>4, Zenon DEF EpochsHaveRows, AllEpochs, Epochs
<1>11. RewardsKept'
  <2> SUFFICES ASSUME NEW q \in Stakers PROVE Balanced(q)'
    BY DEF RewardsKept
  <2>1. Balanced(q)
    BY <1>1 DEF RewardsKept
  <2>2. Due(q)' = Due(q)
    <3>1. CASE q # s
      <4>1. stakedIn'[q] = stakedIn[q]
        BY <1>2, <3>1
      <4>2. Pays(stakedIn[q])' <=> Pays(stakedIn[q])
        BY <1>2, <4>1 DEF Pays, Ours
      <4> QED BY <1>2, <4>2 DEF Due
    <3>2. CASE q = s
      <4>1. Due(q) = 0
        BY <1>2, <3>2 DEF Due, Pays
      <4>2. pending'[q] = 0
        BY <1>1, <1>2, <3>2 DEF ContractsTyped
      <4>3. Due(q)' = 0
        BY <4>2 DEF Due
      <4> QED BY <4>1, <4>3
    <3> QED BY <3>1, <3>2
  <2> QED BY <1>2, <1>6, <2>1, <2>2 DEF Balanced
<1>12. TotalsKept'
  <2>1. taken \in [Stakers -> Nat] /\ taken[s] = 0 /\ IsFiniteSet(Stakers)
    BY <1>1, <1>2, ConstantFacts DEF ContractsTyped, StakesHaveRows
  <2>2. taken' \in [Stakers -> Nat] /\ \A q \in Stakers \ {s} : taken'[q] = taken[q]
    BY <1>2, <2>1
  <2>3. Total(taken', Stakers) = Total(taken, Stakers) + (taken'[s] - taken[s])
    BY <2>1, <2>2, SumChange
  <2>4. total.current = Total(taken, Stakers) /\ total.current = total.in - total.out
    BY <1>1 DEF TotalsKept
  <2>5. total \in TotalRow
    BY <1>1 DEF SquidTyped
  <2>6. total.current \in Nat /\ total.in \in Nat /\ total.out \in Nat /\ taken'[s] \in Nat
    BY <2>2, <2>5 DEF TotalRow
  <2>7. total'.current = Total(taken', Stakers) /\ total'.current = total'.in - total'.out
    BY <1>6, <2>1, <2>3, <2>4, <2>6
  <2>8. /\ total'.rewards = Total(EarnedBy(service'), Stakers)
        /\ total'.claimed = Total(ClaimedBy(service'), Stakers)
        /\ updates' = [claimable |-> total'.rewards, claimed |-> total'.claimed]
    BY <1>1, <1>6 DEF TotalsKept
  <2> QED BY <2>7, <2>8 DEF TotalsKept
<1> QED BY <1>8, <1>9, <1>10, <1>11, <1>12

LEMMA StakedTimeline ==
  ASSUME StakingInv, NEW s \in Stakers, NEW p \in created, NEW amount \in Nat,
         NEW d \in StakeDays, ServiceStaked(s, p, amount, d)
  PROVE  TimelineContinuous' /\ TimelineGoesOn'
<1>1. /\ ContractsTyped /\ SquidTyped /\ TimelineContinuous /\ TimelineGoesOn /\ StakesHaveRows
  BY DEF StakingInv
<1>2. /\ Contracts' = Contracts /\ epoch' = epoch /\ known' = known /\ p \in Proxies
      /\ since' = [since EXCEPT ![s][p] = IF @ = 0 \/ left[s][p] THEN epoch[p] ELSE @]
      /\ left' = [left EXCEPT ![s] = [q \in Proxies |-> IF q = p THEN FALSE
                                                        ELSE left[s][q] \/ Ours(p)]]
      /\ epoch[p] \in AllEpochs /\ epoch[p] \in Nat
  BY <1>1, StakedEffect, StateFacts DEF ServiceStaked, ContractsTyped
<1>3. /\ Proxies' = Proxies
      /\ \A q \in Proxies : Ours(q)' <=> Ours(q)
  BY <1>1, <1>2, Followed
<1>4. \A id \in DOMAIN history : id \in DOMAIN history' /\ history'[id] = history[id]
  BY StakedEffect
<1>5. /\ since \in [Stakers -> [Proxies -> Nat]] /\ left \in [Stakers -> [Proxies -> BOOLEAN]]
      /\ active \in [Proxies -> [AllEpochs -> {None} \cup SUBSET Stakers]]
      /\ epoch \in [Proxies -> AllEpochs]
  BY <1>1 DEF ContractsTyped, SquidTyped
<1>6. ASSUME NEW q \in Stakers, NEW x \in Proxies, Ours(x), since'[q][x] # 0, ~ left'[q][x]
      PROVE  /\ \A e \in since'[q][x] .. epoch'[x] - 1 :
                  <<q, x, e>> \in DOMAIN history' /\ history'[<<q, x, e>>].checkpointed
             /\ active'[x][epoch'[x]] # None /\ q \in active'[x][epoch'[x]]
             /\ service'[q].latest \in {None, x}
  <2>1. CASE q = s /\ x = p
    <3>1. since'[q][x] = epoch[p] \/ (since'[q][x] = since[s][p] /\ since[s][p] # 0 /\ ~ left[s][p])
      BY <1>2, <1>5, <2>1
    <3>2. \A e \in since'[q][x] .. epoch'[x] - 1 :
            <<q, x, e>> \in DOMAIN history' /\ history'[<<q, x, e>>].checkpointed
      <4>1. CASE since'[q][x] = epoch[p]
        BY <1>2, <2>1, <4>1
      <4>2. CASE since'[q][x] = since[s][p] /\ since[s][p] # 0 /\ ~ left[s][p]
        <5>1. \A e \in since[s][p] .. epoch[p] - 1 :
                <<s, p, e>> \in DOMAIN history /\ history[<<s, p, e>>].checkpointed
          BY <1>1, <1>2, <1>6, <2>1, <4>2, Zenon DEF TimelineContinuous
        <5> QED BY <1>2, <1>4, <2>1, <4>2, <5>1, Zenon
      <4> QED BY <3>1, <4>1, <4>2
    <3>3. service'[q].latest \in {None, x}
      BY <1>6, <2>1, StakedEffect
    <3>4. active'[x][epoch'[x]] # None /\ q \in active'[x][epoch'[x]]
      <4>1. PICK T \in SUBSET Stakers :
              T = (IF active[p][epoch[p]] = None THEN {} ELSE active[p][epoch[p]]) \cup {s}
        BY <1>2, <1>5
      <4>2. active' = [active EXCEPT ![p][epoch[p]] = T]
        BY <1>6, <2>1, <4>1 DEF ServiceStaked, SquidStaked
      <4>3. active'[p][epoch[p]] = T /\ s \in T /\ T # None
        BY <1>2, <1>5, <4>1, <4>2, ConstantFacts
      <4> QED BY <1>2, <2>1, <4>3
    <3> QED BY <3>2, <3>3, <3>4
  <2>2. CASE ~ (q = s /\ x = p)
    <3>1. since'[q][x] = since[q][x]
      <4>1. PICK n : n = (IF since[s][p] = 0 \/ left[s][p] THEN epoch[p] ELSE since[s][p])
        OBVIOUS
      <4>2. since' = [since EXCEPT ![s][p] = n]
        BY <1>2, <4>1
      <4> QED BY <1>5, <2>2, <4>2
    <3>2. ~ left[q][x] /\ ~ (q = s /\ Ours(p))
      <4>1. CASE q # s
        BY <1>2, <1>5, <1>6, <4>1
      <4>2. CASE q = s
        <5>1. left'[q][x] <=> left[s][x] \/ Ours(p)
          <6>1. PICK row : row = [r \in Proxies |-> IF r = p THEN FALSE ELSE left[s][r] \/ Ours(p)]
            OBVIOUS
          <6>2. left' = [left EXCEPT ![s] = row]
            BY <1>2, <6>1
          <6>3. left'[s] = row
            BY <1>5, <6>2
          <6>4. row[x] <=> (left[s][x] \/ Ours(p))
            BY <2>2, <4>2, <6>1
          <6> QED BY <4>2, <6>3, <6>4
        <5> QED BY <1>6, <4>2, <5>1
      <4> QED BY <4>1, <4>2
    <3>3. /\ \A e \in since[q][x] .. epoch[x] - 1 :
               <<q, x, e>> \in DOMAIN history /\ history[<<q, x, e>>].checkpointed
          /\ active[x][epoch[x]] # None /\ q \in active[x][epoch[x]]
          /\ service[q].latest \in {None, x}
      BY <1>1, <1>6, <3>1, <3>2, Zenon DEF TimelineContinuous, TimelineGoesOn
    <3>4. service[q] # None
      BY <1>1, <1>5, <3>3 DEF EpochsHaveRows, StakingInv
    <3>5. service'[q].latest = service[q].latest
      <4>1. q # s \/ ~ Ours(p)
        BY <3>2
      <4> QED BY <3>4, <4>1, StakedEffect DEF SameRow
    <3>6. active'[x][epoch[x]] # None /\ q \in active'[x][epoch[x]]
      <4>1. CASE Ours(p)
        <5>1. PICK T \in SUBSET Stakers :
                T = (IF active[p][epoch[p]] = None THEN {} ELSE active[p][epoch[p]]) \cup {s}
          BY <1>2, <1>5
        <5>2. active' = [active EXCEPT ![p][epoch[p]] = T]
          BY <4>1, <5>1 DEF ServiceStaked, SquidStaked
        <5>3. CASE x = p
          <6>1. active'[x][epoch[x]] = T
            BY <1>2, <1>5, <5>2, <5>3
          <6>2. q \in T /\ T # None
            BY <3>3, <5>1, <5>3, ConstantFacts
          <6> QED BY <6>1, <6>2
        <5>4. CASE x # p
          BY <1>5, <3>3, <5>2, <5>4
        <5> QED BY <5>3, <5>4
      <4>2. CASE ~ Ours(p)
        BY <3>3, <4>2 DEF ServiceStaked, Skip, squidVars
      <4> QED BY <4>1, <4>2
    <3>7. \A e \in since[q][x] .. epoch[x] - 1 :
            <<q, x, e>> \in DOMAIN history' /\ history'[<<q, x, e>>].checkpointed
      BY <1>4, <3>3, Zenon
    <3> QED BY <1>2, <3>1, <3>3, <3>5, <3>6, <3>7
  <2> QED BY <2>1, <2>2
<1>7. TimelineContinuous'
  BY <1>3, <1>6, Zenon DEF TimelineContinuous
<1>8. TimelineGoesOn'
  BY <1>3, <1>6, Zenon DEF TimelineGoesOn
<1> QED BY <1>7, <1>8

LEMMA StakedSubgraph ==
  ASSUME StakingInv, NEW s \in Stakers, NEW p \in created, NEW amount \in Nat,
         NEW d \in StakeDays, ServiceStaked(s, p, amount, d)
  PROVE  SnapshotsLast' /\ SubgraphTyped'
<1>1. ContractsTyped /\ SquidTyped /\ SnapshotsLast /\ SubgraphTyped
  BY DEF StakingInv
<1>2. /\ Contracts' = Contracts /\ counted' = counted
      /\ stakedIn' = [stakedIn EXCEPT ![s] = p] /\ stakedIn[s] = None
      /\ snapshot' = snapshot
      /\ total'.rewards = total.rewards /\ total'.claimed = total.claimed
      /\ total'.lastDay = total.lastDay
  BY StakedEffect DEF ServiceStaked
<1>3. /\ p \in Proxies /\ p # None /\ Contracts[p].deposit \in Nat /\ IsFiniteSet(Stakers)
      /\ Proxies' = Proxies
  BY <1>1, <1>2, StateFacts, ConstantFacts DEF ContractsTyped, Proxies
<1>4. SnapshotsLast'
  <2>1. AtDay(d)
    BY DEF ServiceStaked
  <2> QED BY <1>1, <1>2, <2>1, SnapshotsStay
<1>5. SubgraphTyped'
  <2>1. PICK n \in Nat : n = Contracts[p].deposit
    BY <1>3
  <2>2. sgService \in [Stakers -> {None} \cup SubgraphRow] /\ sgTotal \in SubgraphTotal
        /\ sgTotal.current = Total(Deposits, Stakers)
    BY <1>1 DEF SubgraphTyped
  <2>3. sgService' \in [Stakers -> {None} \cup SubgraphRow]
    <3>1. PICK old \in SubgraphRow : old = IF sgService[s] = None THEN [staked |-> 0, earned |-> 0]
                                           ELSE sgService[s]
      <4>1. [staked |-> 0, earned |-> 0] \in SubgraphRow
        BY DEF SubgraphRow
      <4> QED BY <2>2, <4>1
    <3>2. sgService' = [sgService EXCEPT ![s] = [old EXCEPT !.staked = old.staked + n]]
      BY <2>1, <3>1 DEF ServiceStaked, SubgraphStaked
    <3>3. [old EXCEPT !.staked = old.staked + n] \in SubgraphRow
      BY DEF SubgraphRow
    <3> QED BY <2>2, <3>2, <3>3
  <2>4. sgTotal' \in SubgraphTotal /\ sgTotal'.current = sgTotal.current + n
    <3>1. PICK t \in SubgraphTotal : t = sgTotal
      BY <2>2
    <3>2. sgTotal' = [t EXCEPT !.in = t.in + n, !.current = t.current + n]
      BY <2>1, <3>1 DEF ServiceStaked, SubgraphStaked
    <3>3. sgTotal' = [in |-> t.in + n, out |-> t.out, current |-> t.current + n,
                      rewards |-> t.rewards, lastDay |-> t.lastDay]
      BY <3>2 DEF SubgraphTotal
    <3> QED BY <3>1, <3>3 DEF SubgraphTotal
  <2>5. Total(Deposits', Stakers) = Total(Deposits, Stakers) + n
    <3>1. \A q \in Stakers : Deposits[q] \in Int /\ Deposits'[q] \in Int
      <4>1. \A x \in Proxies : Contracts[x].deposit \in Nat
        BY <1>1, StateFacts
      <4>2. \A q \in Stakers : /\ stakedIn[q] \in Proxies \cup {None}
                               /\ stakedIn'[q] \in Proxies \cup {None}
        BY <1>1, <1>2, <1>3 DEF ContractsTyped
      <4> QED BY <1>2, <4>1, <4>2 DEF Deposits
    <3>2. \A q \in Stakers \ {s} : Deposits[q] = Deposits'[q]
      BY <1>1, <1>2 DEF Deposits, ContractsTyped
    <3>3. Deposits[s] = 0 /\ Deposits'[s] = n
      BY <1>1, <1>2, <1>3, <2>1 DEF Deposits, ContractsTyped
    <3>4. Total(Deposits', Stakers) = Total(Deposits, Stakers) + (Deposits'[s] - Deposits[s])
      BY <1>3, <3>1, <3>2, SumChange
    <3>5. Total(Deposits, Stakers) \in Int
      BY <1>3, <3>1, SumTyped
    <3> QED BY <3>3, <3>4, <3>5
  <2> QED BY <2>2, <2>3, <2>4, <2>5 DEF SubgraphTyped, SubgraphTotal
<1> QED BY <1>4, <1>5

LEMMA StakedAgrees ==
  ASSUME StakingInv, AgreeInv, NEW s \in Stakers, NEW p \in created, NEW more \in {0, 1},
         NEW d \in StakeDays, ServiceStaked(s, p, Locked(p, more), d)
  PROVE  AgreeInv'
<1>1. ContractsTyped /\ SquidTyped /\ SubgraphTyped /\ StakesHaveRows
  BY DEF StakingInv
<1>2. /\ Contracts' = Contracts /\ Proxies' = Proxies /\ p \in Proxies /\ p # None
      /\ Locked(p, more) \in Nat /\ stakedIn[s] = None
      /\ stakedIn' = [stakedIn EXCEPT ![s] = p]
      /\ taken' = [taken EXCEPT ![s] = IF Ours(p) THEN Locked(p, more) ELSE 0]
      /\ Contracts[p].deposit \in Nat
  BY <1>1, LockedTyped, StateFacts DEF ServiceStaked, ContractsTyped, Proxies
<1>3. SUFFICES ASSUME Alike
               PROVE  /\ Same' /\ total'.in >= sgTotal'.in
                      /\ total'.in = sgTotal'.in => SameStakes'
  BY <1>2, Zenon DEF AgreeInv, Alike
<1>4. /\ Same /\ total.in >= sgTotal.in
      /\ total.in = sgTotal.in => SameStakes
  BY <1>3 DEF AgreeInv
<1>5. Ours(p) /\ Contracts[p].olas
  BY <1>1, <1>2, <1>3 DEF Ours, Alike, ContractsTyped
<1>6. PICK n \in Nat : n = Contracts[p].deposit
  BY <1>2
<1>7. Locked(p, more) = n + more /\ more \in Nat
  BY <1>5, <1>6 DEF Locked
<1>8. taken'[s] = n + more /\ \A q \in Stakers \ {s} : taken'[q] = taken[q]
  BY <1>1, <1>2, <1>5, <1>7 DEF ContractsTyped
<1>9. /\ total'.in = total.in + (n + more)
      /\ total'.rewards = total.rewards /\ total'.lastDay = total.lastDay
      /\ snapshot' = snapshot /\ EarnedBy(service') = EarnedBy(service)
      /\ service'[s] # None /\ service'[s].olas
      /\ \A q \in Stakers \ {s} : /\ (service'[q] = None) <=> (service[q] = None)
                                  /\ service[q] # None => SameRow(service'[q], service[q])
  <2>1. /\ total'.in = total.in + taken'[s]
        /\ total'.rewards = total.rewards /\ total'.lastDay = total.lastDay
        /\ snapshot' = snapshot /\ EarnedBy(service') = EarnedBy(service)
    BY <1>2, StakedEffect
  <2>2. /\ service'[s] # None /\ service'[s].olas
        /\ \A q \in Stakers \ {s} : /\ (service'[q] = None) <=> (service[q] = None)
                                    /\ service[q] # None => SameRow(service'[q], service[q])
    BY <1>2, <1>5, StakedEffect, Zenon
  <2> QED BY <1>8, <2>1, <2>2
<1>10. sgTotal \in SubgraphTotal /\ sgService \in [Stakers -> {None} \cup SubgraphRow]
  BY <1>1 DEF SubgraphTyped
<1>11. /\ sgTotal'.in = sgTotal.in + n /\ sgTotal'.rewards = sgTotal.rewards
       /\ sgTotal'.lastDay = sgTotal.lastDay /\ sgSnapshot' = sgSnapshot
  <2>1. PICK t \in SubgraphTotal : t = sgTotal
    BY <1>10
  <2>2. sgTotal' = [t EXCEPT !.in = t.in + n, !.current = t.current + n] /\ sgSnapshot' = sgSnapshot
    BY <1>6, <2>1 DEF ServiceStaked, SubgraphStaked
  <2>3. sgTotal'.in = t.in + n /\ sgTotal'.rewards = t.rewards /\ sgTotal'.lastDay = t.lastDay
    BY <2>2 DEF SubgraphTotal
  <2> QED BY <2>1, <2>2, <2>3
<1>12. /\ sgService'[s] # None
       /\ sgService'[s].earned = IF sgService[s] = None THEN 0 ELSE sgService[s].earned
       /\ \A q \in Stakers \ {s} : sgService'[q] = sgService[q]
  <2>1. PICK old \in SubgraphRow : old = IF sgService[s] = None THEN [staked |-> 0, earned |-> 0]
                                         ELSE sgService[s]
    <3>1. [staked |-> 0, earned |-> 0] \in SubgraphRow
      BY DEF SubgraphRow
    <3> QED BY <1>10, <3>1
  <2>2. sgService' = [sgService EXCEPT ![s] = [old EXCEPT !.staked = old.staked + n]]
    BY <1>6, <2>1 DEF ServiceStaked, SubgraphStaked
  <2>3. PICK new : new = [old EXCEPT !.staked = old.staked + n]
    OBVIOUS
  <2>4. new \in SubgraphRow /\ new.earned = old.earned
    BY <2>3 DEF SubgraphRow
  <2>5. sgService'[s] = new /\ \A q \in Stakers \ {s} : sgService'[q] = sgService[q]
    BY <1>10, <2>2, <2>3
  <2>6. old.earned = IF sgService[s] = None THEN 0 ELSE sgService[s].earned
    BY <2>1
  <2> QED BY <2>4, <2>5, <2>6, ConstantFacts
<1>13. Same'
  <2>1. /\ total.rewards = sgTotal.rewards /\ total.lastDay = sgTotal.lastDay
        /\ \A q \in Stakers : (service[q] = None) <=> (sgService[q] = None)
        /\ \A q \in Stakers : service[q] # None => service[q].earned = sgService[q].earned
        /\ \A q \in Stakers : service[q] # None => service[q].olas
        /\ DOMAIN sgSnapshot \subseteq DOMAIN snapshot
        /\ \A x \in DOMAIN sgSnapshot : /\ snapshot[x].services = sgSnapshot[x].services
                                        /\ snapshot[x].median = sgSnapshot[x].median
    BY <1>4 DEF Same
  <2>2. ASSUME NEW q \in Stakers
        PROVE  /\ (service'[q] = None) <=> (sgService'[q] = None)
               /\ service'[q] # None => service'[q].earned = sgService'[q].earned /\ service'[q].olas
    <3>1. CASE q = s
      <4>1. service'[q].earned = EarnedBy(service)[q]
        BY <1>9, <3>1 DEF EarnedBy
      <4>2. sgService'[q].earned = EarnedBy(service)[q]
        BY <1>12, <2>1, <3>1 DEF EarnedBy
      <4> QED BY <1>9, <1>12, <3>1, <4>1, <4>2
    <3>2. CASE q # s
      <4>1. sgService'[q] = sgService[q]
        BY <1>12, <3>2
      <4>2. (service'[q] = None) <=> (service[q] = None)
        BY <1>9, <3>2
      <4>3. service[q] # None => service'[q].earned = service[q].earned /\ service'[q].olas
        BY <1>9, <2>1, <3>2 DEF SameRow
      <4> QED BY <2>1, <4>1, <4>2, <4>3
    <3> QED BY <3>1, <3>2
  <2> QED BY <1>9, <1>11, <2>1, <2>2 DEF Same
<1>14. total'.in >= sgTotal'.in /\ (total'.in = sgTotal'.in => SameStakes')
  <2>1. total.in \in Nat /\ sgTotal.in \in Nat
    BY <1>1, <1>10 DEF SquidTyped, TotalRow, SubgraphTotal
  <2>2. total'.in >= sgTotal'.in
    BY <1>4, <1>7, <1>9, <1>11, <2>1
  <2>3. ASSUME total'.in = sgTotal'.in PROVE SameStakes'
    <3>1. more = 0 /\ total.in = sgTotal.in
      BY <1>4, <1>7, <1>9, <1>11, <2>1, <2>3
    <3>2. \A q \in Stakers : taken[q] = Deposits[q]
      BY <1>4, <3>1 DEF SameStakes
    <3>3. Deposits'[s] = n /\ \A q \in Stakers \ {s} : Deposits'[q] = Deposits[q]
      BY <1>1, <1>2, <1>6 DEF Deposits, ContractsTyped
    <3>4. taken'[s] = n
      BY <1>8, <3>1
    <3> QED BY <1>8, <3>2, <3>3, <3>4 DEF SameStakes
  <2> QED BY <2>2, <2>3
<1> QED BY <1>13, <1>14

-----------------------------------------------------------------------------
(* handleCheckpoint. *)

\* The services an epoch is closed for: those with a reward and those that go on without.
Closed(p, rewarded) ==
  rewarded \cup (IF active[p][epoch[p]] = None THEN {} ELSE Timeline(p, epoch[p], rewarded))
ClosedIds(p, rewarded) == {<<s, p, epoch[p]>> : s \in Closed(p, rewarded)}
RewardedRows(p, rewarded) ==
  [s \in Stakers |-> IF s \in rewarded /\ Contracts[p].olas
                     THEN [service[s] EXCEPT !.earned = @ + Reward] ELSE service[s]]
PaidTo(p, rewarded) == IF Pays(p) THEN rewarded ELSE {}
StakedAt(p) == {s \in Stakers : stakedIn[s] = p}

LEMMA ClosedHaveRows ==
  ASSUME ContractsTyped, SquidTyped, StakesHaveRows, EpochsHaveRows,
         NEW p \in created, NEW rewarded \in SUBSET StakedAt(p), Ours(p)
  PROVE  \A s \in Closed(p, rewarded) : s \in Stakers /\ service[s] # None
<1>1. p \in Proxies
  BY DEF ContractsTyped
<1>2. p # None /\ epoch[p] \in AllEpochs
  BY <1>1, StateFacts
<1>3. \A s \in rewarded : s \in Stakers /\ service[s] # None
  BY <1>2 DEF StakesHaveRows, StakedAt
<1>4. ASSUME active[p][epoch[p]] # None, NEW s \in active[p][epoch[p]]
      PROVE  s \in Stakers /\ service[s] # None
  <2>1. active[p][epoch[p]] \in SUBSET Stakers
    BY <1>1, <1>2, <1>4 DEF SquidTyped
  <2> QED BY <1>1, <1>2, <1>4, <2>1 DEF EpochsHaveRows
<1> QED BY <1>3, <1>4 DEF Closed, Timeline

LEMMA RewardedRowsAre ==
  ASSUME ContractsTyped, SquidTyped, StakesHaveRows, NEW p \in created,
         NEW rewarded \in SUBSET StakedAt(p), Ours(p), NEW staged, staged = RewardedRows(p, rewarded)
  PROVE  /\ staged \in RowTable
         /\ \A s \in Stakers : EarnedBy(staged)[s] = IF s \in PaidTo(p, rewarded)
                                                   THEN EarnedBy(service)[s] + Reward
                                                   ELSE EarnedBy(service)[s]
         /\ ClaimedBy(staged) = ClaimedBy(service) /\ EpochsBy(staged) = EpochsBy(service)
         /\ HeldBy(staged) = HeldBy(service) /\ LockedBy(staged) = LockedBy(service)
         /\ \A s \in Stakers : /\ (staged[s] = None) <=> (service[s] = None)
                               /\ service[s] # None => /\ staged[s].latest = service[s].latest
                                                       /\ staged[s].olas = service[s].olas
<1>1. p \in Proxies
  BY DEF ContractsTyped
<1>2. /\ p # None /\ service \in RowTable /\ None \notin ServiceRow(Proxies)
      /\ Contracts[p].olas \in BOOLEAN
  BY <1>1, StateFacts
<1>3. \A s \in rewarded : s \in Stakers /\ service[s] # None
  BY <1>2 DEF StakesHaveRows, StakedAt
<1>4. \A s \in PaidTo(p, rewarded) : s \in rewarded /\ Contracts[p].olas
  BY <1>2 DEF PaidTo, Pays
<1>5. \A s \in rewarded : Contracts[p].olas => s \in PaidTo(p, rewarded)
  BY <1>2 DEF PaidTo, Pays
<1>6. ASSUME NEW s \in PaidTo(p, rewarded)
      PROVE  /\ staged[s] \in ServiceRow(Proxies) /\ staged[s] # None
             /\ staged[s].earned = service[s].earned + Reward
             /\ staged[s].claimed = service[s].claimed /\ staged[s].epochs = service[s].epochs
             /\ staged[s].staked = service[s].staked /\ staged[s].stake = service[s].stake
             /\ staged[s].latest = service[s].latest /\ staged[s].olas = service[s].olas
  <2>1. PICK old \in ServiceRow(Proxies) : old = service[s]
    BY <1>2, <1>3, <1>4 DEF RowTable
  <2>2. s \in Stakers /\ staged[s] = [old EXCEPT !.earned = old.earned + Reward]
    BY <1>3, <1>4, <2>1 DEF RewardedRows
  <2>3. staged[s] \in ServiceRow(Proxies)
    BY <2>2, ConstantFacts DEF ServiceRow
  <2>4. /\ staged[s].earned = old.earned + Reward
        /\ staged[s].claimed = old.claimed /\ staged[s].epochs = old.epochs
        /\ staged[s].staked = old.staked /\ staged[s].stake = old.stake
        /\ staged[s].latest = old.latest /\ staged[s].olas = old.olas
    BY <2>2 DEF ServiceRow
  <2> QED BY <1>2, <2>1, <2>3, <2>4
<1>7. \A s \in Stakers \ PaidTo(p, rewarded) : staged[s] = service[s]
  BY <1>5 DEF RewardedRows
<1>8. \A s \in PaidTo(p, rewarded) : s \in Stakers /\ service[s] # None
  BY <1>3, <1>4
<1>9. staged \in RowTable
  <2>1. \A s \in Stakers : staged[s] \in {None} \cup ServiceRow(Proxies)
    BY <1>2, <1>6, <1>7 DEF RowTable
  <2> QED BY <2>1 DEF RowTable, RewardedRows
<1>10. \A s \in Stakers : EarnedBy(staged)[s] = IF s \in PaidTo(p, rewarded)
                                              THEN EarnedBy(service)[s] + Reward
                                              ELSE EarnedBy(service)[s]
  BY <1>6, <1>7, <1>8 DEF EarnedBy
<1>11. ClaimedBy(staged) = ClaimedBy(service) /\ EpochsBy(staged) = EpochsBy(service)
  <2>1. \A s \in Stakers : /\ ClaimedBy(staged)[s] = ClaimedBy(service)[s]
                           /\ EpochsBy(staged)[s] = EpochsBy(service)[s]
    BY <1>6, <1>7, <1>8 DEF ClaimedBy, EpochsBy
  <2> QED BY <2>1 DEF ClaimedBy, EpochsBy
<1>12. HeldBy(staged) = HeldBy(service) /\ LockedBy(staged) = LockedBy(service)
  <2>1. \A s \in Stakers : /\ HeldBy(staged)[s] = HeldBy(service)[s]
                           /\ LockedBy(staged)[s] = LockedBy(service)[s]
    BY <1>6, <1>7, <1>8 DEF HeldBy, LockedBy
  <2> QED BY <2>1 DEF HeldBy, LockedBy
<1>13. \A s \in Stakers : /\ (staged[s] = None) <=> (service[s] = None)
                          /\ service[s] # None => /\ staged[s].latest = service[s].latest
                                                  /\ staged[s].olas = service[s].olas
  <2> SUFFICES ASSUME NEW s \in Stakers
               PROVE  /\ (staged[s] = None) <=> (service[s] = None)
                      /\ service[s] # None => /\ staged[s].latest = service[s].latest
                                              /\ staged[s].olas = service[s].olas
    OBVIOUS
  <2>1. CASE s \in PaidTo(p, rewarded)
    BY <1>6, <1>8, <2>1
  <2>2. CASE s \notin PaidTo(p, rewarded)
    BY <1>7, <2>2
  <2> QED BY <2>1, <2>2
<1> QED BY <1>9, <1>10, <1>11, <1>12, <1>13

\* What a checkpoint leaves behind.
LEMMA EpochEffect ==
  ASSUME StakingInv, NEW p \in created, NEW rewarded \in SUBSET StakedAt(p),
         NEW d \in StakeDays, EpochEnded(p, rewarded, d)
  PROVE  /\ known' = known
         /\ service' \in RowTable
         /\ \A s \in Stakers : EarnedBy(service')[s] = IF s \in PaidTo(p, rewarded)
                                                       THEN EarnedBy(service)[s] + Reward
                                                       ELSE EarnedBy(service)[s]
         /\ ClaimedBy(service') = ClaimedBy(service)
         /\ HeldBy(service') = HeldBy(service) /\ LockedBy(service') = LockedBy(service)
         /\ \A s \in Stakers : /\ (service'[s] = None) <=> (service[s] = None)
                               /\ service[s] # None => /\ service'[s].latest = service[s].latest
                                                       /\ service'[s].olas = service[s].olas
         /\ \A s \in Stakers : /\ IsFiniteSet(EpochsOf(s)')
                               /\ EpochsBy(service')[s] = Cardinality(EpochsOf(s)')
<1>1. /\ ContractsTyped /\ SquidTyped /\ EpochsHaveRows /\ RewardsKept /\ StakesHaveRows
  BY DEF StakingInv
<1>2. /\ p \in Proxies /\ Contracts' = Contracts
  BY <1>1 DEF ContractsTyped, EpochEnded
<1>3. service \in RowTable /\ None \notin ServiceRow(Proxies)
  BY <1>1, <1>2, StateFacts
<1>4. \A s \in Stakers : /\ IsFiniteSet(EpochsOf(s))
                         /\ EpochsBy(service)[s] = Cardinality(EpochsOf(s))
  BY <1>1 DEF SquidTyped, RewardsKept, Balanced
<1>5. CASE Ours(p)
  <2>1. PICK staged : staged = RewardedRows(p, rewarded)
    OBVIOUS
  <2>2. PICK ids : ids = ClosedIds(p, rewarded)
    OBVIOUS
  <2>3. /\ service' = Participated(ids, staged) /\ known' = known
        /\ DOMAIN history' = DOMAIN history \cup ids
    BY <1>5, <2>1, <2>2 DEF EpochEnded, SquidCheckpoint, RewardedRows, ClosedIds, Closed
  <2>4. /\ staged \in RowTable
        /\ \A s \in Stakers : EarnedBy(staged)[s] = IF s \in PaidTo(p, rewarded)
                                                  THEN EarnedBy(service)[s] + Reward
                                                  ELSE EarnedBy(service)[s]
        /\ ClaimedBy(staged) = ClaimedBy(service) /\ EpochsBy(staged) = EpochsBy(service)
        /\ HeldBy(staged) = HeldBy(service) /\ LockedBy(staged) = LockedBy(service)
        /\ \A s \in Stakers : /\ (staged[s] = None) <=> (service[s] = None)
                              /\ service[s] # None => /\ staged[s].latest = service[s].latest
                                                      /\ staged[s].olas = service[s].olas
    BY <1>1, <1>5, <2>1, RewardedRowsAre
  <2>5. OneEach(ids)
    BY <2>2 DEF OneEach, ClosedIds
  <2>6. ASSUME NEW s \in Stakers, staged[s] = None PROVE NewIds(ids, s) = {}
    <3>1. \A q \in Closed(p, rewarded) : q \in Stakers /\ service[q] # None
      BY <1>1, <1>5, ClosedHaveRows
    <3>2. s \notin Closed(p, rewarded)
      BY <2>4, <2>6, <3>1
    <3> QED BY <2>2, <3>2 DEF NewIds, ClosedIds
  <2>7. /\ service' \in RowTable /\ SameRows(service', staged)
        /\ \A s \in Stakers : /\ IsFiniteSet(EpochsOf(s)')
                              /\ EpochsBy(service')[s] = Cardinality(EpochsOf(s)')
    BY <1>2, <1>3, <1>4, <2>3, <2>4, <2>5, <2>6, RowsGrow
  <2>8. /\ EarnedBy(service') = EarnedBy(staged) /\ ClaimedBy(service') = ClaimedBy(staged)
        /\ HeldBy(service') = HeldBy(staged) /\ LockedBy(service') = LockedBy(staged)
    BY <2>7, SameColumns
  <2>9. \A s \in Stakers : /\ (service'[s] = None) <=> (service[s] = None)
                           /\ service[s] # None => /\ service'[s].latest = service[s].latest
                                                   /\ service'[s].olas = service[s].olas
    BY <2>4, <2>7 DEF SameRows, SameRow
  <2> QED BY <2>3, <2>4, <2>7, <2>8, <2>9
<1>6. CASE ~ Ours(p)
  <2>1. known' = known /\ service' = service /\ history' = history
    BY <1>6 DEF EpochEnded, Skip, squidVars
  <2>2. PaidTo(p, rewarded) = {}
    BY <1>6 DEF PaidTo, Pays
  <2>3. \A s \in Stakers : EpochsOf(s)' = EpochsOf(s)
    BY <2>1 DEF EpochsOf
  <2> QED BY <1>3, <1>4, <2>1, <2>2, <2>3
<1> QED BY <1>5, <1>6

LEMMA EpochHistory ==
  ASSUME StakingInv, NEW p \in created, NEW rewarded \in SUBSET StakedAt(p),
         NEW d \in StakeDays, EpochEnded(p, rewarded, d)
  PROVE  /\ \A id \in DOMAIN history : /\ id \in DOMAIN history'
                                       /\ history[id].checkpointed => history'[id].checkpointed
         /\ \A id \in DOMAIN history' :
              \/ id \in DOMAIN history /\ history'[id] = history[id]
              \/ /\ Ours(p) /\ id \in ClosedIds(p, rewarded)
                 /\ history'[id] \in [reward : Nat, checkpointed : BOOLEAN]
         /\ Ours(p) => \A id \in ClosedIds(p, rewarded) :
                         /\ id \in DOMAIN history' /\ history'[id].checkpointed
                         /\ history'[id].reward = IF id[1] \in rewarded THEN Reward ELSE 0
<1>1. \A id \in DOMAIN history : history[id].checkpointed \in BOOLEAN
  BY DEF StakingInv, SquidTyped
<1>2. CASE Ours(p)
  <2>1. PICK ids : ids = ClosedIds(p, rewarded)
    OBVIOUS
  <2>2. history' = [id \in DOMAIN history \cup ids |->
          IF id \notin ids THEN history[id]
          ELSE [reward |-> IF id[1] \in rewarded THEN Reward ELSE 0, checkpointed |-> TRUE]]
    BY <1>2, <2>1 DEF EpochEnded, SquidCheckpoint, ClosedIds, Closed
  <2>3. \A id \in ids : /\ id \in DOMAIN history' /\ history'[id].checkpointed
                        /\ history'[id].reward = (IF id[1] \in rewarded THEN Reward ELSE 0)
                        /\ history'[id] \in [reward : Nat, checkpointed : BOOLEAN]
    <3> SUFFICES ASSUME NEW id \in ids
                 PROVE /\ id \in DOMAIN history' /\ history'[id].checkpointed
                       /\ history'[id].reward = (IF id[1] \in rewarded THEN Reward ELSE 0)
                       /\ history'[id] \in [reward : Nat, checkpointed : BOOLEAN]
      OBVIOUS
    <3>1. PICK n \in Nat : n = (IF id[1] \in rewarded THEN Reward ELSE 0)
      BY ConstantFacts
    <3>2. id \in DOMAIN history' /\ history'[id] = [reward |-> n, checkpointed |-> TRUE]
      BY <2>2, <3>1
    <3>3. [reward |-> n, checkpointed |-> TRUE] \in [reward : Nat, checkpointed : BOOLEAN]
      OBVIOUS
    <3> QED BY <3>1, <3>2, <3>3
  <2>4. \A id \in DOMAIN history' : id \notin ids => id \in DOMAIN history /\ history'[id] = history[id]
    BY <2>2
  <2>5. DOMAIN history' = DOMAIN history \cup ids
    BY <2>2
  <2>6. ASSUME NEW id \in DOMAIN history
        PROVE  id \in DOMAIN history' /\ (history[id].checkpointed => history'[id].checkpointed)
    <3>1. CASE id \in ids
      BY <2>3, <3>1, Zenon
    <3>2. CASE id \notin ids
      BY <2>4, <2>5, <3>2, Zenon
    <3> QED BY <3>1, <3>2
  <2>7. \A id \in DOMAIN history' :
          \/ id \in DOMAIN history /\ history'[id] = history[id]
          \/ id \in ids /\ history'[id] \in [reward : Nat, checkpointed : BOOLEAN]
    BY <2>3, <2>4
  <2> QED BY <1>2, <2>1, <2>3, <2>6, <2>7, Zenon
<1>3. CASE ~ Ours(p)
  <2>1. history' = history
    BY <1>3 DEF EpochEnded, Skip, squidVars
  <2> QED BY <1>3, <2>1
<1> QED BY <1>2, <1>3

LEMMA EpochRewards ==
  ASSUME StakingInv, NEW p \in created, NEW rewarded \in SUBSET StakedAt(p),
         NEW d \in StakeDays, EpochEnded(p, rewarded, d), NEW s \in Stakers
  PROVE  Total(RewardsIn', Ended(s)') = Total(RewardsIn, Ended(s))
                                        + (IF s \in PaidTo(p, rewarded) THEN Reward ELSE 0)
<1>1. /\ ContractsTyped /\ SquidTyped /\ EpochsHaveRows /\ RewardsKept /\ StakesHaveRows
  BY DEF StakingInv
<1>2. /\ p \in Proxies /\ Contracts' = Contracts
  BY <1>1 DEF ContractsTyped, EpochEnded
<1>3. epoch[p] \in AllEpochs /\ epoch[p] \in Nat /\ p # None /\ Contracts[p].olas \in BOOLEAN
  BY <1>1, <1>2, StateFacts
<1>4. /\ IsFiniteSet(EpochsOf(s))
      /\ \A id \in DOMAIN history : history[id].reward \in Nat
  BY <1>1 DEF SquidTyped
<1>5. PICK new : new = <<s, p, epoch[p]>>
  OBVIOUS
<1>6. new[1] = s /\ new[2] = p
  BY <1>5
<1>7. new \in ClosedIds(p, rewarded) <=> s \in Closed(p, rewarded)
  BY <1>5 DEF ClosedIds
<1>8. \A id \in ClosedIds(p, rewarded) : id[1] = s => id = new
  BY <1>5 DEF ClosedIds
<1>9. Others(s, new)
  <2> SUFFICES ASSUME NEW id \in DOMAIN history \cup DOMAIN history', id[1] = s, id # new
               PROVE  (id \in DOMAIN history <=> id \in DOMAIN history') /\ history'[id] = history[id]
    BY DEF Others
  <2>1. id \notin ClosedIds(p, rewarded)
    BY <1>8
  <2> QED BY <2>1, EpochHistory
<1>10. new \notin Ended(s)
  <2>1. new \in DOMAIN history => ~ history[new].checkpointed
    BY <1>1, <1>2, <1>3, <1>5 DEF EpochsHaveRows
  <2> QED BY <2>1, Zenon DEF Ended, EpochsOf
<1>11. Total(RewardsIn, Ended(s)) \in Nat
  <2>1. Balanced(s)
    BY <1>1 DEF RewardsKept
  <2>2. EarnedBy(service)[s] \in Nat
    BY <1>1, <1>2, StateFacts, ColumnsTyped
  <2> QED BY <2>1, <2>2 DEF Balanced
<1>12. CASE Ours(p) /\ s \in Closed(p, rewarded) /\ Contracts[p].olas
  <2>1. /\ new \in DOMAIN history' /\ history'[new].checkpointed
        /\ history'[new].reward = IF s \in rewarded THEN Reward ELSE 0
    BY <1>6, <1>7, <1>12, EpochHistory
  <2>2. new \in Ended(s)'
    <3>1. new \in EpochsOf(s)' /\ Contracts'[new[2]].olas
      BY <1>2, <1>6, <1>12, <2>1 DEF EpochsOf
    <3> QED BY <2>1, <3>1, Zenon DEF Ended
  <2>3. RewardsIn'[new] = IF s \in rewarded THEN Reward ELSE 0
    BY <2>1 DEF RewardsIn
  <2>4. RewardsIn'[new] \in Nat
    BY <2>3, ConstantFacts
  <2>5. Total(RewardsIn', Ended(s)') = Total(RewardsIn, Ended(s)) + RewardsIn'[new]
    BY <1>2, <1>4, <1>9, <1>10, <2>2, <2>4, EndedMore
  <2>6. s \in PaidTo(p, rewarded) <=> s \in rewarded
    BY <1>3, <1>12 DEF PaidTo, Pays
  <2> QED BY <2>3, <2>5, <2>6
<1>13. CASE ~ (Ours(p) /\ s \in Closed(p, rewarded) /\ Contracts[p].olas)
  <2>1. s \notin PaidTo(p, rewarded)
    <3>1. rewarded \subseteq Closed(p, rewarded)
      BY DEF Closed
    <3> QED BY <1>3, <1>13, <3>1 DEF PaidTo, Pays
  <2>2. new \notin Ended(s)'
    <3>1. CASE ~ Contracts[p].olas
      <4>1. ~ Contracts'[new[2]].olas
        BY <1>2, <1>6, <3>1
      <4> QED BY <4>1, Zenon DEF Ended
    <3>2. CASE ~ (Ours(p) /\ s \in Closed(p, rewarded))
      <4>1. new \in DOMAIN history' => new \in DOMAIN history /\ history'[new] = history[new]
        BY <1>7, <3>2, EpochHistory
      <4>2. new \in DOMAIN history => ~ history[new].checkpointed
        BY <1>1, <1>2, <1>3, <1>5 DEF EpochsHaveRows
      <4> QED BY <4>1, <4>2, Zenon DEF Ended, EpochsOf
    <3> QED BY <1>13, <3>1, <3>2
  <2>3. Total(RewardsIn', Ended(s)') = Total(RewardsIn, Ended(s))
    BY <1>2, <1>4, <1>9, <1>10, <2>2, EndedSame
  <2> QED BY <1>11, <2>1, <2>3
<1> QED BY <1>12, <1>13

LEMMA EpochTotals ==
  ASSUME StakingInv, NEW p \in created, NEW rewarded \in SUBSET StakedAt(p),
         NEW d \in StakeDays, EpochEnded(p, rewarded, d)
  PROVE  /\ total' \in TotalRow /\ total'.in = total.in /\ total'.out = total.out
         /\ total'.current = total.current /\ total'.claimed = total.claimed
         /\ total'.rewards = total.rewards + Reward * Cardinality(PaidTo(p, rewarded))
         /\ Cardinality(PaidTo(p, rewarded)) \in Nat
         /\ updates' = [claimable |-> total'.rewards, claimed |-> total'.claimed]
         /\ IF Pays(p)
            THEN /\ total'.lastDay = d /\ counted' = CountsIn(snapshot'[d])
                 /\ DOMAIN snapshot' = DOMAIN snapshot \cup {d}
                 /\ \A x \in DOMAIN snapshot \ {d} : snapshot'[x] = snapshot[x]
                 /\ Shaped(snapshot'[d]) /\ snapshot'[d].rewards = total'.rewards
                 /\ snapshot'[d].claimed = total'.claimed
            ELSE /\ snapshot' = snapshot /\ counted' = counted /\ total' = total
<1>1. ContractsTyped /\ SquidTyped /\ TotalsKept
  BY DEF StakingInv
<1>2. p \in Proxies
  BY <1>1 DEF ContractsTyped
<1>3. /\ total \in TotalRow /\ p # None /\ Contracts[p].olas \in BOOLEAN
      /\ updates = [claimable |-> total.rewards, claimed |-> total.claimed]
  BY <1>1, <1>2, StateFacts DEF TotalsKept
<1>4. CASE Pays(p)
  <2>1. Ours(p) /\ Contracts[p].olas /\ PaidTo(p, rewarded) = rewarded
    BY <1>4 DEF Pays, PaidTo
  <2>2. Cardinality(rewarded) \in Nat
    <3>1. rewarded \in SUBSET Stakers
      BY DEF StakedAt
    <3> QED BY <3>1, ConstantFacts, FS_Subset, FS_CardinalityType
  <2>3. PICK n \in Nat : n = Reward * Cardinality(rewarded)
    BY <2>2, ConstantFacts
  <2>4. PICK t \in TotalRow : t = total
    BY <1>3
  <2>5. PICK new : new = [t EXCEPT !.rewards = t.rewards + n, !.lastDay = d]
    OBVIOUS
  <2>6. /\ new.rewards = t.rewards + n /\ new.lastDay = d /\ new.in = t.in /\ new.out = t.out
        /\ new.current = t.current /\ new.claimed = t.claimed
    BY <2>5 DEF TotalRow
  <2>7. new = [in |-> t.in, out |-> t.out, current |-> t.current, rewards |-> t.rewards + n,
               claimed |-> t.claimed, lastDay |-> d]
    BY <2>5 DEF TotalRow
  <2>8. new \in TotalRow
    BY <2>7 DEF TotalRow
  <2>9. PICK a, b :
          /\ total' = new
          /\ snapshot' = Put(snapshot, d, [rewards |-> new.rewards, claimed |-> new.claimed,
                                           services |-> a, median |-> b])
          /\ updates' = [updates EXCEPT !.claimable = @ + n]
    BY <2>1, <2>3, <2>4, <2>5 DEF EpochEnded, SquidCheckpoint
  <2>10. updates' = [claimable |-> total'.rewards, claimed |-> total'.claimed]
    BY <1>3, <2>4, <2>6, <2>9
  <2>11. /\ DOMAIN snapshot' = DOMAIN snapshot \cup {d}
         /\ \A x \in DOMAIN snapshot \ {d} : snapshot'[x] = snapshot[x]
         /\ snapshot'[d] = [rewards |-> new.rewards, claimed |-> new.claimed,
                            services |-> a, median |-> b]
    BY <2>9 DEF Put
  <2>12. /\ Shaped(snapshot'[d]) /\ snapshot'[d].rewards = total'.rewards
         /\ snapshot'[d].claimed = total'.claimed
    BY <2>9, <2>11 DEF Shaped
  <2>13. counted' = CountsIn(snapshot'[d])
    BY <2>1 DEF EpochEnded, CountsIn
  <2> QED BY <1>4, <2>1, <2>2, <2>3, <2>4, <2>6, <2>8, <2>9, <2>10, <2>11, <2>12, <2>13
<1>5. CASE ~ Pays(p)
  <2>1. ~ Ours(p) \/ ~ Contracts[p].olas
    BY <1>3, <1>5 DEF Pays
  <2>2. total' = total /\ snapshot' = snapshot /\ updates' = updates /\ counted' = counted
    <3>1. CASE ~ Ours(p)
      BY <3>1 DEF EpochEnded, Skip, squidVars
    <3>2. CASE Ours(p)
      BY <2>1, <3>2 DEF EpochEnded, SquidCheckpoint
    <3> QED BY <3>1, <3>2
  <2>3. PaidTo(p, rewarded) = {}
    BY <1>5 DEF PaidTo
  <2>4. Cardinality(PaidTo(p, rewarded)) = 0
    BY <2>3, FS_EmptySet
  <2>5. Reward * 0 = 0 /\ total.rewards \in Nat
    BY <1>3, ConstantFacts DEF TotalRow
  <2>6. total'.rewards = total.rewards + Reward * Cardinality(PaidTo(p, rewarded))
    BY <2>2, <2>4, <2>5
  <2> QED BY <1>3, <1>5, <2>2, <2>4, <2>6
<1> QED BY <1>4, <1>5

LEMMA EpochContracts ==
  ASSUME StakingInv, NEW p \in created, NEW rewarded \in SUBSET StakedAt(p),
         NEW d \in StakeDays, EpochEnded(p, rewarded, d)
  PROVE  ContractsTyped'
<1>1. ContractsTyped /\ SquidTyped
  BY DEF StakingInv
<1>2. /\ Contracts' = Contracts /\ created' = created /\ stakedIn' = stakedIn /\ taken' = taken
      /\ forfeited' = forfeited /\ since' = since /\ left' = left /\ stakeDay' = d
      /\ epoch' = [epoch EXCEPT ![p] = @ + 1] /\ epoch[p] <= MaxEpoch
      /\ pending' = [s \in Stakers |-> IF s \in rewarded THEN pending[s] + Reward ELSE pending[s]]
      /\ known' = known
  BY EpochEffect DEF EpochEnded, AtDay
<1>3. Proxies' = Proxies /\ p \in Proxies
  BY <1>1, <1>2 DEF ContractsTyped, Proxies
<1>4. p # None /\ epoch[p] \in AllEpochs /\ epoch[p] \in Nat
  BY <1>1, <1>3, StateFacts
<1>5. epoch[p] + 1 \in AllEpochs
  BY <1>2, <1>4, ConstantFacts DEF AllEpochs, Epochs
<1>6. epoch' \in [Proxies' -> AllEpochs]
  BY <1>1, <1>2, <1>3, <1>5 DEF ContractsTyped
<1>7. pending' \in [Stakers -> Nat]
  BY <1>1, <1>2, ConstantFacts DEF ContractsTyped
<1>8. \A s \in Stakers : stakedIn[s] = None => pending'[s] = 0
  BY <1>1, <1>2, <1>4 DEF ContractsTyped, StakedAt
<1> QED BY <1>1, <1>2, <1>3, <1>6, <1>7, <1>8 DEF ContractsTyped, AllEpochs, Epochs

LEMMA EpochTables ==
  ASSUME StakingInv, NEW p \in created, NEW rewarded \in SUBSET StakedAt(p),
         NEW d \in StakeDays, EpochEnded(p, rewarded, d)
  PROVE  SquidTyped' /\ StakesHaveRows' /\ EpochsHaveRows'
<1>1. /\ ContractsTyped /\ SquidTyped /\ EpochsHaveRows /\ StakesHaveRows
  BY DEF StakingInv
<1>2. /\ Contracts' = Contracts /\ stakedIn' = stakedIn /\ taken' = taken
      /\ forfeited' = forfeited /\ epoch' = [epoch EXCEPT ![p] = @ + 1]
      /\ known' = known /\ epoch[p] <= MaxEpoch
  BY EpochEffect DEF EpochEnded, AtDay
<1>3. p \in Proxies
  BY <1>1 DEF ContractsTyped
<1>4. /\ epoch[p] \in AllEpochs /\ epoch[p] \in Nat /\ epoch[p] + 1 \in AllEpochs
      /\ Proxies' = Proxies
  BY <1>1, <1>2, <1>3, StateFacts, ConstantFacts DEF AllEpochs, Epochs, Proxies
<1>5. /\ service' \in RowTable
      /\ \A s \in Stakers : (service'[s] = None) <=> (service[s] = None)
  BY EpochEffect
<1>6. active \in [Proxies -> [AllEpochs -> {None} \cup SUBSET Stakers]]
  BY <1>1 DEF SquidTyped
<1>7. \/ active' = active
      \/ \E T \in SUBSET Stakers :
           /\ active' = [active EXCEPT ![p][epoch[p] + 1] = T]
           /\ \A s \in T : service[s] # None
  <2>1. CASE Ours(p) /\ active[p][epoch[p]] # None
    <3>1. PICK T : T = (IF active[p][epoch[p] + 1] = None THEN {} ELSE active[p][epoch[p] + 1])
                         \cup active[p][epoch[p]]
      OBVIOUS
    <3>2. active' = [active EXCEPT ![p][epoch[p] + 1] = T]
      BY <2>1, <3>1 DEF EpochEnded, SquidCheckpoint, Carried
    <3>3. T \in SUBSET Stakers
      BY <1>3, <1>4, <1>6, <2>1, <3>1
    <3>4. \A s \in T : service[s] # None
      BY <1>1, <1>3, <1>4, <2>1, <3>1 DEF EpochsHaveRows
    <3> QED BY <3>2, <3>3, <3>4
  <2>2. CASE Ours(p) /\ active[p][epoch[p]] = None
    BY <2>2 DEF EpochEnded, SquidCheckpoint
  <2>3. CASE ~ Ours(p)
    BY <2>3 DEF EpochEnded, Skip, squidVars
  <2> QED BY <2>1, <2>2, <2>3
<1>8. \A id \in DOMAIN history' :
        \/ id \in DOMAIN history /\ history'[id] = history[id]
        \/ \E s \in Stakers : /\ service[s] # None /\ id = <<s, p, epoch[p]>>
                              /\ history'[id] \in [reward : Nat, checkpointed : BOOLEAN]
  <2> SUFFICES ASSUME NEW id \in DOMAIN history',
                      ~ (id \in DOMAIN history /\ history'[id] = history[id])
               PROVE  \E s \in Stakers : /\ service[s] # None /\ id = <<s, p, epoch[p]>>
                                         /\ history'[id] \in [reward : Nat, checkpointed : BOOLEAN]
    OBVIOUS
  <2>1. /\ Ours(p) /\ id \in ClosedIds(p, rewarded)
        /\ history'[id] \in [reward : Nat, checkpointed : BOOLEAN]
    BY EpochHistory
  <2>2. PICK s \in Closed(p, rewarded) : id = <<s, p, epoch[p]>>
    BY <2>1 DEF ClosedIds
  <2>3. s \in Stakers /\ service[s] # None
    BY <1>1, <2>1, ClosedHaveRows
  <2> QED BY <2>1, <2>2, <2>3
<1>9. SquidTyped'
  <2>1. active' \in [Proxies -> [AllEpochs -> {None} \cup SUBSET Stakers]]
    BY <1>3, <1>4, <1>6, <1>7
  <2>2. DOMAIN history' \subseteq Stakers \X Proxies \X AllEpochs
    BY <1>1, <1>3, <1>4, <1>8 DEF SquidTyped
  <2>3. \A id \in DOMAIN history' : history'[id] \in [reward : Nat, checkpointed : BOOLEAN]
    BY <1>1, <1>8 DEF SquidTyped
  <2>4. \A s \in Stakers : IsFiniteSet(EpochsOf(s)')
    BY EpochEffect
  <2>5. total' \in TotalRow
    BY EpochTotals
  <2>6. DOMAIN snapshot' \subseteq StakeDays /\ \A x \in DOMAIN snapshot' : Shaped(snapshot'[x])
    <3>1. DOMAIN snapshot \subseteq StakeDays /\ \A x \in DOMAIN snapshot : Shaped(snapshot[x])
      BY <1>1 DEF SquidTyped
    <3>2. CASE Pays(p)
      <4>1. /\ DOMAIN snapshot' = DOMAIN snapshot \cup {d} /\ Shaped(snapshot'[d])
            /\ \A x \in DOMAIN snapshot \ {d} : snapshot'[x] = snapshot[x]
        BY <3>2, EpochTotals
      <4> QED BY <3>1, <4>1
    <3>3. CASE ~ Pays(p)
      <4>1. snapshot' = snapshot
        BY <3>3, EpochTotals
      <4> QED BY <3>1, <4>1
    <3> QED BY <3>2, <3>3
  <2>7. service' \in [Stakers -> {None} \cup ServiceRow(Proxies)]
    BY <1>5 DEF RowTable
  <2> QED BY <1>4, <2>1, <2>2, <2>3, <2>4, <2>5, <2>6, <2>7 DEF SquidTyped, Shaped, AllEpochs, Epochs
<1>10. StakesHaveRows'
  <2> SUFFICES ASSUME NEW q \in Stakers
               PROVE  /\ stakedIn'[q] # None /\ Ours(stakedIn[q])' => service'[q] # None
                      /\ stakedIn'[q] = None => taken'[q] = 0
                      /\ stakedIn'[q] # None /\ ~ Ours(stakedIn[q])' => taken'[q] = 0
                      /\ service'[q] = None => forfeited'[q] = 0
                      /\ HeldBy(service')[q] = taken'[q] /\ LockedBy(service')[q] = taken'[q]
    BY DEF StakesHaveRows
  <2>1. HeldBy(service') = HeldBy(service) /\ LockedBy(service') = LockedBy(service)
    BY EpochEffect
  <2>2. Ours(stakedIn[q])' <=> Ours(stakedIn[q])
    BY <1>2 DEF Ours
  <2>3. /\ stakedIn[q] # None /\ Ours(stakedIn[q]) => service[q] # None
        /\ stakedIn[q] = None => taken[q] = 0
        /\ stakedIn[q] # None /\ ~ Ours(stakedIn[q]) => taken[q] = 0
        /\ service[q] = None => forfeited[q] = 0
        /\ HeldBy(service)[q] = taken[q] /\ LockedBy(service)[q] = taken[q]
    BY <1>1 DEF StakesHaveRows
  <2> QED BY <1>2, <1>5, <2>1, <2>2, <2>3
<1>11. EpochsHaveRows'
  <2>1. ASSUME NEW x \in Proxies, NEW e \in AllEpochs, active'[x][e] # None, NEW q \in active'[x][e]
        PROVE  service'[q] # None
    <3>1. active[x][e] # None => \A r \in active[x][e] : r \in Stakers /\ service[r] # None
      BY <1>1, <1>6 DEF EpochsHaveRows
    <3>2. CASE active' = active
      BY <1>5, <2>1, <3>1, <3>2
    <3>3. CASE active' # active
      <4>1. PICK T \in SUBSET Stakers :
              /\ active' = [active EXCEPT ![p][epoch[p] + 1] = T]
              /\ \A s \in T : service[s] # None
        BY <1>7, <3>3
      <4>2. CASE x = p /\ e = epoch[p] + 1
        <5>1. q \in T
          BY <1>3, <1>4, <1>6, <2>1, <4>1, <4>2
        <5> QED BY <1>5, <4>1, <5>1
      <4>3. CASE ~ (x = p /\ e = epoch[p] + 1)
        <5>1. active'[x][e] = active[x][e]
          BY <1>6, <4>1, <4>3
        <5> QED BY <1>5, <2>1, <3>1, <5>1
      <4> QED BY <4>2, <4>3
    <3> QED BY <3>2, <3>3
  <2>2. ASSUME NEW q \in Stakers, NEW x \in Proxies, NEW e \in AllEpochs, <<q, x, e>> \in DOMAIN history'
        PROVE  /\ service'[q] # None
               /\ history'[<<q, x, e>>].checkpointed => e < epoch'[x]
    <3>1. epoch \in [Proxies -> AllEpochs] /\ epoch[x] \in Nat
      BY <1>1, StateFacts DEF ContractsTyped
    <3>2. epoch'[x] = (IF x = p THEN epoch[p] + 1 ELSE epoch[x]) /\ e \in Nat
      BY <1>2, <1>3, <3>1, ConstantFacts DEF AllEpochs, Epochs
    <3>3. CASE <<q, x, e>> \in DOMAIN history /\ history'[<<q, x, e>>] = history[<<q, x, e>>]
      <4>1. service[q] # None /\ (history[<<q, x, e>>].checkpointed => e < epoch[x])
        BY <1>1, <3>3 DEF EpochsHaveRows
      <4>2. e < epoch[x] => e < epoch'[x]
        BY <1>4, <3>1, <3>2
      <4> QED BY <1>5, <3>3, <4>1, <4>2, Zenon
    <3>4. CASE ~ (<<q, x, e>> \in DOMAIN history /\ history'[<<q, x, e>>] = history[<<q, x, e>>])
      <4>1. PICK s \in Stakers : service[s] # None /\ <<q, x, e>> = <<s, p, epoch[p]>>
        BY <1>8, <2>2, <3>4
      <4>2. q = s /\ x = p /\ e = epoch[p]
        BY <4>1
      <4> QED BY <1>4, <1>5, <3>2, <4>1, <4>2
    <3> QED BY <3>3, <3>4
  <2>3. \A x \in Proxies : \A e \in AllEpochs :
          active'[x][e] # None => \A q \in active'[x][e] : service'[q] # None
    BY <2>1
  <2>4. \A q \in Stakers : \A x \in Proxies : \A e \in AllEpochs :
          <<q, x, e>> \in DOMAIN history' =>
            /\ service'[q] # None
            /\ history'[<<q, x, e>>].checkpointed => e < epoch'[x]
    BY <2>2
  <2> QED BY <1>4, <2>3, <2>4, Zenon DEF EpochsHaveRows, AllEpochs, Epochs
<1> QED BY <1>9, <1>10, <1>11

LEMMA EpochSums ==
  ASSUME StakingInv, NEW p \in created, NEW rewarded \in SUBSET StakedAt(p),
         NEW d \in StakeDays, EpochEnded(p, rewarded, d)
  PROVE  RewardsKept' /\ TotalsKept'
<1>1. /\ ContractsTyped /\ SquidTyped /\ RewardsKept /\ TotalsKept
  BY DEF StakingInv
<1>2. /\ Contracts' = Contracts /\ stakedIn' = stakedIn /\ taken' = taken /\ known' = known
      /\ forfeited' = forfeited
      /\ pending' = [s \in Stakers |-> IF s \in rewarded THEN pending[s] + Reward ELSE pending[s]]
  BY EpochEffect DEF EpochEnded
<1>3. /\ p \in Proxies /\ IsFiniteSet(Stakers) /\ Reward \in Nat
      /\ pending \in [Stakers -> Nat] /\ forfeited \in [Stakers -> Nat]
  BY <1>1, ConstantFacts DEF ContractsTyped
<1>4. service \in RowTable /\ total \in TotalRow
  BY <1>1, <1>3, StateFacts
<1>5. \A s \in Stakers : EarnedBy(service)[s] \in Nat /\ ClaimedBy(service)[s] \in Nat
  BY <1>4, ColumnsTyped
<1>6. ASSUME NEW s \in Stakers
      PROVE  Due(s) \in Nat /\ Due(s)' = Due(s) + (IF s \in PaidTo(p, rewarded) THEN Reward ELSE 0)
  <2>1. Pays(stakedIn[s])' <=> Pays(stakedIn[s])
    BY <1>2 DEF Pays, Ours
  <2>2. s \in PaidTo(p, rewarded) <=> s \in rewarded /\ Pays(stakedIn[s])
    BY DEF PaidTo, StakedAt
  <2>3. pending'[s] = (IF s \in rewarded THEN pending[s] + Reward ELSE pending[s]) /\ pending[s] \in Nat
    BY <1>2, <1>3
  <2>4. CASE Pays(stakedIn[s])
    BY <1>3, <2>1, <2>2, <2>3, <2>4 DEF Due
  <2>5. CASE ~ Pays(stakedIn[s])
    BY <2>1, <2>2, <2>5 DEF Due
  <2> QED BY <2>4, <2>5
<1>7. \A s \in Stakers : EarnedBy(service')[s] = IF s \in PaidTo(p, rewarded)
                                                 THEN EarnedBy(service)[s] + Reward
                                                 ELSE EarnedBy(service)[s]
  BY EpochEffect
<1>8. ClaimedBy(service') = ClaimedBy(service)
  BY EpochEffect
<1>9. RewardsKept'
  <2> SUFFICES ASSUME NEW s \in Stakers PROVE Balanced(s)'
    BY DEF RewardsKept
  <2>1. /\ EarnedBy(service)[s] = Total(RewardsIn, Ended(s))
        /\ EarnedBy(service)[s] = ClaimedBy(service)[s] + Due(s) + forfeited[s]
    BY <1>1 DEF RewardsKept, Balanced
  <2>2. Total(RewardsIn', Ended(s)') = Total(RewardsIn, Ended(s))
                                       + (IF s \in PaidTo(p, rewarded) THEN Reward ELSE 0)
    BY EpochRewards
  <2>3. EpochsBy(service')[s] = Cardinality(EpochsOf(s)')
    BY EpochEffect
  <2>4. EarnedBy(service')[s] = Total(RewardsIn', Ended(s)')
    <3>1. PICK f : f = EarnedBy(service)
      OBVIOUS
    <3>2. PICK x : x = Total(RewardsIn, Ended(s))
      OBVIOUS
    <3>3. f[s] = x /\ f[s] \in Nat
      BY <1>5, <2>1, <3>1, <3>2
    <3>4. EarnedBy(service')[s] = IF s \in PaidTo(p, rewarded) THEN f[s] + Reward ELSE f[s]
      BY <1>7, <3>1
    <3>5. Total(RewardsIn', Ended(s)') = x + (IF s \in PaidTo(p, rewarded) THEN Reward ELSE 0)
      BY <2>2, <3>2
    <3> QED BY <1>3, <3>3, <3>4, <3>5
  <2>5. EarnedBy(service')[s] = ClaimedBy(service')[s] + Due(s)' + forfeited'[s]
    <3>1. PICK c \in Nat : c = ClaimedBy(service)[s]
      BY <1>5
    <3>2. PICK u \in Nat : u = Due(s)
      BY <1>6
    <3>3. PICK f \in Nat : f = forfeited[s]
      BY <1>3
    <3>4. PICK m \in Nat : m = IF s \in PaidTo(p, rewarded) THEN Reward ELSE 0
      BY <1>3
    <3>5. EarnedBy(service')[s] = EarnedBy(service)[s] + m
      BY <1>5, <1>7, <3>4
    <3>6. Due(s)' = u + m
      BY <1>6, <3>2, <3>4
    <3>7. EarnedBy(service)[s] = c + u + f
      BY <2>1, <3>1, <3>2, <3>3
    <3>8. ClaimedBy(service')[s] = c /\ forfeited'[s] = f
      BY <1>2, <1>8, <3>1, <3>3
    <3> QED BY <3>5, <3>6, <3>7, <3>8
  <2> QED BY <2>3, <2>4, <2>5 DEF Balanced
<1>10. TotalsKept'
  <2>1. /\ total'.in = total.in /\ total'.out = total.out
        /\ total'.current = total.current /\ total'.claimed = total.claimed
        /\ total'.rewards = total.rewards + Reward * Cardinality(PaidTo(p, rewarded))
        /\ updates' = [claimable |-> total'.rewards, claimed |-> total'.claimed]
    BY EpochTotals
  <2>2. PaidTo(p, rewarded) \in SUBSET Stakers
    BY DEF PaidTo, StakedAt
  <2>3. Total(EarnedBy(service'), Stakers)
          = Total(EarnedBy(service), Stakers) + Reward * Cardinality(PaidTo(p, rewarded))
    <3>1. PICK f : f = EarnedBy(service)
      OBVIOUS
    <3>2. PICK g : g = EarnedBy(service')
      OBVIOUS
    <3>3. PICK R \in SUBSET Stakers : R = PaidTo(p, rewarded)
      BY <2>2
    <3>4. /\ \A s \in Stakers : f[s] \in Int
          /\ \A s \in Stakers : g[s] = IF s \in R THEN f[s] + Reward ELSE f[s]
      BY <1>5, <1>7, <3>1, <3>2, <3>3
    <3>5. Total(g, Stakers) = Total(f, Stakers) + Reward * Cardinality(R)
      BY <1>3, <3>4, SumEach
    <3> QED BY <3>1, <3>2, <3>3, <3>5
  <2>4. /\ total.current = Total(taken, Stakers) /\ total.current = total.in - total.out
        /\ total.rewards = Total(EarnedBy(service), Stakers)
        /\ total.claimed = Total(ClaimedBy(service), Stakers)
    BY <1>1 DEF TotalsKept
  <2> QED BY <1>2, <1>8, <2>1, <2>3, <2>4 DEF TotalsKept
<1> QED BY <1>9, <1>10

LEMMA EpochTimeline ==
  ASSUME StakingInv, NEW p \in created, NEW rewarded \in SUBSET StakedAt(p),
         NEW d \in StakeDays, EpochEnded(p, rewarded, d)
  PROVE  TimelineContinuous' /\ TimelineGoesOn'
<1>1. /\ ContractsTyped /\ SquidTyped /\ TimelineContinuous /\ TimelineGoesOn /\ EpochsHaveRows
  BY DEF StakingInv
<1>2. /\ Contracts' = Contracts /\ known' = known /\ since' = since /\ left' = left
      /\ epoch' = [epoch EXCEPT ![p] = @ + 1] /\ epoch[p] <= MaxEpoch
  BY EpochEffect DEF EpochEnded
<1>3. /\ Proxies' = Proxies
      /\ \A q \in Proxies : Ours(q)' <=> Ours(q)
  BY <1>1, <1>2, Followed
<1>4. p \in Proxies
  BY <1>1 DEF ContractsTyped
<1>5. epoch[p] \in AllEpochs /\ epoch[p] \in Nat /\ epoch[p] + 1 \in AllEpochs
  BY <1>1, <1>2, <1>4, StateFacts, ConstantFacts DEF AllEpochs, Epochs
<1>6. /\ since \in [Stakers -> [Proxies -> Nat]] /\ epoch \in [Proxies -> AllEpochs]
      /\ active \in [Proxies -> [AllEpochs -> {None} \cup SUBSET Stakers]]
  BY <1>1 DEF ContractsTyped, SquidTyped
<1>7. \A id \in DOMAIN history : /\ id \in DOMAIN history'
                                 /\ history[id].checkpointed => history'[id].checkpointed
  BY EpochHistory
<1>8. ASSUME NEW q \in Stakers, NEW x \in Proxies, Ours(x), since[q][x] # 0, ~ left[q][x]
      PROVE  /\ \A e \in since[q][x] .. epoch'[x] - 1 :
                  <<q, x, e>> \in DOMAIN history' /\ history'[<<q, x, e>>].checkpointed
             /\ active'[x][epoch'[x]] # None /\ q \in active'[x][epoch'[x]]
             /\ service'[q].latest \in {None, x}
  <2>1. /\ \A e \in since[q][x] .. epoch[x] - 1 :
             <<q, x, e>> \in DOMAIN history /\ history[<<q, x, e>>].checkpointed
        /\ active[x][epoch[x]] # None /\ q \in active[x][epoch[x]]
        /\ service[q].latest \in {None, x}
    BY <1>1, <1>8, Zenon DEF TimelineContinuous, TimelineGoesOn
  <2>2. service[q] # None
    BY <1>1, <1>6, <2>1 DEF EpochsHaveRows
  <2>3. service'[q].latest \in {None, x}
    BY <2>1, <2>2, EpochEffect
  <2>4. \A e \in since[q][x] .. epoch[x] - 1 :
          <<q, x, e>> \in DOMAIN history' /\ history'[<<q, x, e>>].checkpointed
    BY <1>7, <2>1, Zenon
  <2>5. CASE x = p
    <3>1. epoch'[x] = epoch[p] + 1 /\ epoch'[x] - 1 = epoch[p]
      BY <1>2, <1>5, <1>6, <2>5
    <3>2. q \in Closed(p, rewarded)
      BY <2>1, <2>5 DEF Closed, Timeline
    <3>3. <<q, p, epoch[p]>> \in ClosedIds(p, rewarded)
      BY <3>2 DEF ClosedIds
    <3>4. <<q, p, epoch[p]>> \in DOMAIN history' /\ history'[<<q, p, epoch[p]>>].checkpointed
      <4>1. Ours(p)
        BY <1>8, <2>5
      <4>2. \A id \in ClosedIds(p, rewarded) : id \in DOMAIN history' /\ history'[id].checkpointed
        BY <4>1, EpochHistory
      <4> QED BY <3>3, <4>2
    <3>5. ASSUME NEW e \in since[q][x] .. epoch'[x] - 1
          PROVE  <<q, x, e>> \in DOMAIN history' /\ history'[<<q, x, e>>].checkpointed
      <4>1. e = epoch[p] \/ e \in since[q][x] .. epoch[x] - 1
        <5>1. PICK n \in Nat : n = since[q][x]
          BY <1>6
        <5>2. PICK m \in Nat : m = epoch[p]
          BY <1>5
        <5>3. e \in n .. m
          BY <3>1, <5>1, <5>2
        <5>4. e = m \/ e \in n .. m - 1
          BY <5>3
        <5> QED BY <2>5, <5>1, <5>2, <5>4
      <4> QED BY <2>4, <2>5, <3>4, <4>1
    <3>6. active'[x][epoch'[x]] # None /\ q \in active'[x][epoch'[x]]
      <4>1. PICK T : T = (IF active[p][epoch[p] + 1] = None THEN {} ELSE active[p][epoch[p] + 1])
                           \cup active[p][epoch[p]]
        OBVIOUS
      <4>2. active' = [active EXCEPT ![p][epoch[p] + 1] = T]
        <5>1. Ours(p) /\ active[p][epoch[p]] # None
          BY <1>8, <2>1, <2>5
        <5> QED BY <4>1, <5>1 DEF EpochEnded, SquidCheckpoint, Carried
      <4>3. T \in SUBSET Stakers
        <5>1. active[p][epoch[p]] \in SUBSET Stakers
          BY <1>4, <1>5, <1>6, <2>1, <2>5
        <5>2. active[p][epoch[p] + 1] \in {None} \cup SUBSET Stakers
          BY <1>4, <1>5, <1>6
        <5> QED BY <4>1, <5>1, <5>2
      <4>4. q \in T /\ T # None
        BY <2>1, <2>5, <4>1, <4>3, ConstantFacts
      <4> QED BY <1>4, <1>5, <1>6, <2>5, <3>1, <4>2, <4>4
    <3> QED BY <2>3, <3>5, <3>6
  <2>6. CASE x # p
    <3>1. epoch'[x] = epoch[x]
      BY <1>2, <1>6, <2>6
    <3>2. active'[x] = active[x]
      <4>1. active' = active \/ \E T : active' = [active EXCEPT ![p][epoch[p] + 1] = T]
        <5>1. CASE Ours(p) /\ active[p][epoch[p]] # None
          BY <5>1 DEF EpochEnded, SquidCheckpoint
        <5>2. CASE Ours(p) /\ active[p][epoch[p]] = None
          BY <5>2 DEF EpochEnded, SquidCheckpoint
        <5>3. CASE ~ Ours(p)
          BY <5>3 DEF EpochEnded, Skip, squidVars
        <5> QED BY <5>1, <5>2, <5>3
      <4> QED BY <1>6, <2>6, <4>1
    <3> QED BY <2>1, <2>3, <2>4, <3>1, <3>2
  <2> QED BY <2>5, <2>6
<1>9. TimelineContinuous'
  BY <1>2, <1>3, <1>8, Zenon DEF TimelineContinuous
<1>10. TimelineGoesOn'
  BY <1>2, <1>3, <1>8, Zenon DEF TimelineGoesOn
<1> QED BY <1>9, <1>10

LEMMA EpochSnapshots ==
  ASSUME StakingInv, NEW p \in created, NEW rewarded \in SUBSET StakedAt(p),
         NEW d \in StakeDays, EpochEnded(p, rewarded, d)
  PROVE  SnapshotsLast' /\ SubgraphTyped'
<1>1. ContractsTyped /\ SquidTyped /\ SnapshotsLast /\ SubgraphTyped
  BY DEF StakingInv
<1>2. Contracts' = Contracts /\ stakedIn' = stakedIn /\ AtDay(d)
  BY DEF EpochEnded
<1>3. SnapshotsLast'
  <2>1. CASE Pays(p)
    <3>1. /\ total'.lastDay = d /\ counted' = CountsIn(snapshot'[d])
          /\ DOMAIN snapshot' = DOMAIN snapshot \cup {d}
          /\ \A x \in DOMAIN snapshot \ {d} : snapshot'[x] = snapshot[x]
          /\ snapshot'[d].rewards = total'.rewards
          /\ snapshot'[d].claimed = total'.claimed
      BY <2>1, EpochTotals
    <3> QED BY <1>1, <1>2, <3>1, SnapshotsGrow
  <2>2. CASE ~ Pays(p)
    <3>1. snapshot' = snapshot /\ counted' = counted /\ total' = total
      BY <2>2, EpochTotals
    <3> QED BY <1>1, <1>2, <3>1, SnapshotsStay
  <2> QED BY <2>1, <2>2
<1>4. SubgraphTyped'
  <2>1. sgService \in [Stakers -> {None} \cup SubgraphRow] /\ sgTotal \in SubgraphTotal
        /\ sgTotal.current = Total(Deposits, Stakers)
    BY <1>1 DEF SubgraphTyped
  <2>2. sgService' \in [Stakers -> {None} \cup SubgraphRow]
    <3>1. ASSUME NEW s \in Stakers, sgService[s] # None
          PROVE  [sgService[s] EXCEPT !.earned = @ + Reward] \in SubgraphRow
      <4>1. PICK r \in SubgraphRow : r = sgService[s]
        BY <2>1, <3>1
      <4> QED BY <4>1, ConstantFacts DEF SubgraphRow
    <3>2. \A s \in Stakers :
            (IF s \in rewarded /\ sgService[s] # None
             THEN [sgService[s] EXCEPT !.earned = @ + Reward] ELSE sgService[s])
              \in {None} \cup SubgraphRow
      BY <2>1, <3>1
    <3> QED BY <3>2 DEF EpochEnded, SubgraphCheckpoint
  <2>3. sgTotal' \in SubgraphTotal /\ sgTotal'.current = sgTotal.current
    <3>1. PICK t \in SubgraphTotal : t = sgTotal
      BY <2>1
    <3>2. rewarded \in SUBSET Stakers
      BY DEF StakedAt
    <3>3. Cardinality(rewarded) \in Nat
      BY <3>2, ConstantFacts, FS_Subset, FS_CardinalityType
    <3>4. PICK n \in Nat : n = t.rewards + Reward * Cardinality(rewarded)
      BY <3>3, ConstantFacts DEF SubgraphTotal
    <3>5. sgTotal' = [t EXCEPT !.rewards = n, !.lastDay = d]
      BY <3>1, <3>4 DEF EpochEnded, SubgraphCheckpoint
    <3>6. sgTotal' = [in |-> t.in, out |-> t.out, current |-> t.current, rewards |-> n,
                      lastDay |-> d]
      BY <3>5 DEF SubgraphTotal
    <3> QED BY <3>1, <3>6 DEF SubgraphTotal
  <2>4. Deposits' = Deposits
    BY <1>2 DEF Deposits
  <2> QED BY <2>1, <2>2, <2>3, <2>4 DEF SubgraphTyped, SubgraphTotal
<1> QED BY <1>3, <1>4

\* What SetToSeq lists is of the set.
LEMMA Listed ==
  ASSUME NEW set, IsFiniteSet(set)
  PROVE  \A i \in DOMAIN SetToSeq(set) : SetToSeq(set)[i] \in set
<1>1. PICK f \in [1 .. Cardinality(set) -> set] : IsInjective(f)
  <2>1. PICK f : f \in Bijection(1 .. Cardinality(set), set)
    <3>1. ExistsBijection(1 .. Cardinality(set), set)
      BY FS_CardinalityType
    <3> QED BY <3>1 DEF ExistsBijection
  <2>2. f \in [1 .. Cardinality(set) -> set] /\ IsInjective(f)
    BY <2>1 DEF Bijection, Injection, IsInjective
  <2> QED BY <2>2
<1>2. SetToSeq(set) \in [1 .. Cardinality(set) -> set]
  BY <1>1, Zenon DEF SetToSeq
<1> QED BY <1>2

LEMMA EpochAgrees ==
  ASSUME StakingInv, AgreeInv, NEW p \in created, NEW rewarded \in SUBSET StakedAt(p),
         NEW d \in StakeDays, EpochEnded(p, rewarded, d)
  PROVE  AgreeInv'
<1>1. ContractsTyped /\ SquidTyped /\ SubgraphTyped /\ StakesHaveRows
  BY DEF StakingInv
<1>2. /\ Contracts' = Contracts /\ Proxies' = Proxies /\ p \in Proxies
      /\ stakedIn' = stakedIn /\ taken' = taken
  BY <1>1 DEF EpochEnded, ContractsTyped, Proxies
<1>3. SUFFICES ASSUME Alike
               PROVE  /\ Same' /\ total'.in >= sgTotal'.in
                      /\ total'.in = sgTotal'.in => SameStakes'
  BY <1>2, Zenon DEF AgreeInv, Alike
<1>4. /\ Same /\ total.in >= sgTotal.in
      /\ total.in = sgTotal.in => SameStakes
  BY <1>3 DEF AgreeInv
<1>5. Ours(p) /\ Contracts[p].olas /\ p # None
  BY <1>1, <1>2, <1>3, StateFacts DEF Ours, Alike, ContractsTyped
<1>6. Pays(p) /\ PaidTo(p, rewarded) = rewarded
  BY <1>5 DEF Pays, PaidTo
<1>7. PICK sg : sg = [s \in Stakers |-> IF s \in rewarded /\ sgService[s] # None
                                        THEN [sgService[s] EXCEPT !.earned = @ + Reward] ELSE sgService[s]]
  OBVIOUS
<1>8. PICK staged : staged = RewardedRows(p, rewarded)
  OBVIOUS
<1>9. /\ staged \in RowTable
      /\ \A s \in Stakers : EarnedBy(staged)[s] = IF s \in rewarded THEN EarnedBy(service)[s] + Reward
                                                ELSE EarnedBy(service)[s]
      /\ \A s \in Stakers : /\ (staged[s] = None) <=> (service[s] = None)
                            /\ service[s] # None => staged[s].olas = service[s].olas
  BY <1>1, <1>5, <1>6, <1>8, RewardedRowsAre
<1>10. /\ total.rewards = sgTotal.rewards /\ total.lastDay = sgTotal.lastDay
       /\ \A q \in Stakers : (service[q] = None) <=> (sgService[q] = None)
       /\ \A q \in Stakers : service[q] # None => service[q].earned = sgService[q].earned
       /\ \A q \in Stakers : service[q] # None => service[q].olas
       /\ DOMAIN sgSnapshot \subseteq DOMAIN snapshot
       /\ \A x \in DOMAIN sgSnapshot : /\ snapshot[x].services = sgSnapshot[x].services
                                       /\ snapshot[x].median = sgSnapshot[x].median
  BY <1>4 DEF Same
<1>11. sgService \in [Stakers -> {None} \cup SubgraphRow] /\ sgTotal \in SubgraphTotal
  BY <1>1 DEF SubgraphTyped
<1>12. \A s \in Stakers : /\ (sg[s] = None) <=> (sgService[s] = None)
                          /\ sgService[s] # None => sg[s].earned = IF s \in rewarded
                               THEN sgService[s].earned + Reward ELSE sgService[s].earned
  <2> SUFFICES ASSUME NEW s \in Stakers
               PROVE  /\ (sg[s] = None) <=> (sgService[s] = None)
                      /\ sgService[s] # None => sg[s].earned = IF s \in rewarded
                           THEN sgService[s].earned + Reward ELSE sgService[s].earned
    OBVIOUS
  <2>1. CASE s \in rewarded /\ sgService[s] # None
    <3>1. PICK r \in SubgraphRow : r = sgService[s]
      BY <1>11, <2>1
    <3>2. sg[s] = [r EXCEPT !.earned = r.earned + Reward]
      BY <1>7, <2>1, <3>1
    <3>3. sg[s] \in SubgraphRow /\ sg[s].earned = r.earned + Reward
      BY <3>2, ConstantFacts DEF SubgraphRow
    <3> QED BY <2>1, <3>1, <3>3, ConstantFacts
  <2>2. CASE ~ (s \in rewarded /\ sgService[s] # None)
    BY <1>7, <2>2
  <2> QED BY <2>1, <2>2
<1>13. \A s \in Stakers : staged[s] # None => /\ sg[s] # None /\ staged[s].earned = sg[s].earned
                                            /\ staged[s].olas
  <2> SUFFICES ASSUME NEW s \in Stakers, staged[s] # None
               PROVE  sg[s] # None /\ staged[s].earned = sg[s].earned /\ staged[s].olas
    OBVIOUS
  <2>1. service[s] # None /\ sgService[s] # None
    BY <1>9, <1>10
  <2>2. staged[s].earned = EarnedBy(staged)[s] /\ service[s].earned = EarnedBy(service)[s]
    BY <2>1 DEF EarnedBy
  <2>3. staged[s].earned = IF s \in rewarded THEN service[s].earned + Reward ELSE service[s].earned
    BY <1>9, <2>2
  <2>4. staged[s].olas
    BY <1>9, <1>10, <2>1
  <2> QED BY <1>10, <1>12, <2>1, <2>3, <2>4
<1>14. PICK all : all = {s \in Stakers : sg[s] # None}
  OBVIOUS
<1>15. Counted(staged) = all
  BY <1>9, <1>10, <1>12, <1>13, <1>14 DEF Counted
<1>16. IsFiniteSet(all)
  <2>1. all \in SUBSET Stakers
    BY <1>14
  <2> QED BY <2>1, ConstantFacts, FS_Subset
<1>17. PICK list : list = SetToSeq(all)
  OBVIOUS
<1>18. [i \in DOMAIN list |-> staged[list[i]].earned] = [i \in DOMAIN list |-> sg[list[i]].earned]
  <2>1. \A i \in DOMAIN list : list[i] \in all
    BY <1>16, <1>17, Listed
  <2>2. \A i \in DOMAIN list : staged[list[i]].earned = sg[list[i]].earned
    BY <1>9, <1>10, <1>12, <1>13, <1>14, <2>1
  <2> QED BY <2>2
<1>19. /\ sgService' = sg
       /\ sgTotal' = [sgTotal EXCEPT !.rewards = sgTotal.rewards + Reward * Cardinality(rewarded),
                                     !.lastDay = d]
       /\ sgSnapshot' = Put(sgSnapshot, d,
            [rewards |-> sgTotal.rewards + Reward * Cardinality(rewarded), services |-> Len(list),
             median |-> Median([i \in DOMAIN list |-> sg[list[i]].earned])])
  <2> DEFINE G == [s \in Stakers |-> IF s \in rewarded /\ sgService[s] # None
                                     THEN [sgService[s] EXCEPT !.earned = @ + Reward]
                                     ELSE sgService[s]]
             A == {s \in Stakers : G[s] # None}
             L == SetToSeq(A)
             n == sgTotal.rewards + Reward * Cardinality(rewarded)
  <2>1. /\ sgService' = G
        /\ sgTotal' = [sgTotal EXCEPT !.rewards = n, !.lastDay = d]
        /\ sgSnapshot' = Put(sgSnapshot, d,
             [rewards |-> n, services |-> Len(L), median |-> Median([i \in DOMAIN L |-> G[L[i]].earned])])
    BY DEF EpochEnded, SubgraphCheckpoint
  <2>2. G = sg
    BY <1>7
  <2> HIDE DEF G
  <2>3. A = all
    BY <1>14, <2>2
  <2> HIDE DEF A
  <2>4. L = list
    BY <1>17, <2>3
  <2> HIDE DEF L
  <2> QED BY <2>1, <2>2, <2>4
<1>20. PICK n, m : /\ n = Len(list) /\ m = Median([i \in DOMAIN list |-> staged[list[i]].earned])
  OBVIOUS
<1>21. snapshot'[d].services = n /\ snapshot'[d].median = m
  <2>1. PICK a, b : snapshot' = Put(snapshot, d, [rewards |-> a, claimed |-> b, services |-> n, median |-> m])
    <3> DEFINE G == [s \in Stakers |-> IF s \in rewarded /\ Contracts[p].olas
                                       THEN [service[s] EXCEPT !.earned = @ + Reward] ELSE service[s]]
               L == SetToSeq(Counted(G))
               new == [total EXCEPT !.rewards = @ + Reward * Cardinality(rewarded), !.lastDay = d]
    <3>1. snapshot' = Put(snapshot, d,
            [rewards |-> new.rewards, claimed |-> new.claimed, services |-> Len(L),
             median |-> Median([i \in DOMAIN L |-> G[L[i]].earned])])
      BY <1>5 DEF EpochEnded, SquidCheckpoint
    <3> HIDE DEF new
    <3>2. G = staged
      BY <1>8 DEF RewardedRows
    <3> HIDE DEF G
    <3>3. L = list
      BY <1>15, <1>17, <3>2
    <3> HIDE DEF L
    <3> QED BY <1>20, <3>1, <3>2, <3>3
  <2>2. snapshot'[d] = [rewards |-> a, claimed |-> b, services |-> n, median |-> m]
    BY <2>1 DEF Put
  <2> QED BY <2>2
<1>22. sgSnapshot'[d].services = n /\ sgSnapshot'[d].median = m
  <2>1. PICK a : sgSnapshot' = Put(sgSnapshot, d, [rewards |-> a, services |-> n, median |-> m])
    BY <1>18, <1>19, <1>20
  <2>2. sgSnapshot'[d] = [rewards |-> a, services |-> n, median |-> m]
    BY <2>1 DEF Put
  <2> QED BY <2>2
<1>23. /\ DOMAIN sgSnapshot' = DOMAIN sgSnapshot \cup {d}
       /\ \A x \in DOMAIN sgSnapshot \ {d} : sgSnapshot'[x] = sgSnapshot[x]
  BY <1>19 DEF Put
<1>24. /\ DOMAIN snapshot' = DOMAIN snapshot \cup {d}
       /\ \A x \in DOMAIN snapshot \ {d} : snapshot'[x] = snapshot[x]
       /\ total'.lastDay = d /\ total'.in = total.in
       /\ total'.rewards = total.rewards + Reward * Cardinality(rewarded)
  BY <1>6, EpochTotals
<1>25. /\ sgTotal'.lastDay = d /\ sgTotal'.in = sgTotal.in
       /\ sgTotal'.rewards = sgTotal.rewards + Reward * Cardinality(rewarded)
  BY <1>11, <1>19 DEF SubgraphTotal
<1>26. ASSUME NEW q \in Stakers
       PROVE  /\ (service'[q] = None) <=> (sgService'[q] = None)
              /\ service'[q] # None => service'[q].earned = sgService'[q].earned /\ service'[q].olas
  <2>1. /\ (service'[q] = None) <=> (service[q] = None)
        /\ service[q] # None => service'[q].olas = service[q].olas
        /\ EarnedBy(service')[q] = IF q \in rewarded THEN EarnedBy(service)[q] + Reward
                                   ELSE EarnedBy(service)[q]
    BY <1>6, EpochEffect
  <2>2. CASE service[q] # None
    <3>1. service'[q].earned = EarnedBy(service')[q] /\ EarnedBy(staged)[q] = staged[q].earned
      BY <1>9, <2>1, <2>2 DEF EarnedBy
    <3>2. service'[q].earned = staged[q].earned
      BY <1>9, <2>1, <3>1
    <3> QED BY <1>9, <1>10, <1>13, <1>19, <2>1, <2>2, <3>2
  <2>3. CASE service[q] = None
    BY <1>10, <1>12, <1>19, <2>1, <2>3
  <2> QED BY <2>2, <2>3
<1>27. Same'
  <2>1. ASSUME NEW x \in DOMAIN sgSnapshot'
        PROVE  /\ x \in DOMAIN snapshot' /\ snapshot'[x].services = sgSnapshot'[x].services
               /\ snapshot'[x].median = sgSnapshot'[x].median
    <3>1. CASE x = d
      BY <1>21, <1>22, <1>24, <3>1
    <3>2. CASE x # d
      BY <1>10, <1>23, <1>24, <3>2
    <3> QED BY <3>1, <3>2
  <2>2. total'.rewards = sgTotal'.rewards /\ total'.lastDay = sgTotal'.lastDay
    BY <1>10, <1>24, <1>25
  <2> QED BY <1>26, <2>1, <2>2 DEF Same
<1>28. total'.in >= sgTotal'.in /\ (total'.in = sgTotal'.in => SameStakes')
  BY <1>2, <1>4, <1>24, <1>25 DEF SameStakes, Deposits
<1> QED BY <1>27, <1>28

-----------------------------------------------------------------------------
(* handleRewardClaimed. *)

LEMMA ClaimedIs ==
  ASSUME ContractsTyped, SquidTyped, SnapshotsLast, TotalsKept, NEW d \in StakeDays, AtDay(d),
         NEW amount \in Nat, NEW sums \in TotalRow, sums.rewards = total.rewards,
         sums.claimed = total.claimed, Claimed(sums, amount, d)
  PROVE  /\ total' \in TotalRow /\ total'.in = sums.in /\ total'.out = sums.out
         /\ total'.current = sums.current /\ total'.rewards = total.rewards
         /\ total'.claimed = total.claimed + amount /\ total'.lastDay = sums.lastDay
         /\ updates' = [claimable |-> total'.rewards, claimed |-> total'.claimed]
         /\ DOMAIN snapshot' = DOMAIN snapshot \cup {d}
         /\ \A x \in DOMAIN snapshot \ {d} : snapshot'[x] = snapshot[x]
         /\ Shaped(snapshot'[d]) /\ snapshot'[d].rewards = total'.rewards
         /\ snapshot'[d].claimed = total'.claimed /\ CountsIn(snapshot'[d]) = counted
         /\ d \in DOMAIN snapshot => /\ snapshot'[d].services = snapshot[d].services
                                     /\ snapshot'[d].median = snapshot[d].median
<1>1. PICK new : new = [sums EXCEPT !.claimed = sums.claimed + amount]
  OBVIOUS
<1>2. /\ new.claimed = total.claimed + amount /\ new.rewards = total.rewards
      /\ new.in = sums.in /\ new.out = sums.out /\ new.current = sums.current
      /\ new.lastDay = sums.lastDay
  BY <1>1 DEF TotalRow
<1>3. new = [in |-> sums.in, out |-> sums.out, current |-> sums.current, rewards |-> sums.rewards,
             claimed |-> sums.claimed + amount, lastDay |-> sums.lastDay]
  BY <1>1 DEF TotalRow
<1>4. new \in TotalRow
  BY <1>3 DEF TotalRow
<1>5. PICK row : row = IF d \in DOMAIN snapshot THEN [snapshot[d] EXCEPT !.claimed = new.claimed]
                       ELSE Snapshot(d, new)
  OBVIOUS
<1>6. /\ total' = new /\ snapshot' = Put(snapshot, d, row)
      /\ updates' = [updates EXCEPT !.claimed = @ + amount]
  BY <1>1, <1>5 DEF Claimed
<1>7. updates = [claimable |-> total.rewards, claimed |-> total.claimed]
  BY DEF TotalsKept
<1>8. updates' = [claimable |-> total'.rewards, claimed |-> total'.claimed]
  BY <1>2, <1>6, <1>7
<1>9. /\ DOMAIN snapshot' = DOMAIN snapshot \cup {d} /\ snapshot'[d] = row
      /\ \A x \in DOMAIN snapshot \ {d} : snapshot'[x] = snapshot[x]
  BY <1>6 DEF Put
<1>10. /\ Shaped(row) /\ row.rewards = new.rewards /\ row.claimed = new.claimed
       /\ CountsIn(row) = counted
       /\ d \in DOMAIN snapshot => row.services = snapshot[d].services /\ row.median = snapshot[d].median
  <2>1. CASE d \in DOMAIN snapshot
    <3>1. Shaped(snapshot[d])
      BY <2>1 DEF SquidTyped
    <3>2. PICK a, b, c : snapshot[d] = [rewards |-> a, claimed |-> b,
                                        services |-> snapshot[d].services, median |-> c]
                         /\ c = snapshot[d].median /\ a = snapshot[d].rewards
      BY <3>1 DEF Shaped
    <3>3. PICK e : e = snapshot[d].services
      OBVIOUS
    <3>4. row = [rewards |-> a, claimed |-> new.claimed, services |-> e, median |-> c]
      BY <1>5, <2>1, <3>2, <3>3
    <3>5. \A x \in DOMAIN snapshot : x <= d
      BY DaysGoOn
    <3>6. snapshot[d].rewards = total.rewards /\ CountsIn(snapshot[d]) = counted
      BY <2>1, <3>5 DEF SnapshotsLast
    <3>7. CountsIn(row) = CountsIn(snapshot[d])
      BY <3>2, <3>3, <3>4 DEF CountsIn
    <3> QED BY <1>2, <3>2, <3>3, <3>4, <3>6, <3>7 DEF Shaped
  <2>2. CASE d \notin DOMAIN snapshot
    <3>1. row = [rewards |-> new.rewards, claimed |-> new.claimed,
                 services |-> FilledFrom(d).services, median |-> FilledFrom(d).median]
      BY <1>5, <2>2 DEF Snapshot
    <3>2. FilledFrom(d) = counted
      BY DEF FilledFrom, SnapshotsLast, CountsIn
    <3>3. counted = [services |-> counted.services, median |-> counted.median]
      <4>1. counted = NoCount \/ counted = CountsIn(snapshot[total.lastDay])
        BY DEF SnapshotsLast
      <4> QED BY <4>1 DEF CountsIn, NoCount
    <3>4. PICK a, b : a = counted.services /\ b = counted.median
      OBVIOUS
    <3>5. row = [rewards |-> new.rewards, claimed |-> new.claimed, services |-> a, median |-> b]
      BY <3>1, <3>2, <3>4
    <3>6. CountsIn(row) = counted
      BY <3>3, <3>4, <3>5 DEF CountsIn
    <3> QED BY <2>2, <3>5, <3>6 DEF Shaped
  <2> QED BY <2>1, <2>2
<1> QED BY <1>2, <1>4, <1>6, <1>8, <1>9, <1>10

\* The snapshots stay, or the one of the day gets the totals and keeps its counts.
SnapshotsKept(d) ==
  \/ snapshot' = snapshot /\ total'.rewards = total.rewards /\ total'.claimed = total.claimed
  \/ /\ DOMAIN snapshot' = DOMAIN snapshot \cup {d}
     /\ \A x \in DOMAIN snapshot \ {d} : snapshot'[x] = snapshot[x]
     /\ Shaped(snapshot'[d]) /\ snapshot'[d].rewards = total'.rewards
     /\ snapshot'[d].claimed = total'.claimed /\ CountsIn(snapshot'[d]) = counted
     /\ d \in DOMAIN snapshot => /\ snapshot'[d].services = snapshot[d].services
                                 /\ snapshot'[d].median = snapshot[d].median

\* What a claim leaves behind.
LEMMA RewardClaimedEffect ==
  ASSUME StakingInv, NEW s \in Stakers, NEW p \in created, NEW d \in StakeDays,
         RewardClaimed(s, p, d)
  PROVE  /\ known' = known /\ active' = active /\ history' = history /\ service' \in RowTable
         /\ EarnedBy(service') = EarnedBy(service) /\ EpochsBy(service') = EpochsBy(service)
         /\ ClaimedBy(service') = [ClaimedBy(service) EXCEPT ![s] = @ + Due(s)]
         /\ HeldBy(service') = HeldBy(service) /\ LockedBy(service') = LockedBy(service)
         /\ \A q \in Stakers : /\ (service'[q] = None) <=> (service[q] = None)
                               /\ service[q] # None => /\ service'[q].latest = service[q].latest
                                                       /\ service'[q].olas = service[q].olas
         /\ total' \in TotalRow /\ total'.in = total.in /\ total'.out = total.out
         /\ total'.current = total.current /\ total'.rewards = total.rewards
         /\ total'.claimed = total.claimed + Due(s) /\ total'.lastDay = total.lastDay
         /\ updates' = [claimable |-> total'.rewards, claimed |-> total'.claimed]
         /\ Due(s) \in Nat
         /\ SnapshotsKept(d)
<1>1. ContractsTyped /\ SquidTyped /\ SnapshotsLast /\ TotalsKept /\ StakesHaveRows
  BY DEF StakingInv
<1>2. /\ p \in Proxies /\ stakedIn[s] = p /\ AtDay(d)
  BY <1>1 DEF ContractsTyped, RewardClaimed
<1>3. /\ service \in RowTable /\ None \notin ServiceRow(Proxies) /\ p # None /\ total \in TotalRow
      /\ Contracts[p].olas \in BOOLEAN /\ pending[s] \in Nat
  BY <1>1, <1>2, StateFacts DEF ContractsTyped
<1>4. CASE Pays(p)
  <2>1. Ours(p) /\ Contracts[p].olas
    BY <1>4 DEF Pays
  <2>2. PICK n \in Nat : n = pending[s]
    BY <1>3
  <2>3. Due(s) = n
    BY <1>2, <1>4, <2>2 DEF Due
  <2>4. /\ service' = [service EXCEPT ![s].claimed = @ + n] /\ Claimed(total, n, d)
        /\ known' = known /\ active' = active /\ history' = history
    BY <2>1, <2>2 DEF RewardClaimed, SquidClaimed
  <2>5. PICK r \in ServiceRow(Proxies) : r = service[s]
    BY <1>1, <1>2, <1>3, <2>1 DEF StakesHaveRows, RowTable
  <2>6. PICK new : new = [r EXCEPT !.claimed = r.claimed + n]
    OBVIOUS
  <2>7. /\ new \in ServiceRow(Proxies) /\ new.claimed = r.claimed + n /\ new.earned = r.earned
        /\ new.epochs = r.epochs /\ new.staked = r.staked /\ new.stake = r.stake
        /\ new.latest = r.latest /\ new.olas = r.olas
    <3>1. new \in ServiceRow(Proxies)
      BY <2>6 DEF ServiceRow
    <3> QED BY <2>6, <3>1 DEF ServiceRow
  <2>8. new # None /\ r # None
    BY <1>3, <2>7
  <2>9. service' = [service EXCEPT ![s] = new]
    BY <1>3, <2>4, <2>5, <2>6 DEF RowTable
  <2>10. service' \in RowTable /\ service'[s] = new /\ \A q \in Stakers \ {s} : service'[q] = service[q]
    BY <1>3, <2>7, <2>9 DEF RowTable
  <2>11. EarnedBy(service') = EarnedBy(service) /\ EpochsBy(service') = EpochsBy(service)
    <3>1. \A q \in Stakers : /\ EarnedBy(service')[q] = EarnedBy(service)[q]
                             /\ EpochsBy(service')[q] = EpochsBy(service)[q]
      BY <2>5, <2>7, <2>8, <2>10 DEF EarnedBy, EpochsBy
    <3> QED BY <3>1 DEF EarnedBy, EpochsBy
  <2>12. HeldBy(service') = HeldBy(service) /\ LockedBy(service') = LockedBy(service)
    <3>1. \A q \in Stakers : /\ HeldBy(service')[q] = HeldBy(service)[q]
                             /\ LockedBy(service')[q] = LockedBy(service)[q]
      BY <2>5, <2>7, <2>8, <2>10 DEF HeldBy, LockedBy
    <3> QED BY <3>1 DEF HeldBy, LockedBy
  <2>13. ClaimedBy(service') = [ClaimedBy(service) EXCEPT ![s] = @ + n]
    <3>1. \A q \in Stakers : ClaimedBy(service')[q] = IF q = s THEN ClaimedBy(service)[s] + n
                                                      ELSE ClaimedBy(service)[q]
      BY <2>5, <2>7, <2>8, <2>10 DEF ClaimedBy
    <3> QED BY <3>1 DEF ClaimedBy
  <2>14. \A q \in Stakers : /\ (service'[q] = None) <=> (service[q] = None)
                            /\ service[q] # None => /\ service'[q].latest = service[q].latest
                                                    /\ service'[q].olas = service[q].olas
    BY <2>5, <2>7, <2>8, <2>10
  <2>15. /\ total' \in TotalRow /\ total'.in = total.in /\ total'.out = total.out
         /\ total'.current = total.current /\ total'.rewards = total.rewards
         /\ total'.claimed = total.claimed + n /\ total'.lastDay = total.lastDay
         /\ updates' = [claimable |-> total'.rewards, claimed |-> total'.claimed]
         /\ DOMAIN snapshot' = DOMAIN snapshot \cup {d}
         /\ \A x \in DOMAIN snapshot \ {d} : snapshot'[x] = snapshot[x]
         /\ Shaped(snapshot'[d]) /\ snapshot'[d].rewards = total'.rewards
         /\ snapshot'[d].claimed = total'.claimed /\ CountsIn(snapshot'[d]) = counted
         /\ d \in DOMAIN snapshot => /\ snapshot'[d].services = snapshot[d].services
                                     /\ snapshot'[d].median = snapshot[d].median
    BY <1>1, <1>2, <1>3, <2>4, ClaimedIs
  <2>16. ClaimedBy(service') = [ClaimedBy(service) EXCEPT ![s] = @ + Due(s)]
    BY <2>3, <2>13
  <2>17. SnapshotsKept(d)
    BY <2>15 DEF SnapshotsKept
  <2> QED BY <2>3, <2>4, <2>10, <2>11, <2>12, <2>14, <2>15, <2>16, <2>17
<1>5. CASE ~ Pays(p)
  <2>1. ~ Ours(p) \/ ~ Contracts[p].olas
    BY <1>3, <1>5 DEF Pays
  <2>2. UNCHANGED squidVars
    BY <2>1 DEF RewardClaimed, SquidClaimed, Skip
  <2>3. /\ known' = known /\ active' = active /\ history' = history /\ service' = service
        /\ total' = total /\ snapshot' = snapshot /\ updates' = updates
    BY <2>2 DEF squidVars
  <2>4. Due(s) = 0
    BY <1>2, <1>5 DEF Due
  <2>5. ClaimedBy(service) = [ClaimedBy(service) EXCEPT ![s] = @ + 0]
    <3>1. ClaimedBy(service)[s] \in Nat
      BY <1>3, ColumnsTyped
    <3> QED BY <3>1 DEF ClaimedBy
  <2>6. total.claimed \in Nat
    BY <1>3 DEF TotalRow
  <2>7. updates = [claimable |-> total.rewards, claimed |-> total.claimed]
    BY <1>1 DEF TotalsKept
  <2>8. ClaimedBy(service') = [ClaimedBy(service) EXCEPT ![s] = @ + Due(s)]
    BY <2>3, <2>4, <2>5
  <2>9. total'.claimed = total.claimed + Due(s)
    BY <2>3, <2>4, <2>6
  <2>10. SnapshotsKept(d)
    BY <2>3 DEF SnapshotsKept
  <2> QED BY <1>3, <2>3, <2>4, <2>7, <2>8, <2>9, <2>10
<1> QED BY <1>4, <1>5

LEMMA SnapshotsSettle ==
  ASSUME ContractsTyped, SquidTyped, SnapshotsLast, NEW d \in StakeDays, AtDay(d),
         counted' = counted, total'.lastDay = total.lastDay, SnapshotsKept(d)
  PROVE  /\ SnapshotsLast' /\ DOMAIN snapshot' \subseteq StakeDays
         /\ \A x \in DOMAIN snapshot' : Shaped(snapshot'[x])
         /\ \A x \in DOMAIN snapshot : /\ x \in DOMAIN snapshot'
                                       /\ snapshot'[x].services = snapshot[x].services
                                       /\ snapshot'[x].median = snapshot[x].median
<1>1. DOMAIN snapshot \subseteq StakeDays /\ \A x \in DOMAIN snapshot : Shaped(snapshot[x])
  BY DEF SquidTyped
<1>2. CASE snapshot' = snapshot /\ total'.rewards = total.rewards /\ total'.claimed = total.claimed
  <2>1. SnapshotsLast'
    BY <1>2, SnapshotsStay
  <2> QED BY <1>1, <1>2, <2>1
<1>3. CASE ~ (snapshot' = snapshot /\ total'.rewards = total.rewards /\ total'.claimed = total.claimed)
  <2>1. /\ DOMAIN snapshot' = DOMAIN snapshot \cup {d}
        /\ \A x \in DOMAIN snapshot \ {d} : snapshot'[x] = snapshot[x]
        /\ Shaped(snapshot'[d]) /\ snapshot'[d].rewards = total'.rewards
        /\ snapshot'[d].claimed = total'.claimed /\ CountsIn(snapshot'[d]) = counted
        /\ d \in DOMAIN snapshot => /\ snapshot'[d].services = snapshot[d].services
                                    /\ snapshot'[d].median = snapshot[d].median
    BY <1>3 DEF SnapshotsKept
  <2>2. SnapshotsLast'
    BY <2>1, SnapshotsGrow
  <2>3. \A x \in DOMAIN snapshot' : Shaped(snapshot'[x])
    BY <1>1, <2>1
  <2>4. \A x \in DOMAIN snapshot : /\ x \in DOMAIN snapshot'
                                   /\ snapshot'[x].services = snapshot[x].services
                                   /\ snapshot'[x].median = snapshot[x].median
    BY <2>1
  <2> QED BY <1>1, <2>1, <2>2, <2>3, <2>4
<1> QED BY <1>2, <1>3

\* A claim or an unstake ends no epoch: it adds a row that has not ended at most.
RowAdded(id) ==
  /\ \A x \in DOMAIN history : /\ x \in DOMAIN history'
                               /\ history'[x].checkpointed = history[x].checkpointed
  /\ \A x \in DOMAIN history' \ DOMAIN history : x = id /\ history'[x].checkpointed = FALSE

LEMMA EpochsGoOn ==
  ASSUME StakingInv, Contracts' = Contracts, known' = known, epoch' = epoch, active' = active,
         since' = since, left' = left,
         \A q \in Stakers : /\ (service'[q] = None) <=> (service[q] = None)
                            /\ service[q] # None => service'[q].latest \in {None, service[q].latest},
         NEW s \in Stakers, NEW p \in created, RowAdded(<<s, p, epoch[p]>>),
         service[s] # None \/ history' = history
  PROVE  EpochsHaveRows' /\ TimelineContinuous' /\ TimelineGoesOn'
<1>1. /\ ContractsTyped /\ SquidTyped /\ EpochsHaveRows /\ TimelineContinuous /\ TimelineGoesOn
  BY DEF StakingInv
<1>2. Proxies' = Proxies /\ \A q \in Proxies : Ours(q)' <=> Ours(q)
  BY <1>1, Followed
<1>3. \A x \in DOMAIN history : /\ x \in DOMAIN history'
                                /\ history'[x].checkpointed = history[x].checkpointed
  BY DEF RowAdded
<1>4. active \in [Proxies -> [AllEpochs -> {None} \cup SUBSET Stakers]] /\ epoch \in [Proxies -> AllEpochs]
  BY <1>1 DEF ContractsTyped, SquidTyped
<1>5. EpochsHaveRows'
  <2>1. ASSUME NEW x \in Proxies, NEW e \in AllEpochs, active[x][e] # None, NEW q \in active[x][e]
        PROVE  service'[q] # None
    <3>1. q \in Stakers /\ service[q] # None
      BY <1>1, <1>4, <2>1 DEF EpochsHaveRows
    <3> QED BY <3>1
  <2>2. ASSUME NEW q \in Stakers, NEW x \in Proxies, NEW e \in AllEpochs, <<q, x, e>> \in DOMAIN history'
        PROVE  /\ service'[q] # None
               /\ history'[<<q, x, e>>].checkpointed => e < epoch[x]
    <3>1. CASE <<q, x, e>> \in DOMAIN history
      <4>1. service[q] # None /\ (history[<<q, x, e>>].checkpointed => e < epoch[x])
        BY <1>1, <3>1 DEF EpochsHaveRows
      <4>2. history'[<<q, x, e>>].checkpointed = history[<<q, x, e>>].checkpointed
        BY <1>3, <3>1
      <4> QED BY <4>1, <4>2
    <3>2. CASE <<q, x, e>> \notin DOMAIN history
      <4>1. /\ <<q, x, e>> = <<s, p, epoch[p]>> /\ history'[<<q, x, e>>].checkpointed = FALSE
        BY <2>2, <3>2 DEF RowAdded
      <4>2. q = s /\ service[s] # None
        BY <2>2, <3>2, <4>1
      <4> QED BY <4>1, <4>2, Zenon
    <3> QED BY <3>1, <3>2
  <2>3. \A x \in Proxies : \A e \in AllEpochs :
          active'[x][e] # None => \A q \in active'[x][e] : service'[q] # None
    BY <2>1
  <2>4. \A q \in Stakers : \A x \in Proxies : \A e \in AllEpochs :
          <<q, x, e>> \in DOMAIN history' =>
            /\ service'[q] # None
            /\ history'[<<q, x, e>>].checkpointed => e < epoch'[x]
    BY <2>2
  <2> QED BY <1>2, <2>3, <2>4, Zenon DEF EpochsHaveRows, AllEpochs, Epochs
<1>6. ASSUME NEW q \in Stakers, NEW x \in Proxies, Ours(x), since[q][x] # 0, ~ left[q][x]
      PROVE  /\ \A e \in since[q][x] .. epoch[x] - 1 :
                  <<q, x, e>> \in DOMAIN history' /\ history'[<<q, x, e>>].checkpointed
             /\ active[x][epoch[x]] # None /\ q \in active[x][epoch[x]]
             /\ service'[q].latest \in {None, x}
  <2>1. /\ \A e \in since[q][x] .. epoch[x] - 1 :
             <<q, x, e>> \in DOMAIN history /\ history[<<q, x, e>>].checkpointed
        /\ active[x][epoch[x]] # None /\ q \in active[x][epoch[x]]
        /\ service[q].latest \in {None, x}
    BY <1>1, <1>6, Zenon DEF TimelineContinuous, TimelineGoesOn
  <2>2. service[q] # None
    BY <1>1, <1>4, <2>1 DEF EpochsHaveRows
  <2>3. service'[q].latest \in {None, x}
    BY <2>1, <2>2
  <2>4. \A e \in since[q][x] .. epoch[x] - 1 :
          <<q, x, e>> \in DOMAIN history' /\ history'[<<q, x, e>>].checkpointed
    BY <1>3, <2>1
  <2> QED BY <2>1, <2>3, <2>4
<1>7. TimelineContinuous'
  BY <1>2, <1>6, Zenon DEF TimelineContinuous
<1>8. TimelineGoesOn'
  BY <1>2, <1>6, Zenon DEF TimelineGoesOn
<1> QED BY <1>5, <1>7, <1>8

LEMMA ClaimKeeps ==
  ASSUME StakingInv, NEW s \in Stakers, NEW p \in created, NEW d \in StakeDays,
         RewardClaimed(s, p, d)
  PROVE  StakingInv'
<1>1. /\ ContractsTyped /\ SquidTyped /\ StakesHaveRows /\ RewardsKept /\ TotalsKept
      /\ SnapshotsLast /\ SubgraphTyped
  BY DEF StakingInv
<1>2. /\ Contracts' = Contracts /\ created' = created /\ stakedIn' = stakedIn /\ epoch' = epoch
      /\ taken' = taken /\ forfeited' = forfeited /\ since' = since /\ left' = left
      /\ counted' = counted /\ sgService' = sgService /\ sgTotal' = sgTotal /\ stakeDay' = d
      /\ AtDay(d) /\ pending' = [pending EXCEPT ![s] = 0] /\ stakedIn[s] = p
  BY DEF RewardClaimed, subgraphVars, ghostVars, AtDay
<1>3. /\ known' = known /\ active' = active /\ history' = history /\ service' \in RowTable
      /\ EarnedBy(service') = EarnedBy(service) /\ EpochsBy(service') = EpochsBy(service)
      /\ ClaimedBy(service') = [ClaimedBy(service) EXCEPT ![s] = @ + Due(s)]
      /\ HeldBy(service') = HeldBy(service) /\ LockedBy(service') = LockedBy(service)
      /\ \A q \in Stakers : /\ (service'[q] = None) <=> (service[q] = None)
                            /\ service[q] # None => service'[q].latest = service[q].latest
      /\ total' \in TotalRow /\ total'.in = total.in /\ total'.out = total.out
      /\ total'.current = total.current /\ total'.rewards = total.rewards
      /\ total'.claimed = total.claimed + Due(s) /\ total'.lastDay = total.lastDay
      /\ updates' = [claimable |-> total'.rewards, claimed |-> total'.claimed]
      /\ Due(s) \in Nat /\ SnapshotsKept(d)
  BY RewardClaimedEffect
<1>4. p \in Proxies /\ Proxies' = Proxies /\ p # None
  BY <1>1, <1>2, ContractFacts DEF ContractsTyped, Proxies
<1>5. service \in RowTable /\ \A q \in Stakers : ClaimedBy(service)[q] \in Nat
  BY <1>1, <1>4, StateFacts, ColumnsTyped
<1>6. ContractsTyped'
  <2>1. pending' \in [Stakers -> Nat]
    BY <1>1, <1>2 DEF ContractsTyped
  <2>2. \A q \in Stakers : stakedIn[q] = None => pending'[q] = 0
    BY <1>1, <1>2 DEF ContractsTyped
  <2> QED BY <1>1, <1>2, <1>3, <1>4, <2>1, <2>2 DEF ContractsTyped, AllEpochs, Epochs
<1>7. /\ SnapshotsLast' /\ DOMAIN snapshot' \subseteq StakeDays
      /\ \A x \in DOMAIN snapshot' : Shaped(snapshot'[x])
  BY <1>1, <1>2, <1>3, SnapshotsSettle
<1>8. \A q \in Stakers : EpochsOf(q)' = EpochsOf(q)
  BY <1>3 DEF EpochsOf
<1>9. SquidTyped'
  <2>1. service' \in [Stakers -> {None} \cup ServiceRow(Proxies)]
    BY <1>3 DEF RowTable
  <2> QED BY <1>1, <1>3, <1>4, <1>7, <1>8, <2>1 DEF SquidTyped, Shaped, AllEpochs, Epochs
<1>10. StakesHaveRows'
  <2> SUFFICES ASSUME NEW q \in Stakers
               PROVE  /\ stakedIn'[q] # None /\ Ours(stakedIn[q])' => service'[q] # None
                      /\ stakedIn'[q] = None => taken'[q] = 0
                      /\ stakedIn'[q] # None /\ ~ Ours(stakedIn[q])' => taken'[q] = 0
                      /\ service'[q] = None => forfeited'[q] = 0
                      /\ HeldBy(service')[q] = taken'[q] /\ LockedBy(service')[q] = taken'[q]
    BY DEF StakesHaveRows
  <2>1. Ours(stakedIn[q])' <=> Ours(stakedIn[q])
    BY <1>2, <1>3 DEF Ours
  <2>2. /\ stakedIn[q] # None /\ Ours(stakedIn[q]) => service[q] # None
        /\ stakedIn[q] = None => taken[q] = 0
        /\ stakedIn[q] # None /\ ~ Ours(stakedIn[q]) => taken[q] = 0
        /\ service[q] = None => forfeited[q] = 0
        /\ HeldBy(service)[q] = taken[q] /\ LockedBy(service)[q] = taken[q]
    BY <1>1 DEF StakesHaveRows
  <2> QED BY <1>2, <1>3, <2>1, <2>2
<1>11. EpochsHaveRows' /\ TimelineContinuous' /\ TimelineGoesOn'
  <2>1. RowAdded(<<s, p, epoch[p]>>)
    BY <1>3 DEF RowAdded
  <2>2. \A q \in Stakers : /\ (service'[q] = None) <=> (service[q] = None)
                           /\ service[q] # None => service'[q].latest \in {None, service[q].latest}
    BY <1>3
  <2> QED BY <1>2, <1>3, <2>1, <2>2, EpochsGoOn
<1>12. RewardsKept'
  <2> SUFFICES ASSUME NEW q \in Stakers PROVE Balanced(q)'
    BY DEF RewardsKept
  <2>1. /\ EarnedBy(service)[q] = Total(RewardsIn, Ended(q))
        /\ EarnedBy(service)[q] = ClaimedBy(service)[q] + Due(q) + forfeited[q]
        /\ EpochsBy(service)[q] = Cardinality(EpochsOf(q))
    BY <1>1 DEF RewardsKept, Balanced
  <2>2. RewardsIn' = RewardsIn /\ Ended(q)' = Ended(q)
    BY <1>2, <1>3, <1>8 DEF RewardsIn, Ended
  <2>3. Pays(stakedIn[q])' <=> Pays(stakedIn[q])
    BY <1>2, <1>3 DEF Pays, Ours
  <2>4. EarnedBy(service')[q] = ClaimedBy(service')[q] + Due(q)' + forfeited'[q]
    <3>1. CASE q = s
      <4>1. Due(q)' = 0
        BY <1>1, <1>2, <3>1 DEF Due, ContractsTyped
      <4>2. PICK c \in Nat : c = ClaimedBy(service)[s]
        BY <1>5
      <4>3. ClaimedBy(service')[s] = c + Due(s)
        BY <1>3, <4>2 DEF ClaimedBy
      <4>4. PICK u \in Nat : u = Due(s)
        BY <1>3
      <4>5. PICK f \in Nat : f = forfeited[s]
        BY <1>1 DEF ContractsTyped
      <4>6. EarnedBy(service')[s] = c + u + f
        BY <1>3, <2>1, <3>1, <4>2, <4>4, <4>5
      <4>7. ClaimedBy(service')[s] = c + u /\ forfeited'[s] = f
        BY <1>2, <4>3, <4>4, <4>5
      <4> QED BY <3>1, <4>1, <4>6, <4>7
    <3>2. CASE q # s
      <4>1. Due(q)' = Due(q)
        BY <1>1, <1>2, <2>3, <3>2 DEF Due, ContractsTyped
      <4>2. ClaimedBy(service')[q] = ClaimedBy(service)[q]
        BY <1>3, <3>2 DEF ClaimedBy
      <4> QED BY <1>2, <1>3, <2>1, <4>1, <4>2
    <3> QED BY <3>1, <3>2
  <2> QED BY <1>3, <1>8, <2>1, <2>2, <2>4 DEF Balanced
<1>13. TotalsKept'
  <2>1. Total(ClaimedBy(service'), Stakers) = Total(ClaimedBy(service), Stakers) + Due(s)
    <3>1. PICK f : f = ClaimedBy(service)
      OBVIOUS
    <3>2. PICK g : g = ClaimedBy(service')
      OBVIOUS
    <3>3. PICK u \in Nat : u = Due(s)
      BY <1>3
    <3>4. DOMAIN f = Stakers
      BY <3>1 DEF ClaimedBy
    <3>5. g = [f EXCEPT ![s] = @ + u]
      BY <1>3, <3>1, <3>2, <3>3
    <3>6. /\ \A q \in Stakers : f[q] \in Nat
          /\ g[s] = f[s] + u /\ \A q \in Stakers \ {s} : f[q] = g[q]
      BY <1>5, <3>1, <3>4, <3>5
    <3>7. \A q \in Stakers : f[q] \in Int /\ g[q] \in Int
      BY <3>6
    <3>8. IsFiniteSet(Stakers)
      BY ConstantFacts
    <3>9. Total(g, Stakers) = Total(f, Stakers) + (g[s] - f[s])
      BY <3>6, <3>7, <3>8, SumChange
    <3>10. g[s] - f[s] = u
      BY <3>6
    <3> QED BY <3>1, <3>2, <3>3, <3>9, <3>10
  <2>2. /\ total.current = Total(taken, Stakers) /\ total.current = total.in - total.out
        /\ total.rewards = Total(EarnedBy(service), Stakers)
        /\ total.claimed = Total(ClaimedBy(service), Stakers)
    BY <1>1 DEF TotalsKept
  <2> QED BY <1>2, <1>3, <2>1, <2>2 DEF TotalsKept
<1>14. SubgraphTyped'
  <2>1. Deposits' = Deposits
    BY <1>2 DEF Deposits
  <2> QED BY <1>1, <1>2, <2>1 DEF SubgraphTyped, SubgraphTotal
<1> QED BY <1>6, <1>7, <1>9, <1>10, <1>11, <1>12, <1>13, <1>14 DEF StakingInv

LEMMA ClaimAgrees ==
  ASSUME StakingInv, AgreeInv, NEW s \in Stakers, NEW p \in created, NEW d \in StakeDays,
         RewardClaimed(s, p, d)
  PROVE  AgreeInv'
<1>1. ContractsTyped /\ SquidTyped /\ SnapshotsLast
  BY DEF StakingInv
<1>2. /\ Contracts' = Contracts /\ stakedIn' = stakedIn /\ taken' = taken
      /\ counted' = counted /\ sgService' = sgService /\ sgTotal' = sgTotal
      /\ sgSnapshot' = sgSnapshot /\ AtDay(d)
  BY DEF RewardClaimed, subgraphVars, ghostVars
<1>3. /\ EarnedBy(service') = EarnedBy(service)
      /\ \A q \in Stakers : /\ (service'[q] = None) <=> (service[q] = None)
                            /\ service[q] # None => service'[q].olas = service[q].olas
      /\ total'.in = total.in /\ total'.rewards = total.rewards
      /\ total'.lastDay = total.lastDay /\ SnapshotsKept(d)
  BY RewardClaimedEffect
<1>4. \A x \in DOMAIN snapshot : /\ x \in DOMAIN snapshot'
                                 /\ snapshot'[x].services = snapshot[x].services
                                 /\ snapshot'[x].median = snapshot[x].median
  BY <1>1, <1>2, <1>3, SnapshotsSettle
<1>5. SUFFICES ASSUME Alike
               PROVE  /\ Same' /\ total'.in >= sgTotal'.in
                      /\ total'.in = sgTotal'.in => SameStakes'
  BY <1>2, Zenon DEF AgreeInv, Alike, Proxies
<1>6. /\ Same /\ total.in >= sgTotal.in
      /\ total.in = sgTotal.in => SameStakes
  BY <1>5 DEF AgreeInv
<1>7. Same'
  <2>1. ASSUME NEW q \in Stakers, service'[q] # None
        PROVE  service'[q].earned = sgService[q].earned /\ service'[q].olas
    <3>1. service[q] # None
      BY <1>3, <2>1
    <3>2. service[q].earned = sgService[q].earned /\ service[q].olas
      BY <1>6, <3>1 DEF Same
    <3>3. EarnedBy(service')[q] = service'[q].earned /\ EarnedBy(service)[q] = service[q].earned
      BY <2>1, <3>1 DEF EarnedBy
    <3> QED BY <1>3, <3>1, <3>2, <3>3
  <2> QED BY <1>2, <1>3, <1>4, <1>6, <2>1 DEF Same
<1>8. SameStakes' <=> SameStakes
  BY <1>2 DEF SameStakes, Deposits
<1> QED BY <1>2, <1>3, <1>6, <1>7, <1>8

-----------------------------------------------------------------------------
(* handleServiceUnstaked. *)

\* What an unstake pays out.
PaidOut(s, p, forced) == IF Pays(p) /\ ~ forced THEN pending[s] ELSE 0

\* What an unstake does to the rows.
LEMMA UnstakedRows ==
  ASSUME StakingInv, NEW s \in Stakers, NEW p \in created, NEW forced \in BOOLEAN,
         NEW d \in StakeDays, ServiceUnstaked(s, p, forced, d), Ours(p)
  PROVE  /\ service' \in RowTable /\ service[s] # None
         /\ EarnedBy(service') = EarnedBy(service)
         /\ ClaimedBy(service') = [ClaimedBy(service) EXCEPT ![s] = @ + PaidOut(s, p, forced)]
         /\ HeldBy(service') = [HeldBy(service) EXCEPT ![s] = 0]
         /\ LockedBy(service') = [LockedBy(service) EXCEPT ![s] = 0]
         /\ \A q \in Stakers : /\ (service'[q] = None) <=> (service[q] = None)
                               /\ service[q] # None =>
                                    /\ service'[q].latest \in {None, service[q].latest}
                                    /\ service'[q].olas = service[q].olas
         /\ \A q \in Stakers : /\ IsFiniteSet(EpochsOf(q)')
                               /\ EpochsBy(service')[q] = Cardinality(EpochsOf(q)')
<1>1. /\ ContractsTyped /\ SquidTyped /\ StakesHaveRows /\ RewardsKept
  BY DEF StakingInv
<1>2. /\ p \in Proxies /\ stakedIn[s] = p /\ Contracts' = Contracts /\ pending[s] \in Nat
  BY <1>1 DEF ContractsTyped, ServiceUnstaked
<1>3. /\ service \in RowTable /\ None \notin ServiceRow(Proxies) /\ p # None
      /\ Contracts[p].olas \in BOOLEAN
  BY <1>1, <1>2, StateFacts
<1>4. service[s] # None /\ HeldBy(service)[s] = taken[s] /\ LockedBy(service)[s] = taken[s]
  BY <1>1, <1>2, <1>3 DEF StakesHaveRows
<1>5. PICK r \in ServiceRow(Proxies) : r = service[s]
  BY <1>3, <1>4 DEF RowTable
<1>6. r.staked = r.stake
  BY <1>4, <1>5 DEF HeldBy, LockedBy
<1>7. PICK n \in Nat : n = PaidOut(s, p, forced)
  BY <1>2 DEF PaidOut
<1>8. (IF Paid(p, forced) THEN pending[s] ELSE 0) = n
  <2>1. Paid(p, forced) <=> Pays(p) /\ ~ forced
    BY <1>3 DEF Paid, Pays
  <2> QED BY <1>7, <2>1 DEF PaidOut
<1>9. PICK new : new = [r EXCEPT !.latest = None, !.claimed = r.claimed + n,
                                 !.staked = r.staked - r.stake, !.stake = 0]
  OBVIOUS
<1>10. new = [staked |-> r.staked - r.stake, stake |-> 0, olas |-> r.olas, earned |-> r.earned,
              claimed |-> r.claimed + n, epochs |-> r.epochs, latest |-> None]
  BY <1>9 DEF ServiceRow
<1>11. /\ r.staked \in Int /\ r.stake \in Nat /\ r.olas \in BOOLEAN /\ r.earned \in Nat
       /\ r.claimed \in Nat /\ r.epochs \in Nat
  BY DEF ServiceRow
<1>12. new \in ServiceRow(Proxies)
  BY <1>10, <1>11 DEF ServiceRow
<1>13. /\ new.staked = 0 /\ new.stake = 0 /\ new.olas = r.olas /\ new.earned = r.earned
       /\ new.claimed = r.claimed + n /\ new.epochs = r.epochs /\ new.latest = None
  <2>1. r.staked - r.stake = 0
    BY <1>6, <1>11
  <2> QED BY <1>10, <2>1
<1>14. PICK staged : staged = [service EXCEPT ![s] = new]
  OBVIOUS
<1>15. PICK id : id = <<s, p, epoch[p]>>
  OBVIOUS
<1>16. /\ service' = Participated({id}, staged) /\ DOMAIN history' = DOMAIN history \cup {id}
  <2>1. [service EXCEPT ![s].latest = None,
                        ![s].claimed = @ + n,
                        ![s].staked = @ - Returned(s, p), ![s].stake = 0] = staged
    BY <1>3, <1>5, <1>9, <1>14 DEF RowTable, Returned
  <2>2. service' = Participated({<<s, p, epoch[p]>>}, [service EXCEPT
          ![s].latest = None, ![s].claimed = @ + (IF Paid(p, forced) THEN pending[s] ELSE 0),
          ![s].staked = @ - Returned(s, p), ![s].stake = 0])
        /\ DOMAIN history' = DOMAIN history \cup {<<s, p, epoch[p]>>}
    BY DEF ServiceUnstaked, SquidUnstaked, Put
  <2> QED BY <1>8, <1>15, <2>1, <2>2
<1>17. new # None /\ r # None
  BY <1>3, <1>12
<1>18. staged \in RowTable /\ staged[s] = new /\ \A q \in Stakers \ {s} : staged[q] = service[q]
  BY <1>3, <1>12, <1>14 DEF RowTable
<1>19. EarnedBy(staged) = EarnedBy(service) /\ EpochsBy(staged) = EpochsBy(service)
  <2>1. \A q \in Stakers : /\ EarnedBy(staged)[q] = EarnedBy(service)[q]
                           /\ EpochsBy(staged)[q] = EpochsBy(service)[q]
    BY <1>5, <1>13, <1>17, <1>18 DEF EarnedBy, EpochsBy
  <2> QED BY <2>1 DEF EarnedBy, EpochsBy
<1>20. ClaimedBy(staged) = [ClaimedBy(service) EXCEPT ![s] = @ + n]
  <2>1. \A q \in Stakers : ClaimedBy(staged)[q] = IF q = s THEN ClaimedBy(service)[s] + n
                                                ELSE ClaimedBy(service)[q]
    BY <1>5, <1>13, <1>17, <1>18 DEF ClaimedBy
  <2> QED BY <2>1 DEF ClaimedBy
<1>21. HeldBy(staged) = [HeldBy(service) EXCEPT ![s] = 0]
  <2>1. \A q \in Stakers : HeldBy(staged)[q] = IF q = s THEN 0 ELSE HeldBy(service)[q]
    BY <1>5, <1>13, <1>17, <1>18 DEF HeldBy
  <2> QED BY <2>1 DEF HeldBy
<1>22. LockedBy(staged) = [LockedBy(service) EXCEPT ![s] = 0]
  <2>1. \A q \in Stakers : LockedBy(staged)[q] = IF q = s THEN 0 ELSE LockedBy(service)[q]
    BY <1>5, <1>13, <1>17, <1>18 DEF LockedBy
  <2> QED BY <2>1 DEF LockedBy
<1>23. \A q \in Stakers : /\ IsFiniteSet(EpochsOf(q))
                          /\ EpochsBy(staged)[q] = Cardinality(EpochsOf(q))
                          /\ staged[q] = None => NewIds({id}, q) = {}
  <2>1. \A q \in Stakers : staged[q] = None => q # s
    BY <1>17, <1>18
  <2>2. \A q \in Stakers : q # s => NewIds({id}, q) = {}
    BY <1>15 DEF NewIds
  <2>3. \A q \in Stakers : IsFiniteSet(EpochsOf(q)) /\ EpochsBy(staged)[q] = Cardinality(EpochsOf(q))
    BY <1>1, <1>19 DEF SquidTyped, RewardsKept, Balanced
  <2> QED BY <2>1, <2>2, <2>3
<1>24. OneEach({id})
  BY DEF OneEach
<1>25. /\ service' \in RowTable /\ SameRows(service', staged)
       /\ \A q \in Stakers : /\ IsFiniteSet(EpochsOf(q)')
                             /\ EpochsBy(service')[q] = Cardinality(EpochsOf(q)')
  BY <1>2, <1>3, <1>16, <1>18, <1>23, <1>24, RowsGrow
<1>26. /\ EarnedBy(service') = EarnedBy(staged) /\ ClaimedBy(service') = ClaimedBy(staged)
       /\ HeldBy(service') = HeldBy(staged) /\ LockedBy(service') = LockedBy(staged)
  BY <1>25, SameColumns
<1>27. \A q \in Stakers : /\ (staged[q] = None) <=> (service[q] = None)
                          /\ service[q] # None => /\ staged[q].latest \in {None, service[q].latest}
                                                  /\ staged[q].olas = service[q].olas
  BY <1>5, <1>13, <1>17, <1>18
<1>28. \A q \in Stakers : /\ (service'[q] = None) <=> (service[q] = None)
                          /\ service[q] # None =>
                               /\ service'[q].latest \in {None, service[q].latest}
                               /\ service'[q].olas = service[q].olas
  BY <1>25, <1>27 DEF SameRows, SameRow
<1>29. ClaimedBy(service') = [ClaimedBy(service) EXCEPT ![s] = @ + PaidOut(s, p, forced)]
  BY <1>7, <1>20, <1>26
<1> QED BY <1>4, <1>19, <1>21, <1>22, <1>25, <1>26, <1>28, <1>29

\* What an unstake does to the totals.
LEMMA UnstakedTotals ==
  ASSUME StakingInv, NEW s \in Stakers, NEW p \in created, NEW forced \in BOOLEAN,
         NEW d \in StakeDays, ServiceUnstaked(s, p, forced, d), Ours(p)
  PROVE  /\ total' \in TotalRow /\ total'.in = total.in
         /\ total'.out = total.out + taken[s] /\ total'.current = total.current - taken[s]
         /\ total'.rewards = total.rewards
         /\ total'.claimed = total.claimed + PaidOut(s, p, forced)
         /\ total'.lastDay = total.lastDay
         /\ updates' = [claimable |-> total'.rewards, claimed |-> total'.claimed]
         /\ SnapshotsKept(d)
<1>1. /\ ContractsTyped /\ SquidTyped /\ StakesHaveRows /\ TotalsKept /\ SnapshotsLast
  BY DEF StakingInv
<1>2. /\ p \in Proxies /\ stakedIn[s] = p /\ AtDay(d) /\ pending[s] \in Nat
      /\ taken \in [Stakers -> Nat] /\ IsFiniteSet(Stakers)
  BY <1>1, ConstantFacts DEF ContractsTyped, ServiceUnstaked
<1>3. /\ total \in TotalRow /\ p # None /\ Contracts[p].olas \in BOOLEAN
  BY <1>1, <1>2, StateFacts
<1>4. PICK n \in Nat : n = taken[s]
  BY <1>2
<1>5. Returned(s, p) = n
  <2>1. service[s] # None /\ LockedBy(service)[s] = taken[s]
    BY <1>1, <1>2, <1>3 DEF StakesHaveRows
  <2> QED BY <1>4, <2>1 DEF LockedBy, Returned
<1>6. PICK t \in TotalRow : t = total
  BY <1>3
<1>7. t.current - n \in Nat
  <2>1. Total(taken, Stakers) = taken[s] + Total(taken, Stakers \ {s})
    BY <1>2, SumSplit
  <2>2. IsFiniteSet(Stakers \ {s})
    BY <1>2, FS_Subset
  <2>3. Total(taken, Stakers \ {s}) \in Nat
    BY <1>2, <2>2, SumNatural
  <2>4. t.current = Total(taken, Stakers)
    BY <1>1, <1>6 DEF TotalsKept
  <2> QED BY <1>4, <2>1, <2>3, <2>4
<1>8. PICK sums : sums = [t EXCEPT !.out = t.out + n, !.current = t.current - n]
  OBVIOUS
<1>9. sums = [in |-> t.in, out |-> t.out + n, current |-> t.current - n, rewards |-> t.rewards,
              claimed |-> t.claimed, lastDay |-> t.lastDay]
  BY <1>8 DEF TotalRow
<1>10. /\ sums \in TotalRow /\ sums.in = t.in /\ sums.out = t.out + n
       /\ sums.current = t.current - n /\ sums.rewards = t.rewards /\ sums.claimed = t.claimed
       /\ sums.lastDay = t.lastDay
  BY <1>7, <1>9 DEF TotalRow
<1>11. IF Paid(p, forced) THEN Claimed(sums, pending[s], d)
       ELSE total' = sums /\ UNCHANGED <<snapshot, updates>>
  <2>1. [total EXCEPT !.out = @ + Returned(s, p), !.current = @ - Returned(s, p)] = sums
    BY <1>5, <1>6, <1>8
  <2>2. IF Paid(p, forced)
        THEN Claimed([total EXCEPT !.out = @ + Returned(s, p), !.current = @ - Returned(s, p)],
                     pending[s], d)
        ELSE total' = [total EXCEPT !.out = @ + Returned(s, p), !.current = @ - Returned(s, p)]
             /\ UNCHANGED <<snapshot, updates>>
    BY DEF ServiceUnstaked, SquidUnstaked
  <2> QED BY <2>1, <2>2
<1>12. Paid(p, forced) <=> Pays(p) /\ ~ forced
  BY <1>3 DEF Paid, Pays
<1>13. CASE Paid(p, forced)
  <2>1. Claimed(sums, pending[s], d)
    BY <1>11, <1>13
  <2>2. /\ total' \in TotalRow /\ total'.in = sums.in /\ total'.out = sums.out
        /\ total'.current = sums.current /\ total'.rewards = total.rewards
        /\ total'.claimed = total.claimed + pending[s] /\ total'.lastDay = sums.lastDay
        /\ updates' = [claimable |-> total'.rewards, claimed |-> total'.claimed]
        /\ DOMAIN snapshot' = DOMAIN snapshot \cup {d}
        /\ \A x \in DOMAIN snapshot \ {d} : snapshot'[x] = snapshot[x]
        /\ Shaped(snapshot'[d]) /\ snapshot'[d].rewards = total'.rewards
        /\ snapshot'[d].claimed = total'.claimed /\ CountsIn(snapshot'[d]) = counted
        /\ d \in DOMAIN snapshot => /\ snapshot'[d].services = snapshot[d].services
                                    /\ snapshot'[d].median = snapshot[d].median
    BY <1>1, <1>2, <1>6, <1>10, <2>1, ClaimedIs
  <2>3. SnapshotsKept(d)
    BY <2>2 DEF SnapshotsKept
  <2>4. PaidOut(s, p, forced) = pending[s]
    BY <1>12, <1>13 DEF PaidOut
  <2> QED BY <1>4, <1>6, <1>10, <2>2, <2>3, <2>4
<1>14. CASE ~ Paid(p, forced)
  <2>1. total' = sums /\ snapshot' = snapshot /\ updates' = updates
    BY <1>11, <1>14
  <2>2. PaidOut(s, p, forced) = 0 /\ t.claimed \in Nat
    BY <1>12, <1>14 DEF PaidOut, TotalRow
  <2>3. SnapshotsKept(d)
    BY <1>6, <1>10, <2>1 DEF SnapshotsKept
  <2>4. updates' = [claimable |-> total'.rewards, claimed |-> total'.claimed]
    BY <1>1, <1>6, <1>10, <2>1 DEF TotalsKept
  <2> QED BY <1>4, <1>6, <1>10, <2>1, <2>2, <2>3, <2>4
<1> QED BY <1>13, <1>14

\* What an unstake does to the history.
LEMMA UnstakedHistory ==
  ASSUME StakingInv, NEW s \in Stakers, NEW p \in created, NEW forced \in BOOLEAN,
         NEW d \in StakeDays, ServiceUnstaked(s, p, forced, d), Ours(p)
  PROVE  /\ RowAdded(<<s, p, epoch[p]>>)
         /\ DOMAIN history' \subseteq Stakers \X Proxies \X AllEpochs
         /\ \A id \in DOMAIN history' : history'[id] \in [reward : Nat, checkpointed : BOOLEAN]
         /\ \A q \in Stakers : Total(RewardsIn', Ended(q)') = Total(RewardsIn, Ended(q))
<1>1. /\ ContractsTyped /\ SquidTyped /\ EpochsHaveRows
  BY DEF StakingInv
<1>2. p \in Proxies /\ Contracts' = Contracts /\ pending[s] \in Nat
  BY <1>1 DEF ContractsTyped, ServiceUnstaked
<1>3. epoch[p] \in AllEpochs /\ epoch[p] \in Nat
  BY <1>1, <1>2, StateFacts
<1>4. PICK id : id = <<s, p, epoch[p]>>
  OBVIOUS
<1>5. PICK n \in Nat : n = pending[s]
  BY <1>2
<1>6. PICK h \in [reward : Nat, checkpointed : BOOLEAN] : h = HistoryRow(id)
  <2>1. [reward |-> 0, checkpointed |-> FALSE] \in [reward : Nat, checkpointed : BOOLEAN]
    OBVIOUS
  <2> QED BY <1>1, <2>1 DEF HistoryRow, SquidTyped
<1>7. h.checkpointed = FALSE /\ (id \in DOMAIN history => history[id].checkpointed = FALSE)
  <2>1. CASE id \in DOMAIN history
    <3>1. ~ history[id].checkpointed
      BY <1>1, <1>2, <1>3, <1>4, <2>1 DEF EpochsHaveRows
    <3>2. h = history[id]
      BY <1>6, <2>1 DEF HistoryRow
    <3>3. h.checkpointed \in BOOLEAN
      OBVIOUS
    <3> QED BY <3>1, <3>2, <3>3, Zenon
  <2>2. CASE id \notin DOMAIN history
    BY <1>6, <2>2 DEF HistoryRow
  <2> QED BY <2>1, <2>2
<1>8. PICK row : row = [h EXCEPT !.reward = n]
  OBVIOUS
<1>9. row \in [reward : Nat, checkpointed : BOOLEAN] /\ row.checkpointed = FALSE
  BY <1>7, <1>8
<1>10. history' = [x \in DOMAIN history \cup {id} |-> IF x = id THEN row ELSE history[x]]
  BY <1>4, <1>5, <1>6, <1>8 DEF ServiceUnstaked, SquidUnstaked, Put
<1>11. /\ DOMAIN history' = DOMAIN history \cup {id} /\ history'[id] = row
       /\ \A x \in DOMAIN history \ {id} : history'[x] = history[x]
  BY <1>10
<1>12. RowAdded(id)
  BY <1>7, <1>9, <1>11 DEF RowAdded
<1>13. DOMAIN history' \subseteq Stakers \X Proxies \X AllEpochs
  BY <1>1, <1>2, <1>3, <1>4, <1>11 DEF SquidTyped
<1>14. \A x \in DOMAIN history' : history'[x] \in [reward : Nat, checkpointed : BOOLEAN]
  BY <1>1, <1>9, <1>11 DEF SquidTyped
<1>15. ASSUME NEW q \in Stakers PROVE Total(RewardsIn', Ended(q)') = Total(RewardsIn, Ended(q))
  <2>1. Others(q, id)
    BY <1>11 DEF Others
  <2>2. id \notin Ended(q) /\ id \notin Ended(q)'
    BY <1>7, <1>9, <1>11, Zenon DEF Ended, EpochsOf
  <2>3. IsFiniteSet(EpochsOf(q))
    BY <1>1 DEF SquidTyped
  <2> QED BY <1>2, <2>1, <2>2, <2>3, EndedSame
<1> QED BY <1>4, <1>12, <1>13, <1>14, <1>15

\* What an unstake leaves behind, whether or not the squid follows the contract.
UnstakeDone(s, p, forced, d) ==
  /\ known' = known /\ active' = active /\ service' \in RowTable
  /\ EarnedBy(service') = EarnedBy(service)
  /\ ClaimedBy(service') = [ClaimedBy(service) EXCEPT ![s] = @ + PaidOut(s, p, forced)]
  /\ \A q \in Stakers : HeldBy(service')[q] = taken'[q] /\ LockedBy(service')[q] = taken'[q]
  /\ \A q \in Stakers : /\ (service'[q] = None) <=> (service[q] = None)
                        /\ service[q] # None =>
                             /\ service'[q].latest \in {None, service[q].latest}
                             /\ service'[q].olas = service[q].olas
  /\ \A q \in Stakers : /\ IsFiniteSet(EpochsOf(q)')
                        /\ EpochsBy(service')[q] = Cardinality(EpochsOf(q)')
                        /\ Total(RewardsIn', Ended(q)') = Total(RewardsIn, Ended(q))
  /\ total' \in TotalRow /\ total'.in = total.in
  /\ total'.out = total.out + taken[s] /\ total'.current = total.current - taken[s]
  /\ total'.rewards = total.rewards
  /\ total'.claimed = total.claimed + PaidOut(s, p, forced)
  /\ total'.lastDay = total.lastDay
  /\ updates' = [claimable |-> total'.rewards, claimed |-> total'.claimed]
  /\ SnapshotsKept(d) /\ RowAdded(<<s, p, epoch[p]>>)
  /\ service[s] # None \/ history' = history
  /\ DOMAIN history' \subseteq Stakers \X Proxies \X AllEpochs
  /\ \A id \in DOMAIN history' : history'[id] \in [reward : Nat, checkpointed : BOOLEAN]

LEMMA UnstakedEffect ==
  ASSUME StakingInv, NEW s \in Stakers, NEW p \in created, NEW forced \in BOOLEAN,
         NEW d \in StakeDays, ServiceUnstaked(s, p, forced, d)
  PROVE  UnstakeDone(s, p, forced, d)
<1>1. /\ ContractsTyped /\ SquidTyped /\ StakesHaveRows /\ TotalsKept /\ RewardsKept
  BY DEF StakingInv
<1>2. /\ p \in Proxies /\ stakedIn[s] = p /\ pending[s] \in Nat /\ Contracts' = Contracts
      /\ taken \in [Stakers -> Nat] /\ taken' = [taken EXCEPT ![s] = 0]
  BY <1>1 DEF ContractsTyped, ServiceUnstaked
<1>3. service \in RowTable /\ total \in TotalRow /\ p # None
  BY <1>1, <1>2, StateFacts
<1>4. \A q \in Stakers : HeldBy(service)[q] = taken[q] /\ LockedBy(service)[q] = taken[q]
  BY <1>1 DEF StakesHaveRows
<1>5. CASE Ours(p)
  <2>1. known' = known /\ active' = active
    BY <1>5 DEF ServiceUnstaked, SquidUnstaked
  <2>2. /\ service' \in RowTable /\ service[s] # None
        /\ EarnedBy(service') = EarnedBy(service)
        /\ ClaimedBy(service') = [ClaimedBy(service) EXCEPT ![s] = @ + PaidOut(s, p, forced)]
        /\ HeldBy(service') = [HeldBy(service) EXCEPT ![s] = 0]
        /\ LockedBy(service') = [LockedBy(service) EXCEPT ![s] = 0]
        /\ \A q \in Stakers : /\ (service'[q] = None) <=> (service[q] = None)
                              /\ service[q] # None =>
                                   /\ service'[q].latest \in {None, service[q].latest}
                                   /\ service'[q].olas = service[q].olas
        /\ \A q \in Stakers : /\ IsFiniteSet(EpochsOf(q)')
                              /\ EpochsBy(service')[q] = Cardinality(EpochsOf(q)')
    BY <1>5, UnstakedRows
  <2>3. \A q \in Stakers : HeldBy(service')[q] = taken'[q] /\ LockedBy(service')[q] = taken'[q]
    <3>1. DOMAIN HeldBy(service) = Stakers /\ DOMAIN LockedBy(service) = Stakers
      BY DEF HeldBy, LockedBy
    <3> QED BY <1>2, <1>4, <2>2, <3>1
  <2>4. /\ total' \in TotalRow /\ total'.in = total.in
        /\ total'.out = total.out + taken[s] /\ total'.current = total.current - taken[s]
        /\ total'.rewards = total.rewards
        /\ total'.claimed = total.claimed + PaidOut(s, p, forced)
        /\ total'.lastDay = total.lastDay
        /\ updates' = [claimable |-> total'.rewards, claimed |-> total'.claimed]
        /\ SnapshotsKept(d)
    BY <1>5, UnstakedTotals
  <2>5. /\ RowAdded(<<s, p, epoch[p]>>)
        /\ DOMAIN history' \subseteq Stakers \X Proxies \X AllEpochs
        /\ \A id \in DOMAIN history' : history'[id] \in [reward : Nat, checkpointed : BOOLEAN]
        /\ \A q \in Stakers : Total(RewardsIn', Ended(q)') = Total(RewardsIn, Ended(q))
    BY <1>5, UnstakedHistory
  <2> QED BY <2>1, <2>2, <2>3, <2>4, <2>5 DEF UnstakeDone
<1>6. CASE ~ Ours(p)
  <2>1. UNCHANGED squidVars
    BY <1>6 DEF ServiceUnstaked, Skip
  <2>2. /\ known' = known /\ active' = active /\ history' = history /\ service' = service
        /\ total' = total /\ snapshot' = snapshot /\ updates' = updates
    BY <2>1 DEF squidVars
  <2>3. PaidOut(s, p, forced) = 0
    BY <1>6 DEF PaidOut, Pays
  <2>4. taken[s] = 0
    BY <1>1, <1>2, <1>3, <1>6 DEF StakesHaveRows
  <2>5. taken' = taken
    BY <1>2, <2>4
  <2>6. ClaimedBy(service) = [ClaimedBy(service) EXCEPT ![s] = @ + 0]
    <3>1. ClaimedBy(service)[s] \in Nat
      BY <1>3, ColumnsTyped
    <3> QED BY <3>1 DEF ClaimedBy
  <2>7. ClaimedBy(service') = [ClaimedBy(service) EXCEPT ![s] = @ + PaidOut(s, p, forced)]
    BY <2>2, <2>3, <2>6
  <2>8. total.claimed \in Nat /\ total.out \in Nat /\ total.current \in Nat
    BY <1>3 DEF TotalRow
  <2>9. /\ total'.out = total.out + taken[s] /\ total'.current = total.current - taken[s]
        /\ total'.claimed = total.claimed + PaidOut(s, p, forced)
    BY <2>2, <2>3, <2>4, <2>8
  <2>10. updates' = [claimable |-> total'.rewards, claimed |-> total'.claimed]
    BY <1>1, <2>2 DEF TotalsKept
  <2>11. SnapshotsKept(d) /\ RowAdded(<<s, p, epoch[p]>>)
    BY <2>2 DEF SnapshotsKept, RowAdded
  <2>12. \A q \in Stakers : EpochsOf(q)' = EpochsOf(q)
    BY <2>2 DEF EpochsOf
  <2>13. RewardsIn' = RewardsIn /\ \A q \in Stakers : Ended(q)' = Ended(q)
    BY <1>2, <2>2, <2>12 DEF RewardsIn, Ended
  <2>14. \A q \in Stakers : /\ IsFiniteSet(EpochsOf(q))
                            /\ EpochsBy(service)[q] = Cardinality(EpochsOf(q))
    BY <1>1 DEF SquidTyped, RewardsKept, Balanced
  <2>15. \A q \in Stakers : /\ IsFiniteSet(EpochsOf(q)')
                            /\ EpochsBy(service')[q] = Cardinality(EpochsOf(q)')
                            /\ Total(RewardsIn', Ended(q)') = Total(RewardsIn, Ended(q))
    BY <2>2, <2>12, <2>13, <2>14
  <2>16. /\ DOMAIN history' \subseteq Stakers \X Proxies \X AllEpochs
         /\ \A id \in DOMAIN history' : history'[id] \in [reward : Nat, checkpointed : BOOLEAN]
    BY <1>1, <2>2 DEF SquidTyped
  <2> QED BY <1>3, <1>4, <2>2, <2>5, <2>7, <2>9, <2>10, <2>11, <2>15, <2>16
     DEF UnstakeDone
<1> QED BY <1>5, <1>6

LEMMA UnstakeKeepsSquid ==
  ASSUME StakingInv, NEW s \in Stakers, NEW p \in created, NEW forced \in BOOLEAN,
         NEW d \in StakeDays, ServiceUnstaked(s, p, forced, d)
  PROVE  /\ ContractsTyped' /\ SquidTyped' /\ StakesHaveRows' /\ EpochsHaveRows'
         /\ TimelineContinuous' /\ TimelineGoesOn' /\ SnapshotsLast'
<1>1. /\ ContractsTyped /\ SquidTyped /\ StakesHaveRows /\ SnapshotsLast
  BY DEF StakingInv
<1>2. /\ Contracts' = Contracts /\ created' = created /\ epoch' = epoch
      /\ taken' = [taken EXCEPT ![s] = 0] /\ since' = since /\ left' = left
      /\ counted' = counted /\ stakeDay' = d /\ AtDay(d)
      /\ pending' = [pending EXCEPT ![s] = 0] /\ stakedIn' = [stakedIn EXCEPT ![s] = None]
      /\ stakedIn[s] = p
      /\ forfeited' = IF forced /\ Contracts[p].olas /\ Ours(p)
                      THEN [forfeited EXCEPT ![s] = @ + pending[s]] ELSE forfeited
  BY DEF ServiceUnstaked, AtDay
<1>3. /\ known' = known /\ active' = active /\ service' \in RowTable
      /\ \A q \in Stakers : HeldBy(service')[q] = taken'[q] /\ LockedBy(service')[q] = taken'[q]
      /\ \A q \in Stakers : /\ (service'[q] = None) <=> (service[q] = None)
                            /\ service[q] # None => service'[q].latest \in {None, service[q].latest}
      /\ \A q \in Stakers : IsFiniteSet(EpochsOf(q)')
      /\ total' \in TotalRow /\ total'.lastDay = total.lastDay
      /\ SnapshotsKept(d) /\ RowAdded(<<s, p, epoch[p]>>)
      /\ service[s] # None \/ history' = history
      /\ DOMAIN history' \subseteq Stakers \X Proxies \X AllEpochs
      /\ \A id \in DOMAIN history' : history'[id] \in [reward : Nat, checkpointed : BOOLEAN]
  <2>1. UnstakeDone(s, p, forced, d)
    BY UnstakedEffect
  <2> QED BY <2>1 DEF UnstakeDone
<1>4. p \in Proxies /\ Proxies' = Proxies /\ p # None
  BY <1>1, <1>2, ContractFacts DEF ContractsTyped, Proxies
<1>5. /\ pending \in [Stakers -> Nat] /\ forfeited \in [Stakers -> Nat]
      /\ taken \in [Stakers -> Nat] /\ stakedIn \in [Stakers -> Proxies \cup {None}]
  BY <1>1 DEF ContractsTyped
<1>6. \A q \in Stakers : /\ pending'[q] = (IF q = s THEN 0 ELSE pending[q])
                         /\ taken'[q] = (IF q = s THEN 0 ELSE taken[q])
                         /\ stakedIn'[q] = (IF q = s THEN None ELSE stakedIn[q])
  BY <1>2, <1>5
<1>7. forfeited' \in [Stakers -> Nat]
  <2>1. [forfeited EXCEPT ![s] = @ + pending[s]] \in [Stakers -> Nat]
    BY <1>5
  <2> QED BY <1>2, <1>5, <2>1
<1>8. ContractsTyped'
  <2>1. /\ pending' \in [Stakers -> Nat] /\ taken' \in [Stakers -> Nat]
        /\ stakedIn' \in [Stakers -> Proxies \cup {None}]
    BY <1>2, <1>5
  <2>2. \A q \in Stakers : /\ stakedIn'[q] # None => stakedIn'[q] \in created
                           /\ stakedIn'[q] = None => pending'[q] = 0
    BY <1>1, <1>6 DEF ContractsTyped
  <2> QED BY <1>1, <1>2, <1>3, <1>4, <1>7, <2>1, <2>2 DEF ContractsTyped, AllEpochs, Epochs
<1>9. /\ SnapshotsLast' /\ DOMAIN snapshot' \subseteq StakeDays
      /\ \A x \in DOMAIN snapshot' : Shaped(snapshot'[x])
  BY <1>1, <1>2, <1>3, SnapshotsSettle
<1>10. SquidTyped'
  <2>1. service' \in [Stakers -> {None} \cup ServiceRow(Proxies)]
    BY <1>3 DEF RowTable
  <2> QED BY <1>1, <1>3, <1>4, <1>9, <2>1 DEF SquidTyped, Shaped, AllEpochs, Epochs
<1>11. StakesHaveRows'
  <2> SUFFICES ASSUME NEW q \in Stakers
               PROVE  /\ stakedIn'[q] # None /\ Ours(stakedIn[q])' => service'[q] # None
                      /\ stakedIn'[q] = None => taken'[q] = 0
                      /\ stakedIn'[q] # None /\ ~ Ours(stakedIn[q])' => taken'[q] = 0
                      /\ service'[q] = None => forfeited'[q] = 0
                      /\ HeldBy(service')[q] = taken'[q] /\ LockedBy(service')[q] = taken'[q]
    BY DEF StakesHaveRows
  <2>1. /\ stakedIn[q] # None /\ Ours(stakedIn[q]) => service[q] # None
        /\ stakedIn[q] = None => taken[q] = 0
        /\ stakedIn[q] # None /\ ~ Ours(stakedIn[q]) => taken[q] = 0
        /\ service[q] = None => forfeited[q] = 0
    BY <1>1 DEF StakesHaveRows
  <2>2. service'[q] = None => forfeited'[q] = 0
    <3>1. CASE q = s /\ Ours(p)
      BY <1>2, <1>3, <1>4, <2>1, <3>1
    <3>2. CASE ~ (q = s /\ Ours(p))
      <4>1. forfeited'[q] = forfeited[q]
        BY <1>2, <1>5, <3>2
      <4> QED BY <1>3, <2>1, <4>1
    <3> QED BY <3>1, <3>2
  <2>3. CASE q = s
    BY <1>3, <1>6, <2>2, <2>3
  <2>4. CASE q # s
    <3>1. Ours(stakedIn[q])' <=> Ours(stakedIn[q])
      BY <1>2, <1>3, <1>6, <2>4 DEF Ours
    <3> QED BY <1>3, <1>6, <2>1, <2>2, <2>4, <3>1
  <2> QED BY <2>3, <2>4
<1>12. EpochsHaveRows' /\ TimelineContinuous' /\ TimelineGoesOn'
  BY <1>2, <1>3, EpochsGoOn
<1> QED BY <1>8, <1>9, <1>10, <1>11, <1>12

LEMMA UnstakeKeepsSums ==
  ASSUME StakingInv, NEW s \in Stakers, NEW p \in created, NEW forced \in BOOLEAN,
         NEW d \in StakeDays, ServiceUnstaked(s, p, forced, d)
  PROVE  RewardsKept' /\ TotalsKept'
<1>1. /\ ContractsTyped /\ SquidTyped /\ RewardsKept /\ TotalsKept
  BY DEF StakingInv
<1>2. /\ Contracts' = Contracts /\ taken' = [taken EXCEPT ![s] = 0]
      /\ pending' = [pending EXCEPT ![s] = 0] /\ stakedIn' = [stakedIn EXCEPT ![s] = None]
      /\ stakedIn[s] = p
      /\ forfeited' = IF forced /\ Contracts[p].olas /\ Ours(p)
                      THEN [forfeited EXCEPT ![s] = @ + pending[s]] ELSE forfeited
  BY DEF ServiceUnstaked
<1>3. /\ known' = known
      /\ EarnedBy(service') = EarnedBy(service)
      /\ ClaimedBy(service') = [ClaimedBy(service) EXCEPT ![s] = @ + PaidOut(s, p, forced)]
      /\ \A q \in Stakers : /\ EpochsBy(service')[q] = Cardinality(EpochsOf(q)')
                            /\ Total(RewardsIn', Ended(q)') = Total(RewardsIn, Ended(q))
      /\ total'.in = total.in
      /\ total'.out = total.out + taken[s] /\ total'.current = total.current - taken[s]
      /\ total'.rewards = total.rewards
      /\ total'.claimed = total.claimed + PaidOut(s, p, forced)
      /\ updates' = [claimable |-> total'.rewards, claimed |-> total'.claimed]
  <2>1. UnstakeDone(s, p, forced, d)
    BY UnstakedEffect
  <2> QED BY <2>1 DEF UnstakeDone
<1>4. /\ p \in Proxies /\ pending \in [Stakers -> Nat] /\ forfeited \in [Stakers -> Nat]
      /\ taken \in [Stakers -> Nat] /\ stakedIn \in [Stakers -> Proxies \cup {None}]
      /\ IsFiniteSet(Stakers)
  BY <1>1, ConstantFacts DEF ContractsTyped
<1>5. /\ service \in RowTable /\ p # None /\ Contracts[p].olas \in BOOLEAN /\ total \in TotalRow
  BY <1>1, <1>4, StateFacts
<1>6. \A q \in Stakers : ClaimedBy(service)[q] \in Nat /\ EarnedBy(service)[q] \in Nat
  BY <1>5, ColumnsTyped
<1>7. PICK n \in Nat : n = PaidOut(s, p, forced)
  BY <1>4 DEF PaidOut
<1>8. RewardsKept'
  <2> SUFFICES ASSUME NEW q \in Stakers PROVE Balanced(q)'
    BY DEF RewardsKept
  <2>1. /\ EarnedBy(service)[q] = Total(RewardsIn, Ended(q))
        /\ EarnedBy(service)[q] = ClaimedBy(service)[q] + Due(q) + forfeited[q]
    BY <1>1 DEF RewardsKept, Balanced
  <2>2. EarnedBy(service')[q] = ClaimedBy(service')[q] + Due(q)' + forfeited'[q]
    <3>1. CASE q = s
      <4>1. Due(q)' = 0
        <5>1. stakedIn'[s] = None
          BY <1>2, <1>4
        <5> QED BY <3>1, <5>1 DEF Due, Pays
      <4>2. PICK c \in Nat : c = ClaimedBy(service)[s]
        BY <1>6
      <4>3. ClaimedBy(service')[s] = c + n
        BY <1>3, <1>7, <4>2 DEF ClaimedBy
      <4>4. PICK f \in Nat : f = forfeited[s]
        BY <1>4
      <4>5. PICK x \in Nat : x = pending[s]
        BY <1>4
      <4>6. PICK lost \in Nat : lost = IF Pays(p) /\ forced THEN x ELSE 0
        OBVIOUS
      <4>7. forfeited'[s] = f + lost
        <5>1. (forced /\ Contracts[p].olas /\ Ours(p)) <=> (Pays(p) /\ forced)
          BY <1>5 DEF Pays
        <5>2. CASE Pays(p) /\ forced
          BY <1>2, <1>4, <4>4, <4>5, <4>6, <5>1, <5>2
        <5>3. CASE ~ (Pays(p) /\ forced)
          BY <1>2, <1>4, <4>4, <4>6, <5>1, <5>3
        <5> QED BY <5>2, <5>3
      <4>8. Due(s) = n + lost
        <5>1. Due(s) = IF Pays(p) THEN x ELSE 0
          BY <1>2, <4>5 DEF Due
        <5>2. n = IF Pays(p) /\ ~ forced THEN x ELSE 0
          BY <1>7, <4>5 DEF PaidOut
        <5> QED BY <4>5, <4>6, <5>1, <5>2
      <4>9. EarnedBy(service)[s] = c + (n + lost) + f
        BY <2>1, <3>1, <4>2, <4>4, <4>8
      <4> QED BY <1>3, <3>1, <4>1, <4>3, <4>7, <4>9
    <3>2. CASE q # s
      <4>1. stakedIn'[q] = stakedIn[q] /\ pending'[q] = pending[q]
        BY <1>2, <1>4, <3>2
      <4>2. Pays(stakedIn[q])' <=> Pays(stakedIn[q])
        BY <1>2, <1>3, <4>1 DEF Pays, Ours
      <4>3. Due(q)' = Due(q)
        BY <4>1, <4>2 DEF Due
      <4>4. ClaimedBy(service')[q] = ClaimedBy(service)[q]
        BY <1>3, <3>2 DEF ClaimedBy
      <4>5. forfeited'[q] = forfeited[q]
        BY <1>2, <1>4, <3>2
      <4> QED BY <1>3, <2>1, <4>3, <4>4, <4>5
    <3> QED BY <3>1, <3>2
  <2> QED BY <1>3, <2>1, <2>2 DEF Balanced
<1>9. TotalsKept'
  <2>1. Total(ClaimedBy(service'), Stakers) = Total(ClaimedBy(service), Stakers) + n
    <3>1. PICK f : f = ClaimedBy(service)
      OBVIOUS
    <3>2. PICK g : g = ClaimedBy(service')
      OBVIOUS
    <3>3. DOMAIN f = Stakers
      BY <3>1 DEF ClaimedBy
    <3>4. g = [f EXCEPT ![s] = @ + n]
      BY <1>3, <1>7, <3>1, <3>2
    <3>5. /\ \A q \in Stakers : f[q] \in Nat
          /\ g[s] = f[s] + n /\ \A q \in Stakers \ {s} : f[q] = g[q]
      BY <1>6, <3>1, <3>3, <3>4
    <3>6. \A q \in Stakers : f[q] \in Int /\ g[q] \in Int
      BY <3>5
    <3>7. Total(g, Stakers) = Total(f, Stakers) + (g[s] - f[s])
      BY <1>4, <3>5, <3>6, SumChange
    <3>8. g[s] - f[s] = n
      BY <3>5
    <3> QED BY <3>1, <3>2, <3>7, <3>8
  <2>2. /\ total.current = Total(taken, Stakers) /\ total.current = total.in - total.out
        /\ total.rewards = Total(EarnedBy(service), Stakers)
        /\ total.claimed = Total(ClaimedBy(service), Stakers)
    BY <1>1 DEF TotalsKept
  <2>3. PICK k \in Nat : k = taken[s]
    BY <1>4
  <2>4. Total(taken', Stakers) = Total(taken, Stakers) - k
    <3>1. taken' \in [Stakers -> Nat] /\ taken'[s] = 0 /\ \A q \in Stakers \ {s} : taken[q] = taken'[q]
      BY <1>2, <1>4
    <3>2. Total(taken', Stakers) = Total(taken, Stakers) + (taken'[s] - taken[s])
      BY <1>4, <3>1, SumChange
    <3>3. Total(taken, Stakers) \in Int
      BY <1>4, SumTyped
    <3> QED BY <2>3, <3>1, <3>2, <3>3
  <2>5. total'.current = Total(taken', Stakers)
    BY <1>3, <2>2, <2>3, <2>4
  <2>6. total'.current = total'.in - total'.out
    <3>1. total.in \in Nat /\ total.out \in Nat
      BY <1>5 DEF TotalRow
    <3> QED BY <1>3, <2>2, <2>3, <3>1
  <2>7. total'.claimed = Total(ClaimedBy(service'), Stakers)
    BY <1>3, <1>7, <2>1, <2>2
  <2> QED BY <1>3, <2>2, <2>5, <2>6, <2>7 DEF TotalsKept
<1> QED BY <1>8, <1>9

LEMMA UnstakeKeepsSubgraph ==
  ASSUME StakingInv, NEW s \in Stakers, NEW p \in created, NEW forced \in BOOLEAN,
         NEW d \in StakeDays, ServiceUnstaked(s, p, forced, d)
  PROVE  /\ SubgraphTyped'
         /\ sgTotal'.in = sgTotal.in /\ sgTotal'.rewards = sgTotal.rewards
         /\ sgTotal'.lastDay = sgTotal.lastDay /\ sgSnapshot' = sgSnapshot
         /\ \A q \in Stakers : /\ (sgService'[q] = None) <=> (sgService[q] = None)
                               /\ sgService[q] # None => sgService'[q].earned = sgService[q].earned
         /\ Deposits' = [Deposits EXCEPT ![s] = 0]
<1>1. ContractsTyped /\ SquidTyped /\ SubgraphTyped
  BY DEF StakingInv
<1>2. /\ Contracts' = Contracts /\ stakedIn' = [stakedIn EXCEPT ![s] = None] /\ stakedIn[s] = p
  BY DEF ServiceUnstaked
<1>3. p \in Proxies /\ stakedIn \in [Stakers -> Proxies \cup {None}]
  BY <1>1 DEF ContractsTyped
<1>4. p # None /\ Contracts[p].deposit \in Nat /\ \A x \in Proxies : Contracts[x].deposit \in Nat
  BY <1>1, <1>3, StateFacts
<1>5. PICK n \in Nat : n = Contracts[p].deposit
  BY <1>4
<1>6. /\ sgService \in [Stakers -> {None} \cup SubgraphRow] /\ sgTotal \in SubgraphTotal
      /\ sgTotal.current = Total(Deposits, Stakers)
  BY <1>1 DEF SubgraphTyped
<1>7. /\ Deposits \in [Stakers -> Nat] /\ Deposits[s] = n /\ Deposits' = [Deposits EXCEPT ![s] = 0]
  <2>1. \A q \in Stakers : Deposits[q] \in Nat
    BY <1>3, <1>4 DEF Deposits
  <2>2. Deposits[s] = n
    BY <1>2, <1>4, <1>5 DEF Deposits
  <2>3. \A q \in Stakers : Deposits'[q] = IF q = s THEN 0 ELSE Deposits[q]
    BY <1>2, <1>3 DEF Deposits
  <2> QED BY <2>1, <2>2, <2>3 DEF Deposits
<1>8. /\ sgService' \in [Stakers -> {None} \cup SubgraphRow]
      /\ \A q \in Stakers : /\ (sgService'[q] = None) <=> (sgService[q] = None)
                            /\ sgService[q] # None => sgService'[q].earned = sgService[q].earned
  <2>1. CASE sgService[s] = None
    BY <1>6, <2>1 DEF ServiceUnstaked, SubgraphUnstaked
  <2>2. CASE sgService[s] # None
    <3>1. PICK r \in SubgraphRow : r = sgService[s]
      BY <1>6, <2>2
    <3>2. PICK new : new = [r EXCEPT !.staked = r.staked - n]
      OBVIOUS
    <3>3. new \in SubgraphRow /\ new.earned = r.earned
      BY <3>2 DEF SubgraphRow
    <3>4. sgService' = [sgService EXCEPT ![s] = new]
      BY <1>5, <1>6, <2>2, <3>1, <3>2 DEF ServiceUnstaked, SubgraphUnstaked
    <3> QED BY <1>6, <3>1, <3>3, <3>4, ConstantFacts
  <2> QED BY <2>1, <2>2
<1>9. /\ sgTotal' \in SubgraphTotal /\ sgTotal'.current = sgTotal.current - n
      /\ sgTotal'.in = sgTotal.in /\ sgTotal'.rewards = sgTotal.rewards
      /\ sgTotal'.lastDay = sgTotal.lastDay /\ sgSnapshot' = sgSnapshot
  <2>1. PICK t \in SubgraphTotal : t = sgTotal
    BY <1>6
  <2>2. t.current - n \in Nat
    <3>1. IsFiniteSet(Stakers) /\ IsFiniteSet(Stakers \ {s})
      BY ConstantFacts, FS_Subset
    <3>2. Total(Deposits, Stakers) = Deposits[s] + Total(Deposits, Stakers \ {s})
      BY <1>7, <3>1, SumSplit
    <3>3. Total(Deposits, Stakers \ {s}) \in Nat
      BY <1>7, <3>1, SumNatural
    <3> QED BY <1>6, <1>7, <2>1, <3>2, <3>3
  <2>3. sgTotal' = [t EXCEPT !.out = t.out + n, !.current = t.current - n] /\ sgSnapshot' = sgSnapshot
    BY <1>5, <2>1 DEF ServiceUnstaked, SubgraphUnstaked
  <2>4. sgTotal' = [in |-> t.in, out |-> t.out + n, current |-> t.current - n,
                    rewards |-> t.rewards, lastDay |-> t.lastDay]
    BY <2>3 DEF SubgraphTotal
  <2> QED BY <2>1, <2>2, <2>3, <2>4 DEF SubgraphTotal
<1>10. Total(Deposits', Stakers) = Total(Deposits, Stakers) - n
  <2>1. /\ Deposits' \in [Stakers -> Nat] /\ Deposits'[s] = 0 /\ IsFiniteSet(Stakers)
        /\ \A q \in Stakers \ {s} : Deposits[q] = Deposits'[q]
    BY <1>7, ConstantFacts
  <2>2. \A q \in Stakers : Deposits[q] \in Int /\ Deposits'[q] \in Int
    BY <1>7, <2>1
  <2>3. PICK f, g : f = Deposits /\ g = Deposits'
    OBVIOUS
  <2>4. Total(g, Stakers) = Total(f, Stakers) + (g[s] - f[s]) /\ Total(f, Stakers) \in Int
    BY <2>1, <2>2, <2>3, SumChange, SumTyped
  <2> QED BY <1>7, <2>1, <2>3, <2>4
<1>11. sgTotal'.current = Total(Deposits', Stakers)
  BY <1>6, <1>9, <1>10
<1>12. SubgraphTyped'
  BY <1>8, <1>9, <1>11 DEF SubgraphTyped, SubgraphTotal
<1> QED BY <1>7, <1>8, <1>9, <1>12

LEMMA UnstakeAgrees ==
  ASSUME StakingInv, AgreeInv, NEW s \in Stakers, NEW p \in created, NEW forced \in BOOLEAN,
         NEW d \in StakeDays, ServiceUnstaked(s, p, forced, d)
  PROVE  AgreeInv'
<1>1. ContractsTyped /\ SquidTyped /\ SnapshotsLast
  BY DEF StakingInv
<1>2. /\ Contracts' = Contracts /\ taken' = [taken EXCEPT ![s] = 0] /\ counted' = counted /\ AtDay(d)
  BY DEF ServiceUnstaked
<1>3. /\ EarnedBy(service') = EarnedBy(service)
      /\ \A q \in Stakers : /\ (service'[q] = None) <=> (service[q] = None)
                            /\ service[q] # None => service'[q].olas = service[q].olas
      /\ total'.in = total.in /\ total'.rewards = total.rewards
      /\ total'.lastDay = total.lastDay /\ SnapshotsKept(d)
  <2>1. UnstakeDone(s, p, forced, d)
    BY UnstakedEffect
  <2> QED BY <2>1 DEF UnstakeDone
<1>4. \A x \in DOMAIN snapshot : /\ x \in DOMAIN snapshot'
                                 /\ snapshot'[x].services = snapshot[x].services
                                 /\ snapshot'[x].median = snapshot[x].median
  BY <1>1, <1>2, <1>3, SnapshotsSettle
<1>5. SUFFICES ASSUME Alike
               PROVE  /\ Same' /\ total'.in >= sgTotal'.in
                      /\ total'.in = sgTotal'.in => SameStakes'
  BY <1>2, Zenon DEF AgreeInv, Alike, Proxies
<1>6. /\ Same /\ total.in >= sgTotal.in
      /\ total.in = sgTotal.in => SameStakes
  BY <1>5 DEF AgreeInv
<1>7. /\ sgTotal'.in = sgTotal.in /\ sgTotal'.rewards = sgTotal.rewards
      /\ sgTotal'.lastDay = sgTotal.lastDay /\ sgSnapshot' = sgSnapshot
      /\ \A q \in Stakers : /\ (sgService'[q] = None) <=> (sgService[q] = None)
                            /\ sgService[q] # None => sgService'[q].earned = sgService[q].earned
      /\ Deposits' = [Deposits EXCEPT ![s] = 0]
  BY UnstakeKeepsSubgraph
<1>8. Same'
  <2>1. ASSUME NEW q \in Stakers, service'[q] # None
        PROVE  service'[q].earned = sgService'[q].earned /\ service'[q].olas
    <3>1. service[q] # None
      BY <1>3, <2>1
    <3>2. service[q].earned = sgService[q].earned /\ service[q].olas /\ sgService[q] # None
      BY <1>6, <3>1 DEF Same
    <3>3. EarnedBy(service')[q] = service'[q].earned /\ EarnedBy(service)[q] = service[q].earned
      BY <2>1, <3>1 DEF EarnedBy
    <3> QED BY <1>3, <1>7, <3>1, <3>2, <3>3
  <2> QED BY <1>3, <1>4, <1>6, <1>7, <2>1 DEF Same
<1>9. SameStakes => SameStakes'
  <2>1. DOMAIN Deposits = Stakers /\ taken \in [Stakers -> Nat]
    BY <1>1 DEF Deposits, ContractsTyped
  <2> QED BY <1>2, <1>7, <2>1 DEF SameStakes
<1> QED BY <1>3, <1>6, <1>7, <1>8, <1>9

-----------------------------------------------------------------------------
(* handleInstanceCreated, and what changes nothing. *)

LEMMA CreatedKeeps ==
  ASSUME StakingInv, HandleInstanceCreated
  PROVE  StakingInv' /\ (AgreeInv => AgreeInv')
<1>1. /\ ContractsTyped /\ SquidTyped /\ StakesHaveRows /\ EpochsHaveRows /\ RewardsKept /\ TotalsKept
      /\ TimelineContinuous /\ TimelineGoesOn /\ SnapshotsLast /\ SubgraphTyped
  BY DEF StakingInv
<1>2. PICK p \in Proxies \ created :
        /\ created' = created \cup {p} /\ known' = known \cup {p}
        /\ UNCHANGED <<Contracts, stakedIn, pending, epoch, stakeDay, stakes, service, active,
                       history, total, snapshot, updates, subgraphVars, ghostVars>>
  BY DEF HandleInstanceCreated
<1>3. /\ Contracts' = Contracts /\ stakedIn' = stakedIn /\ pending' = pending /\ epoch' = epoch
      /\ stakeDay' = stakeDay /\ service' = service /\ active' = active /\ history' = history
      /\ total' = total /\ snapshot' = snapshot /\ updates' = updates
      /\ sgService' = sgService /\ sgTotal' = sgTotal /\ sgSnapshot' = sgSnapshot
      /\ taken' = taken /\ forfeited' = forfeited /\ since' = since /\ left' = left
      /\ counted' = counted
  BY <1>2 DEF subgraphVars, ghostVars
<1>4. Proxies' = Proxies
  BY <1>3 DEF Proxies
<1>5. \A q \in created : Ours(q)' <=> Ours(q)
  BY <1>2, <1>3 DEF Ours
<1>6. /\ created \subseteq Proxies /\ known = created
      /\ \A s \in Stakers : stakedIn[s] # None => stakedIn[s] \in created
      /\ \A s \in Stakers : \A q \in Proxies : since[s][q] # 0 => q \in created
  BY <1>1 DEF ContractsTyped
<1>7. ContractsTyped'
  BY <1>1, <1>2, <1>3, <1>4 DEF ContractsTyped, AllEpochs, Epochs
<1>8. \A s \in Stakers : EpochsOf(s)' = EpochsOf(s)
  BY <1>3 DEF EpochsOf
<1>9. RewardsIn' = RewardsIn /\ \A s \in Stakers : Ended(s)' = Ended(s)
  BY <1>3, <1>8 DEF RewardsIn, Ended
<1>10. SquidTyped'
  BY <1>1, <1>3, <1>4, <1>8 DEF SquidTyped, Shaped, AllEpochs, Epochs
<1>11. StakesHaveRows'
  <2> SUFFICES ASSUME NEW q \in Stakers
               PROVE  /\ stakedIn'[q] # None /\ Ours(stakedIn[q])' => service'[q] # None
                      /\ stakedIn'[q] = None => taken'[q] = 0
                      /\ stakedIn'[q] # None /\ ~ Ours(stakedIn[q])' => taken'[q] = 0
                      /\ service'[q] = None => forfeited'[q] = 0
                      /\ HeldBy(service')[q] = taken'[q] /\ LockedBy(service')[q] = taken'[q]
    BY DEF StakesHaveRows
  <2>1. /\ stakedIn[q] # None /\ Ours(stakedIn[q]) => service[q] # None
        /\ stakedIn[q] = None => taken[q] = 0
        /\ stakedIn[q] # None /\ ~ Ours(stakedIn[q]) => taken[q] = 0
        /\ service[q] = None => forfeited[q] = 0
        /\ HeldBy(service)[q] = taken[q] /\ LockedBy(service)[q] = taken[q]
    BY <1>1 DEF StakesHaveRows
  <2>2. stakedIn[q] # None => (Ours(stakedIn[q])' <=> Ours(stakedIn[q]))
    BY <1>2, <1>3, <1>6 DEF Ours
  <2> QED BY <1>3, <2>1, <2>2
<1>12. EpochsHaveRows'
  BY <1>1, <1>3, <1>4 DEF EpochsHaveRows, AllEpochs, Epochs
<1>13. RewardsKept'
  <2> SUFFICES ASSUME NEW q \in Stakers PROVE Balanced(q)'
    BY DEF RewardsKept
  <2>1. Balanced(q)
    BY <1>1 DEF RewardsKept
  <2>2. Pays(stakedIn[q])' <=> Pays(stakedIn[q])
    <3>1. CASE stakedIn[q] = None
      BY <1>3, <3>1 DEF Pays
    <3>2. CASE stakedIn[q] # None
      <4>1. stakedIn[q] \in known <=> stakedIn[q] \in known'
        BY <1>2, <1>6, <3>2
      <4> QED BY <1>3, <4>1 DEF Pays, Ours
    <3> QED BY <3>1, <3>2
  <2>3. Due(q)' = Due(q)
    BY <1>3, <2>2 DEF Due
  <2> QED BY <1>3, <1>8, <1>9, <2>1, <2>3 DEF Balanced
<1>14. TotalsKept'
  BY <1>1, <1>3 DEF TotalsKept
<1>15. TimelineContinuous'
  BY <1>1, <1>3, <1>4, <1>5, <1>6, Zenon DEF TimelineContinuous
<1>16. TimelineGoesOn'
  BY <1>1, <1>3, <1>4, <1>5, <1>6, Zenon DEF TimelineGoesOn
<1>17. SnapshotsLast'
  BY <1>1, <1>3 DEF SnapshotsLast, CountsIn, NoCount
<1>18. Deposits' = Deposits
  BY <1>3 DEF Deposits
<1>19. SubgraphTyped'
  BY <1>1, <1>3, <1>18 DEF SubgraphTyped, SubgraphTotal
<1>20. AgreeInv => AgreeInv'
  <2>1. Alike' <=> Alike
    BY <1>3, <1>4 DEF Alike
  <2>2. (Same' <=> Same) /\ (SameStakes' <=> SameStakes)
    BY <1>3, <1>18 DEF Same, SameStakes
  <2> QED BY <1>3, <2>1, <2>2 DEF AgreeInv
<1> QED BY <1>7, <1>10, <1>11, <1>12, <1>13, <1>14, <1>15, <1>16, <1>17, <1>19, <1>20 DEF StakingInv

LEMMA StutterKeeps ==
  ASSUME StakingInv, UNCHANGED stakingVars
  PROVE  StakingInv' /\ (AgreeInv => AgreeInv')
<1>1. /\ Contracts' = Contracts /\ created' = created /\ stakedIn' = stakedIn
      /\ pending' = pending /\ epoch' = epoch
      /\ stakeDay' = stakeDay /\ known' = known /\ service' = service /\ active' = active
      /\ history' = history
      /\ total' = total /\ snapshot' = snapshot /\ updates' = updates
      /\ sgService' = sgService /\ sgTotal' = sgTotal /\ sgSnapshot' = sgSnapshot
      /\ taken' = taken /\ forfeited' = forfeited /\ since' = since /\ left' = left
      /\ counted' = counted
  BY DEF stakingVars, chainVars, squidVars, subgraphVars, ghostVars
<1>2. /\ ContractsTyped /\ SquidTyped /\ StakesHaveRows /\ EpochsHaveRows /\ RewardsKept /\ TotalsKept
      /\ TimelineContinuous /\ TimelineGoesOn /\ SnapshotsLast /\ SubgraphTyped
  BY DEF StakingInv
<1>3. Proxies' = Proxies
  BY <1>1 DEF Proxies
<1>4. \A s \in Stakers : EpochsOf(s)' = EpochsOf(s)
  BY <1>1 DEF EpochsOf
<1>5. RewardsIn' = RewardsIn /\ \A s \in Stakers : Ended(s)' = Ended(s)
  BY <1>1, <1>4 DEF RewardsIn, Ended
<1>6. ContractsTyped' /\ TotalsKept' /\ SnapshotsLast' /\ EpochsHaveRows'
  BY <1>1, <1>2, <1>3 DEF ContractsTyped, TotalsKept, SnapshotsLast, EpochsHaveRows, AllEpochs, Epochs, CountsIn, NoCount
<1>7. SquidTyped'
  BY <1>1, <1>2, <1>3, <1>4 DEF SquidTyped, Shaped, AllEpochs, Epochs
<1>8. StakesHaveRows'
  BY <1>1, <1>2 DEF StakesHaveRows, Ours
<1>9. RewardsKept'
  <2> SUFFICES ASSUME NEW q \in Stakers PROVE Balanced(q)'
    BY DEF RewardsKept
  <2>1. Due(q)' = Due(q)
    BY <1>1 DEF Due, Pays, Ours
  <2>2. Balanced(q)
    BY <1>2 DEF RewardsKept
  <2> QED BY <1>1, <1>4, <1>5, <2>1, <2>2 DEF Balanced
<1>10. TimelineContinuous' /\ TimelineGoesOn'
  BY <1>1, <1>2, <1>3 DEF TimelineContinuous, TimelineGoesOn, Ours
<1>11. Deposits' = Deposits
  BY <1>1 DEF Deposits
<1>12. SubgraphTyped'
  BY <1>1, <1>2, <1>11 DEF SubgraphTyped, SubgraphTotal
<1>13. AgreeInv => AgreeInv'
  <2>1. Alike' <=> Alike
    BY <1>1, <1>3 DEF Alike
  <2>2. (Same' <=> Same) /\ (SameStakes' <=> SameStakes)
    BY <1>1, <1>11 DEF Same, SameStakes
  <2> QED BY <1>1, <2>1, <2>2 DEF AgreeInv
<1> QED BY <1>6, <1>7, <1>8, <1>9, <1>10, <1>12, <1>13 DEF StakingInv

-----------------------------------------------------------------------------
(* The first state, and the steps together. *)

LEMMA StakingStarts ==
  ASSUME StakingInit PROVE StakingInv /\ AgreeInv
<1>1. /\ Contracts \in Deployments
      /\ created = {} /\ stakedIn = [s \in Stakers |-> None] /\ pending = [s \in Stakers |-> 0]
      /\ epoch = [p \in Proxies |-> 1] /\ stakeDay = 1
      /\ known = {} /\ service = [s \in Stakers |-> None]
      /\ active = [p \in Proxies |-> [e \in AllEpochs |-> None]]
      /\ history = <<>> /\ total = NoTotal /\ snapshot = <<>>
      /\ updates = [claimable |-> 0, claimed |-> 0]
      /\ sgService = [s \in Stakers |-> None] /\ sgSnapshot = <<>>
      /\ sgTotal = [in |-> 0, out |-> 0, current |-> 0, rewards |-> 0, lastDay |-> 0]
      /\ taken = [s \in Stakers |-> 0] /\ forfeited = [s \in Stakers |-> 0]
      /\ since = [s \in Stakers |-> [p \in Proxies |-> 0]]
      /\ left = [s \in Stakers |-> [p \in Proxies |-> FALSE]]
      /\ counted = NoCount
  BY DEF StakingInit, AllEpochs, Epochs
<1>2. DOMAIN history = {} /\ DOMAIN snapshot = {} /\ DOMAIN sgSnapshot = {}
  BY <1>1
<1>3. \A s \in Stakers : EpochsOf(s) = {} /\ Ended(s) = {}
  BY <1>2 DEF EpochsOf, Ended
<1>4. IsFiniteSet({}) /\ Cardinality({}) = 0
  BY FS_EmptySet
<1>5. ContractsTyped
  <2>1. 1 \in AllEpochs /\ 1 \in StakeDays
    BY ConstantFacts DEF AllEpochs, Epochs, StakeDays
  <2> QED BY <1>1, <2>1 DEF ContractsTyped
<1>6. SquidTyped
  <2>1. total \in TotalRow
    BY <1>1 DEF NoTotal, TotalRow
  <2>2. \A s \in Stakers : IsFiniteSet(EpochsOf(s))
    BY <1>3, <1>4
  <2> QED BY <1>1, <1>2, <2>1, <2>2 DEF SquidTyped
<1>7. \A s \in Stakers : /\ EarnedBy(service)[s] = 0 /\ ClaimedBy(service)[s] = 0
                         /\ HeldBy(service)[s] = 0 /\ LockedBy(service)[s] = 0
                         /\ EpochsBy(service)[s] = 0 /\ taken[s] = 0 /\ Deposits[s] = 0
  BY <1>1 DEF EarnedBy, ClaimedBy, HeldBy, LockedBy, EpochsBy, Deposits
<1>8. StakesHaveRows
  BY <1>1, <1>7 DEF StakesHaveRows
<1>9. EpochsHaveRows
  BY <1>1, <1>2 DEF EpochsHaveRows
<1>10. RewardsKept
  <2> SUFFICES ASSUME NEW s \in Stakers PROVE Balanced(s)
    BY DEF RewardsKept
  <2>1. Total(RewardsIn, {}) = 0
    BY <1>4, SumZero
  <2>2. Due(s) = 0
    BY <1>1 DEF Due, Pays
  <2>3. Total(RewardsIn, Ended(s)) = 0 /\ Cardinality(EpochsOf(s)) = 0
    BY <1>3, <1>4, <2>1
  <2> QED BY <1>1, <1>7, <2>2, <2>3 DEF Balanced
<1>11. /\ Total(taken, Stakers) = 0 /\ Total(EarnedBy(service), Stakers) = 0
       /\ Total(ClaimedBy(service), Stakers) = 0 /\ Total(Deposits, Stakers) = 0
  <2>1. IsFiniteSet(Stakers)
    BY ConstantFacts
  <2>2. Total(taken, Stakers) = 0
    BY <1>7, <2>1, SumZero
  <2>3. Total(EarnedBy(service), Stakers) = 0
    BY <1>7, <2>1, SumZero
  <2>4. Total(ClaimedBy(service), Stakers) = 0
    BY <1>7, <2>1, SumZero
  <2>5. Total(Deposits, Stakers) = 0
    BY <1>7, <2>1, SumZero
  <2> QED BY <2>2, <2>3, <2>4, <2>5
<1>12. TotalsKept
  BY <1>1, <1>11 DEF TotalsKept, NoTotal
<1>13. TimelineContinuous /\ TimelineGoesOn
  BY <1>1 DEF TimelineContinuous, TimelineGoesOn, Ours
<1>14. SnapshotsLast
  BY <1>1, <1>2 DEF SnapshotsLast, NoTotal
<1>15. SubgraphTyped
  BY <1>1, <1>11 DEF SubgraphTyped, SubgraphTotal
<1>16. AgreeInv
  <2>1. Same
    BY <1>1, <1>2 DEF Same, NoTotal
  <2>2. SameStakes
    BY <1>7 DEF SameStakes
  <2>3. total.in = 0 /\ sgTotal.in = 0
    BY <1>1 DEF NoTotal
  <2> QED BY <2>1, <2>2, <2>3 DEF AgreeInv
<1> QED BY <1>5, <1>6, <1>8, <1>9, <1>10, <1>12, <1>13, <1>14, <1>15, <1>16 DEF StakingInv

LEMMA StakingSteps ==
  ASSUME StakingInv, AgreeInv, [StakingNext]_stakingVars
  PROVE  StakingInv' /\ AgreeInv'
<1>1. created \subseteq Proxies /\ ContractsTyped /\ SquidTyped
  BY DEF StakingInv, ContractsTyped
<1>2. CASE HandleInstanceCreated
  BY <1>2, CreatedKeeps
<1>3. CASE HandleServiceStaked
  <2>1. PICK s \in Stakers, p \in created, more \in {0, 1}, d \in StakeDays :
          ServiceStaked(s, p, Locked(p, more), d)
    BY <1>3 DEF HandleServiceStaked
  <2>2. Locked(p, more) \in Nat
    BY <1>1, LockedTyped
  <2>3. /\ ContractsTyped' /\ SquidTyped' /\ StakesHaveRows' /\ EpochsHaveRows' /\ RewardsKept'
        /\ TotalsKept' /\ TimelineContinuous' /\ TimelineGoesOn' /\ SnapshotsLast' /\ SubgraphTyped'
    BY <2>1, <2>2, StakedContracts, StakedSquid, StakedTimeline, StakedSubgraph
  <2>4. AgreeInv'
    BY <2>1, StakedAgrees
  <2> QED BY <2>3, <2>4 DEF StakingInv
<1>4. CASE HandleCheckpoint
  <2>0. PICK p \in created, d \in StakeDays :
          \E rewarded \in SUBSET StakedAt(p) : EpochEnded(p, rewarded, d)
    BY <1>4 DEF HandleCheckpoint, StakedAt
  <2>1. PICK rewarded \in SUBSET StakedAt(p) : EpochEnded(p, rewarded, d)
    BY <2>0
  <2>2. /\ ContractsTyped' /\ SquidTyped' /\ StakesHaveRows' /\ EpochsHaveRows' /\ RewardsKept'
        /\ TotalsKept' /\ TimelineContinuous' /\ TimelineGoesOn' /\ SnapshotsLast' /\ SubgraphTyped'
    BY <2>1, EpochContracts, EpochTables, EpochSums, EpochTimeline, EpochSnapshots
  <2>3. AgreeInv'
    BY <2>1, EpochAgrees
  <2> QED BY <2>2, <2>3 DEF StakingInv
<1>5. CASE HandleRewardClaimed
  <2>1. PICK s \in Stakers, p \in created, d \in StakeDays : RewardClaimed(s, p, d)
    BY <1>5 DEF HandleRewardClaimed
  <2> QED BY <2>1, ClaimKeeps, ClaimAgrees
<1>6. CASE HandleServiceUnstaked
  <2>1. PICK s \in Stakers, p \in created, forced \in BOOLEAN, d \in StakeDays :
          ServiceUnstaked(s, p, forced, d)
    BY <1>6 DEF HandleServiceUnstaked
  <2>2. /\ ContractsTyped' /\ SquidTyped' /\ StakesHaveRows' /\ EpochsHaveRows' /\ RewardsKept'
        /\ TotalsKept' /\ TimelineContinuous' /\ TimelineGoesOn' /\ SnapshotsLast' /\ SubgraphTyped'
    BY <2>1, UnstakeKeepsSquid, UnstakeKeepsSums, UnstakeKeepsSubgraph
  <2>3. AgreeInv'
    BY <2>1, UnstakeAgrees
  <2> QED BY <2>2, <2>3 DEF StakingInv
<1>7. CASE UNCHANGED stakingVars
  BY <1>7, StutterKeeps
<1> QED BY <1>2, <1>3, <1>4, <1>5, <1>6, <1>7 DEF StakingNext

LEMMA StakingHolds == StakingSpec => [](StakingInv /\ AgreeInv)
<1>1. StakingInit => StakingInv /\ AgreeInv
  BY StakingStarts
<1>2. StakingInv /\ AgreeInv /\ [StakingNext]_stakingVars => StakingInv' /\ AgreeInv'
  BY StakingSteps
<1> QED BY <1>1, <1>2, PTL DEF StakingSpec

LEMMA InvSays ==
  ASSUME StakingInv PROVE StakesAndHistoryAddUp
<1>1. /\ ContractsTyped /\ SquidTyped /\ StakesHaveRows /\ RewardsKept /\ TotalsKept
      /\ TimelineContinuous /\ SnapshotsLast /\ SubgraphTyped
  BY DEF StakingInv
<1>2. StakingTypeOK
  BY <1>1 DEF StakingTypeOK, SquidTyped, SubgraphTyped, AllEpochs, TotalRow, SubgraphTotal
<1>3. StakesAddUp
  <2>1. ASSUME NEW s \in Serviced PROVE service[s].staked = taken[s]
    <3>1. s \in Stakers /\ service[s] # None
      BY DEF Serviced
    <3>2. HeldBy(service)[s] = taken[s]
      BY <1>1, <3>1 DEF StakesHaveRows
    <3> QED BY <3>1, <3>2 DEF HeldBy
  <2> QED BY <1>1, <2>1 DEF StakesAddUp, TotalsKept
<1>4. RewardsAddUp
  <2>1. ASSUME NEW s \in Serviced
        PROVE  /\ service[s].earned = Total(RewardsIn, Ended(s))
               /\ service[s].earned = service[s].claimed + Due(s) + forfeited[s]
               /\ service[s].epochs = Cardinality(EpochsOf(s))
    <3>1. s \in Stakers /\ service[s] # None
      BY DEF Serviced
    <3>2. /\ EarnedBy(service)[s] = Total(RewardsIn, Ended(s))
          /\ EarnedBy(service)[s] = ClaimedBy(service)[s] + Due(s) + forfeited[s]
          /\ EpochsBy(service)[s] = Cardinality(EpochsOf(s))
      BY <1>1, <3>1 DEF RewardsKept, Balanced
    <3>3. /\ EarnedBy(service)[s] = service[s].earned /\ ClaimedBy(service)[s] = service[s].claimed
          /\ EpochsBy(service)[s] = service[s].epochs
      BY <3>1 DEF EarnedBy, ClaimedBy, EpochsBy
    <3> QED BY <3>2, <3>3
  <2> QED BY <1>1, <2>1 DEF RewardsAddUp, TotalsKept
<1>5. SnapshotsFollow
  <2> DEFINE last == CHOOSE d \in DOMAIN snapshot : \A e \in DOMAIN snapshot : e <= d
  <2>1. SUFFICES ASSUME DOMAIN snapshot # {}
                 PROVE  /\ snapshot[last].rewards = total.rewards
                        /\ snapshot[last].claimed = total.claimed
                        /\ [services |-> snapshot[last].services, median |-> snapshot[last].median]
                             = counted
    BY DEF SnapshotsFollow
  <2>2. \E d \in DOMAIN snapshot : \A e \in DOMAIN snapshot : e <= d
    BY <1>1, <2>1 DEF SnapshotsLast
  <2>3. last \in DOMAIN snapshot /\ \A e \in DOMAIN snapshot : e <= last
    BY <2>2, Zenon
  <2> HIDE DEF last
  <2> QED BY <1>1, <2>3 DEF SnapshotsLast, CountsIn
<1> QED BY <1>1, <1>2, <1>3, <1>4, <1>5 DEF StakesAndHistoryAddUp

LEMMA InvAgrees ==
  ASSUME StakingInv, AgreeInv PROVE AgreesWithSubgraph
<1>1. /\ TotalsKept /\ sgTotal.current = Total(Deposits, Stakers)
  BY DEF StakingInv, SubgraphTyped
<1> SUFFICES ASSUME Alike, total.in = sgTotal.in
             PROVE  /\ total.current = sgTotal.current /\ total.rewards = sgTotal.rewards
                    /\ total.lastDay = sgTotal.lastDay
                    /\ \A s \in Stakers : /\ (service[s] = None) <=> (sgService[s] = None)
                                          /\ service[s] # None => service[s].earned = sgService[s].earned
                    /\ \A d \in DOMAIN sgSnapshot : /\ snapshot[d].services = sgSnapshot[d].services
                                                    /\ snapshot[d].median = sgSnapshot[d].median
  BY Zenon DEF AgreesWithSubgraph, Alike
<1>2. Same /\ SameStakes
  BY DEF AgreeInv
<1>3. Total(taken, Stakers) = Total(Deposits, Stakers)
  BY <1>2, ConstantFacts, SumSame DEF SameStakes
<1>4. total.current = sgTotal.current
  BY <1>1, <1>3 DEF TotalsKept
<1> QED BY <1>2, <1>4 DEF Same

\* Whatever the contracts, the services and the days: what is staked, in total and by
\* service, is what the stakes that were not undone were taken for; the rewards of a
\* service are those of its epochs that ended, each paid, to be paid or lost; its timeline
\* in a contract has no gap until it stakes in another; the last snapshot has the totals.
THEOREM StakingAlwaysAddsUp == StakingSpec => []StakesAndHistoryAddUp
<1>1. StakingInv /\ AgreeInv => StakesAndHistoryAddUp
  BY InvSays
<1> QED BY <1>1, StakingHolds, PTL

\* Where every contract is for OLAS and is indexed, and no service locked more than the
\* deposit, the squid has the totals, the rewards and the snapshots of the subgraph it
\* was ported from.
THEOREM StakingAlwaysAgrees == StakingSpec => []AgreesWithSubgraph
<1>1. StakingInv /\ AgreeInv => AgreesWithSubgraph
  BY InvAgrees
<1> QED BY <1>1, StakingHolds, PTL
=============================================================================
